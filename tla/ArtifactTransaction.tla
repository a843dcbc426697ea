------------------------- MODULE ArtifactTransaction -------------------------
(***************************************************************************)
(* The binary artifact transaction of the opendart CLI                     *)
(* (opendart-cli/src/artifact/transaction.rs).                             *)
(*                                                                         *)
(* An owner (an async task) streams chunks to a worker (an OS thread) that *)
(* stages them in a private directory and publishes the finished file      *)
(* under the destination name.  They share a command channel with one      *)
(* slot, an unbounded event channel, and an atomic commit authority.       *)
(*                                                                         *)
(* The owner is the most general client of the module's interface: it      *)
(* makes the calls in any order and drops a call's future, or the whole    *)
(* transaction, whenever it likes.  ArtifactExecute models the one caller  *)
(* there is.  A third party creates and removes an entry of its own under  *)
(* the destination name.                                                   *)
(*                                                                         *)
(* An operator Mutant<X> is X with a plausible slip in the code.  No       *)
(* specification uses it: it replaces X when a property is shown to fail   *)
(* without what the code does.                                             *)
(***************************************************************************)
EXTENDS Integers, Sequences

CONSTANTS
  ChunkSizes,       (* lengths a chunk of the body may have                 *)
  Limit,            (* the artifact budget in bytes, inclusive              *)
  MaxU64,           (* the largest u64                                      *)
  MaxCalls          (* model bound: enqueue and finish calls made           *)

ASSUME ConstantsAssumption ==
  /\ ChunkSizes \subseteq Nat \ {0}
  /\ MaxU64 \in Nat
  /\ Limit \in 0 .. MaxU64
  /\ MaxCalls \in Nat

CommandCapacity == 1

VARIABLES
  owner,       (* where the owner's task is                                 *)
  call,        (* the call it is in: [op, size]                             *)
  result,      (* what the last call to return returned                     *)
  calls,       (* enqueue and finish calls made                             *)
  offered,     (* bytes of the chunks whose enqueue succeeded               *)
  authority,   (* CommitAuthority.state                                     *)
  commands,    (* the command channel                                       *)
  events,      (* the event channel                                         *)
  worker,      (* where the worker thread is                                *)
  taken,       (* the command the worker took last                          *)
  bytes,       (* StagedArtifact.bytes                                      *)
  length,      (* bytes that are in the staged file                         *)
  finished,    (* run_worker's local of that name                           *)
  stage,       (* the private staging directory                             *)
  ending,      (* the event the worker sends when it has cleaned up         *)
  destination  (* the directory entry under the destination name            *)

ownerVars   == <<owner, call, result, calls, offered>>
fileVars    == <<bytes, length, finished>>
workerVars  == <<worker, taken, fileVars, stage, ending>>
vars        == <<ownerVars, authority, commands, events, workerVars, destination>>

-----------------------------------------------------------------------------
Failures ==
  {"DestinationExists", "DestinationMetadataUnavailable", "ParentNotDirectory",
   "ParentUnavailable", "TemporaryFileCreation", "Limit", "Write", "Flush",
   "Publish", "WorkerUnavailable"}
Cleanups == {"none", "failed", "pending"}
Ops      == {"start", "write", "finish", "commit", "discard"}
Calls    == [op : Ops, size : ChunkSizes \cup {0}]
Events   == [type    : {"Ready", "Finished", "Committed", "Stopped", "Closed"},
             failure : Failures \cup {"none"},
             bytes   : Nat,
             cleanup : Cleanups]
Results  == [call    : Ops \cup {"none", "cancelled", "abandon", "drop"},
             error   : Failures \cup {"none"},
             bytes   : Nat,
             cleanup : Cleanups]
Entries  == [kind : {"absent", "foreign", "artifact"}, bytes : Nat]

Event(type, failure) ==
  [type |-> type, failure |-> failure, bytes |-> 0, cleanup |-> "none"]
Result(name, error, cleanup) ==
  [call |-> name, error |-> error, bytes |-> 0, cleanup |-> cleanup]
Absent   == [kind |-> "absent", bytes |-> 0]
Foreign  == [kind |-> "foreign", bytes |-> 0]

TypeOK ==
  /\ owner \in {"new", "idle", "sending", "waiting", "stopped", "gone"}
  /\ call \in Calls
  /\ result \in Results
  /\ calls \in 0 .. MaxCalls
  /\ offered \in Nat
  /\ authority \in {"ACTIVE", "CANCELLED", "COMMITTING", "COMMITTED"}
  /\ commands \in Seq(Calls)
  /\ Len(commands) <= CommandCapacity
  /\ events \in Seq(Events)
  /\ worker \in {"unspawned", "open", "mkdir", "create", "ready", "loop", "recv",
                 "write", "flush", "commit", "publish", "cleanup", "report",
                 "exiting", "done"}
  /\ taken \in Calls
  /\ bytes \in Nat
  /\ length \in Nat
  /\ finished \in BOOLEAN
  /\ stage \in {"none", "present", "removed"}
  /\ ending \in Events
  /\ destination \in Entries

Init ==
  /\ owner = "new"
  /\ call = [op |-> "start", size |-> 0]
  /\ result = Result("none", "none", "none")
  /\ calls = 0
  /\ offered = 0
  /\ authority = "ACTIVE"
  /\ commands = <<>>
  /\ events = <<>>
  /\ worker = "unspawned"
  /\ taken = [op |-> "start", size |-> 0]
  /\ bytes = 0
  /\ length = 0
  /\ finished = FALSE
  /\ stage = "none"
  /\ ending = Event("Stopped", "none")
  /\ destination \in {Absent, Foreign}

-----------------------------------------------------------------------------
(* The commit authority.                                                   *)

MutantRevokeCommitting ==
  IF authority \in {"ACTIVE", "COMMITTING"} THEN "CANCELLED" ELSE authority
(* revoke: compare-exchange ACTIVE -> CANCELLED. *)
Revoked == IF authority = "ACTIVE" THEN "CANCELLED" ELSE authority

MutantBeginCommit == UNCHANGED authority
(* begin_commit: compare-exchange ACTIVE -> COMMITTING. *)
BeginCommit == authority = "ACTIVE" /\ authority' = "COMMITTING"

-----------------------------------------------------------------------------
(* The owner's calls.                                                      *)

(* What ends with the transaction value: drop revokes, both channel ends   *)
(* close.                                                                  *)
Leave(outcome) ==
  /\ owner' = "gone"
  /\ authority' = Revoked
  /\ result' = outcome

(* start: spawn the worker, then wait for its first event. *)
Start ==
  /\ owner = "new"
  /\ owner' = "waiting"
  /\ worker' = "open"
  /\ UNCHANGED <<call, result, calls, offered, authority, commands, events,
                 taken, fileVars, stage, ending, destination>>

SpawnFails ==
  /\ owner = "new"
  /\ Leave(Result("start", "WorkerUnavailable", "none"))
  /\ UNCHANGED <<call, calls, offered, commands, events, workerVars, destination>>

(* enqueue and finish borrow the transaction and only begin to send. *)
Borrow(op, size) ==
  /\ owner = "idle"
  /\ calls < MaxCalls
  /\ calls' = calls + 1
  /\ owner' = "sending"
  /\ call' = [op |-> op, size |-> size]
  /\ UNCHANGED <<result, offered, authority, commands, events, workerVars,
                 destination>>

Enqueue(size) == Borrow("write", size)
Finish        == Borrow("finish", 0)

(* commit consumes the transaction. *)
Commit ==
  /\ owner = "idle"
  /\ owner' = "sending"
  /\ call' = [op |-> "commit", size |-> 0]
  /\ UNCHANGED <<result, calls, offered, authority, commands, events, workerVars,
                 destination>>

MutantDiscard ==
  /\ owner = "idle"
  /\ owner' = "waiting"
  /\ call' = [op |-> "discard", size |-> 0]
  /\ authority' = Revoked
  /\ UNCHANGED <<result, calls, offered, commands, events, workerVars, destination>>
(* discard revokes first and then asks the worker to stop. *)
Discard ==
  /\ owner = "idle"
  /\ owner' = "sending"
  /\ call' = [op |-> "discard", size |-> 0]
  /\ authority' = Revoked
  /\ UNCHANGED <<result, calls, offered, commands, events, workerVars, destination>>

(* abandon revokes and returns without waiting for the worker. *)
Abandon ==
  /\ owner = "idle"
  /\ Leave(Result("abandon", "none", "pending"))
  /\ UNCHANGED <<call, calls, offered, commands, events, workerVars, destination>>

(* The transaction, or the future that owns it, is dropped. *)
Drop ==
  /\ \/ owner = "idle"
     \/ /\ owner \in {"sending", "waiting", "stopped"}
        /\ call.op \in {"start", "commit", "discard"}
  /\ Leave(Result("drop", "none", "none"))
  /\ UNCHANGED <<call, calls, offered, commands, events, workerVars, destination>>

(* The future of an enqueue or a finish is dropped; a send that has not    *)
(* completed is not made, one that has is not taken back.                  *)
Cancel ==
  /\ owner \in {"sending", "waiting", "stopped"}
  /\ call.op \in {"write", "finish"}
  /\ owner' = "idle"
  /\ result' = Result("cancelled", "none", "none")
  /\ UNCHANGED <<call, calls, offered, authority, commands, events, workerVars,
                 destination>>

MutantHasRoom == TRUE
HasRoom == Len(commands) < CommandCapacity

(* commands.send: an enqueue returns when its command is in the channel,   *)
(* the other calls then wait for an event.                                 *)
Send ==
  /\ owner = "sending"
  /\ worker # "done"
  /\ HasRoom
  /\ commands' = Append(commands, call)
  /\ IF call.op = "write"
     THEN /\ owner' = "idle"
          /\ offered' = offered + call.size
          /\ result' = Result("write", "none", "none")
     ELSE /\ owner' = "waiting"
          /\ UNCHANGED <<offered, result>>
  /\ UNCHANGED <<call, calls, authority, events, workerVars, destination>>

(* The worker has gone: discard goes on to its event loop, the others to   *)
(* stopped_error.                                                          *)
SendRefused ==
  /\ owner = "sending"
  /\ worker = "done"
  /\ owner' = IF call.op = "discard" THEN "waiting" ELSE "stopped"
  /\ UNCHANGED <<call, result, calls, offered, authority, commands, events,
                 workerVars, destination>>

MutantWorkerGone == FALSE
(* Both ends of the worker's channels are dropped when run_worker returns. *)
WorkerGone == worker = "done"

(* The event a recv returns: the oldest one, or None once the worker has   *)
(* dropped its end.                                                        *)
NextEvent == IF events # <<>> THEN Head(events) ELSE Event("Closed", "none")
Rest      == IF events # <<>> THEN Tail(events) ELSE events

Awaited  == [start |-> "Ready", write |-> "none", finish |-> "Finished",
             commit |-> "Committed", discard |-> "none"]
Fallback == [start |-> "TemporaryFileCreation", write |-> "Write",
             finish |-> "Flush", commit |-> "Publish", discard |-> "none"]

(* The match on the event in start, finish and commit (state "waiting"),   *)
(* in stopped_error (state "stopped") and in discard.                      *)
Answer(event) ==
  LET succeeds == \/ call.op = "discard"
                  \/ owner = "waiting" /\ event.type = Awaited[call.op]
      stopped  == event.type = "Stopped"
  IN [call    |-> call.op,
      error   |-> IF succeeds THEN "none"
                  ELSE IF ~stopped THEN "WorkerUnavailable"
                  ELSE IF event.failure = "none" THEN Fallback[call.op]
                  ELSE event.failure,
      bytes   |-> IF succeeds THEN event.bytes ELSE 0,
      cleanup |-> IF succeeds \/ stopped THEN event.cleanup ELSE "none"]

Skips(event) == call.op = "discard" /\ event.type \in {"Ready", "Finished"}

(* discard's loop passes over events that were on their way. *)
SkipEvent ==
  /\ owner = "waiting"
  /\ events # <<>>
  /\ Skips(Head(events))
  /\ events' = Rest
  /\ UNCHANGED <<ownerVars, authority, commands, workerVars, destination>>

(* A call returns.  start hands the transaction out only when it succeeds, *)
(* commit and discard consume it, enqueue and finish give it back.         *)
Receive ==
  LET outcome == Answer(NextEvent)
  IN /\ owner \in {"waiting", "stopped"}
     /\ events # <<>> \/ WorkerGone
     /\ ~ Skips(NextEvent)
     /\ events' = Rest
     /\ IF \/ call.op \in {"write", "finish"}
           \/ call.op = "start" /\ outcome.error = "none"
        THEN owner' = "idle" /\ result' = outcome /\ UNCHANGED authority
        ELSE Leave(outcome)
     /\ UNCHANGED <<call, calls, offered, commands, workerVars, destination>>

OwnerCalls ==
  \/ Start \/ SpawnFails
  \/ \E size \in ChunkSizes : Enqueue(size)
  \/ Finish \/ Commit \/ Discard \/ Abandon \/ Drop \/ Cancel
OwnerWaits == Send \/ SendRefused \/ SkipEvent \/ Receive
Owner      == OwnerCalls \/ OwnerWaits

-----------------------------------------------------------------------------
(* The worker.                                                             *)

(* events.send; the error of a closed channel is ignored or leads to the   *)
(* clean-up that follows anyway.                                           *)
Emit(event) == events' = IF owner = "gone" THEN events ELSE Append(events, event)

(* The worker is to clean up and then stop with this event. *)
Stop(event) == worker' = "cleanup" /\ ending' = event

(* Nothing was staged, so there is nothing to clean up. *)
Refuse(failure) == worker' = "report" /\ ending' = Event("Stopped", failure)

(* StagedArtifact::create opens the parent and looks for the destination. *)
OpenParent ==
  /\ worker = "open"
  /\ \/ worker' = "mkdir" /\ destination.kind = "absent" /\ UNCHANGED ending
     \/ destination.kind # "absent" /\ Refuse("DestinationExists")
     \/ \E failure \in {"ParentNotDirectory", "ParentUnavailable",
                        "DestinationMetadataUnavailable"} : Refuse(failure)
  /\ UNCHANGED <<ownerVars, authority, commands, events, taken, fileVars, stage,
                 destination>>

(* create_private_stage: the directory may be made and then not opened. *)
MakeStage ==
  /\ worker = "mkdir"
  /\ \/ stage' = "present" /\ worker' = "create" /\ UNCHANGED ending
     \/ stage' = "present" /\ Stop(Event("Stopped", "TemporaryFileCreation"))
     \/ UNCHANGED stage /\ Refuse("TemporaryFileCreation")
  /\ UNCHANGED <<ownerVars, authority, commands, events, taken, fileVars,
                 destination>>

(* create_staged_file. *)
CreateFile ==
  /\ worker = "create"
  /\ \/ worker' = "ready" /\ UNCHANGED ending
     \/ Stop(Event("Stopped", "TemporaryFileCreation"))
  /\ UNCHANGED <<ownerVars, authority, commands, events, taken, fileVars, stage,
                 destination>>

AnnounceReady ==
  /\ worker = "ready"
  /\ Emit(Event("Ready", "none"))
  /\ IF owner = "gone"
     THEN Stop(Event("Stopped", "none"))
     ELSE worker' = "loop" /\ UNCHANGED ending
  /\ UNCHANGED <<ownerVars, authority, commands, taken, fileVars, stage, destination>>

(* The top of run_worker's loop. *)
CheckAuthority ==
  /\ worker = "loop"
  /\ IF authority = "ACTIVE"
     THEN worker' = "recv" /\ UNCHANGED ending
     ELSE Stop(Event("Stopped", "none"))
  /\ UNCHANGED <<ownerVars, authority, commands, events, taken, fileVars, stage,
                 destination>>

(* The match on a command: each arm's place, or how the worker stops. *)
InOrder(op) ==
  \/ op \in {"write", "finish"} /\ ~finished
  \/ op = "commit" /\ finished

TakeCommand ==
  /\ worker = "recv"
  /\ commands # <<>>
  /\ commands' = Tail(commands)
  /\ taken' = Head(commands)
  /\ LET op == Head(commands).op
     IN IF op = "discard" THEN Stop(Event("Stopped", "none"))
        ELSE IF InOrder(op)
        THEN /\ worker' = IF op = "finish" THEN "flush" ELSE op
             /\ UNCHANGED ending
        ELSE Stop(Event("Stopped", "WorkerUnavailable"))
  /\ UNCHANGED <<ownerVars, authority, events, fileVars, stage, destination>>

MutantDisconnected == FALSE
(* blocking_recv returns None: the owner has gone and the channel is empty. *)
Disconnected == owner = "gone" /\ commands = <<>>
FindDisconnected ==
  /\ worker = "recv"
  /\ Disconnected
  /\ Stop(Event("Stopped", "none"))
  /\ UNCHANGED <<ownerVars, authority, commands, events, taken, fileVars, stage,
                 destination>>

MutantFits(current, chunk) == (current + chunk) % (MaxU64 + 1) <= Limit
(* next_byte_count: a checked addition against an inclusive limit. *)
Fits(current, chunk) == current + chunk <= MaxU64 /\ current + chunk <= Limit

MutantAfterFailedWrite == worker' = "loop" /\ UNCHANGED ending
AfterFailedWrite == Stop(Event("Stopped", "Write"))

(* StagedArtifact::write, after the second look at the authority.  The     *)
(* write itself reaches only the private file, so the look and the write   *)
(* are one step.  A failing write_all may have written a part.             *)
WriteChunk ==
  /\ worker = "write"
  /\ \/ /\ authority # "ACTIVE"
        /\ worker' = "loop"
        /\ UNCHANGED <<bytes, length, ending>>
     \/ /\ authority = "ACTIVE"
        /\ ~ Fits(bytes, taken.size)
        /\ Stop(Event("Stopped", "Limit"))
        /\ UNCHANGED <<bytes, length>>
     \/ /\ authority = "ACTIVE"
        /\ Fits(bytes, taken.size)
        /\ bytes' = bytes + taken.size
        /\ length' = length + taken.size
        /\ worker' = "loop"
        /\ UNCHANGED ending
     \/ /\ authority = "ACTIVE"
        /\ Fits(bytes, taken.size)
        /\ \E part \in 0 .. (taken.size - 1) : length' = length + part
        /\ AfterFailedWrite
        /\ UNCHANGED bytes
  /\ UNCHANGED <<ownerVars, authority, commands, events, taken, finished, stage,
                 destination>>

(* StagedArtifact::flush and the report of the byte count. *)
Flush ==
  /\ worker = "flush"
  /\ \/ /\ finished' = TRUE
        /\ Emit([Event("Finished", "none") EXCEPT !.bytes = bytes])
        /\ IF owner = "gone"
           THEN Stop(Event("Stopped", "none"))
           ELSE worker' = "loop" /\ UNCHANGED ending
     \/ Stop(Event("Stopped", "Flush")) /\ UNCHANGED <<finished, events>>
  /\ UNCHANGED <<ownerVars, authority, commands, taken, bytes, length, stage,
                 destination>>

(* Commit: without the authority the worker goes back to the loop's top. *)
AcquireCommit ==
  /\ worker = "commit"
  /\ \/ BeginCommit /\ worker' = "publish"
     \/ authority # "ACTIVE" /\ worker' = "loop" /\ UNCHANGED authority
  /\ UNCHANGED <<ownerVars, commands, events, taken, fileVars, stage, ending,
                 destination>>

MutantCreatesEntry == TRUE
(* publish_retained creates an absent entry atomically or fails. *)
CreatesEntry == destination.kind = "absent"
Publish ==
  /\ worker = "publish"
  /\ \/ /\ CreatesEntry
        /\ destination' = [kind |-> "artifact", bytes |-> length]
        /\ Stop(Event("Committed", "none"))
     \/ /\ destination.kind # "absent"
        /\ Stop(Event("Stopped", "DestinationExists"))
        /\ UNCHANGED destination
     \/ Stop(Event("Stopped", "Publish")) /\ UNCHANGED destination
  /\ UNCHANGED <<ownerVars, authority, commands, events, taken, fileVars, stage>>

(* cleanup_stage and cleanup_unopened_stage. *)
CleanUp ==
  /\ worker = "cleanup"
  /\ worker' = "report"
  /\ \/ stage' = "removed" /\ UNCHANGED ending
     \/ UNCHANGED stage /\ ending' = [ending EXCEPT !.cleanup = "failed"]
  /\ UNCHANGED <<ownerVars, authority, commands, events, taken, fileVars, destination>>

(* The last event.  mark_committed comes before it and is not observable   *)
(* apart from it: the owner's revoke fails against either state.           *)
LastEvent ==
  /\ worker = "report"
  /\ worker' = "exiting"
  /\ authority' = IF ending.type = "Committed" THEN "COMMITTED" ELSE authority
  /\ Emit(ending)
  /\ UNCHANGED <<ownerVars, commands, taken, fileVars, stage, ending, destination>>

(* run_worker returns and drops its channel ends; until then a command     *)
(* still fits into the channel and is lost.                                *)
Exit ==
  /\ worker = "exiting"
  /\ worker' = "done"
  /\ UNCHANGED <<ownerVars, authority, commands, events, taken, fileVars, stage,
                 ending, destination>>

Worker ==
  \/ OpenParent \/ MakeStage \/ CreateFile \/ AnnounceReady \/ CheckAuthority
  \/ TakeCommand \/ FindDisconnected \/ WriteChunk \/ Flush \/ AcquireCommit
  \/ Publish \/ CleanUp \/ LastEvent \/ Exit

-----------------------------------------------------------------------------
(* Another process creates or removes an entry of its own under the        *)
(* destination name.                                                       *)
Interfere ==
  /\ \/ destination = Absent /\ destination' = Foreign
     \/ destination = Foreign /\ destination' = Absent
  /\ UNCHANGED <<ownerVars, authority, commands, events, workerVars>>

Next == Owner \/ Worker \/ Interfere

Spec == Init /\ [][Next]_vars

(* The executor polls a call whose channel is ready, and the filesystem    *)
(* calls of the worker return.                                             *)
FairSpec == Spec /\ WF_vars(OwnerWaits) /\ WF_vars(Worker)
=============================================================================
