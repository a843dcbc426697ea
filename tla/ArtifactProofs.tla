---------------------------- MODULE ArtifactProofs ----------------------------
(***************************************************************************)
(* Proofs about the artifact transaction, for every set of chunk sizes,    *)
(* every budget and every number of calls, and about the binary call of    *)
(* the CLI.  The binary call is a client of the transaction, so it keeps   *)
(* everything the transaction promises; and what it reports is true of the *)
(* destination name and of the staging directory.  In neither does anybody *)
(* wait for ever: one of the two can always go on, and not without end.    *)
(***************************************************************************)
EXTENDS ArtifactExecute, SequenceTheorems, TLAPS

(* Bytes on their way from the owner to the staged file. *)
InChannel ==
  IF commands # <<>> /\ Head(commands).op = "write" THEN Head(commands).size ELSE 0
InHand    == IF worker = "write" THEN taken.size ELSE 0

BeforeEnd == {"unspawned", "open", "mkdir", "create", "ready", "loop", "recv", "write",
              "flush", "commit", "publish"}
Pending   == owner \in {"sending", "waiting", "stopped"}
Committed == owner = "gone" \/ (owner = "waiting" /\ call.op = "commit")

(* Unless the transaction was revoked, no accepted byte is lost. *)
Accounting ==
  authority # "CANCELLED" /\ worker \in BeforeEnd =>
    offered = bytes + InHand + InChannel /\ length = bytes

(* Who may hold the authority in which state of the owner. *)
Holding ==
  /\ owner = "new" => worker = "unspawned" /\ call.op = "start"
  /\ owner \in {"new", "idle"} => authority = "ACTIVE"
  /\ call.op = "write" => call.size \in ChunkSizes
  /\ Pending /\ call.op \in {"start", "write", "finish"} => authority = "ACTIVE"
  /\ owner = "sending" /\ call.op = "commit" => authority = "ACTIVE"
  /\ Pending /\ call.op = "discard" => authority = "CANCELLED"
  /\ authority \in {"COMMITTING", "COMMITTED"} =>
       Committed /\ worker \in {"publish", "cleanup", "report", "exiting", "done"}

(* A commit is the last command: nothing follows it into the channel. *)
CommitIsLast ==
  /\ commands # <<>> /\ Head(commands).op = "commit" => Committed
  /\ worker \in {"commit", "publish"} => Committed /\ commands = <<>> /\ finished
  /\ worker = "publish" => authority = "COMMITTING"
  /\ worker \in {"cleanup", "report"} /\ ending.type = "Committed" =>
       authority = "COMMITTING"

Publication ==
  /\ bytes <= Limit
  /\ Published => /\ destination.bytes = offered
                  /\ destination.bytes = bytes
                  /\ finished
                  /\ authority \in {"COMMITTING", "COMMITTED"}
                  /\ worker \in {"cleanup", "report", "exiting", "done"}

(* Every entry under the destination name is in one of its three forms. *)
EntryForm == Published \/ destination \in {Absent, Foreign}

Inv == Accounting /\ Holding /\ CommitIsLast /\ Publication /\ EntryForm
-----------------------------------------------------------------------------
LEMMA Results_ ==
  ASSUME NEW name \in Ops \cup {"none", "cancelled", "abandon", "drop"},
         NEW error \in Failures \cup {"none"}, NEW cleanup \in Cleanups
  PROVE  Result(name, error, cleanup) \in Results
  BY DEF Result, Results

LEMMA Events_ ==
  ASSUME NEW type \in {"Ready", "Finished", "Committed", "Stopped", "Closed"},
         NEW failure \in Failures \cup {"none"}
  PROVE  Event(type, failure) \in Events
  BY DEF Event, Events, Cleanups

LEMMA AnswerTyped ==
  ASSUME TypeOK, NEW event \in Events
  PROVE  Answer(event) \in Results
<1>1. call.op \in Ops
  BY DEF TypeOK, Calls
<1>2. call.op # "discard" => Fallback[call.op] \in Failures
  BY <1>1 DEF Fallback, Ops, Failures
<1>3. event.failure \in Failures \cup {"none"} /\ event.bytes \in Nat /\ event.cleanup \in Cleanups
  BY DEF Events
<1>4. QED
  BY <1>1, <1>2, <1>3 DEF Answer, Results, Failures, Cleanups

LEMMA NextEventTyped ==
  ASSUME TypeOK
  PROVE  NextEvent \in Events /\ Rest \in Seq(Events)
  BY Events_, HeadTailProperties DEF TypeOK, NextEvent, Rest, Failures

LEMMA TypeInit == Init => TypeOK
<1> SUFFICES ASSUME Init PROVE TypeOK
  OBVIOUS
<1>1. call \in Calls /\ taken \in Calls
  BY DEF Init, Calls, Ops
<1>2. result \in Results
  BY Results_ DEF Init, Failures, Cleanups
<1>3. ending \in Events
  BY Events_ DEF Init
<1>4. commands \in Seq(Calls) /\ Len(commands) <= CommandCapacity /\ events \in Seq(Events)
  BY DEF Init, CommandCapacity
<1>5. destination \in Entries
  BY DEF Init, Entries, Absent, Foreign
<1>6. calls \in 0 .. MaxCalls
  BY ConstantsAssumption DEF Init
<1> QED
  BY <1>1, <1>2, <1>3, <1>4, <1>5, <1>6 DEF Init, TypeOK

LEMMA SizesAreNat == TypeOK => call.size \in Nat /\ taken.size \in Nat
<1> SUFFICES ASSUME TypeOK PROVE call.size \in Nat /\ taken.size \in Nat
  OBVIOUS
<1>1. ChunkSizes \cup {0} \subseteq Nat
  BY ConstantsAssumption
<1> QED
  BY <1>1 DEF TypeOK, Calls

(* Type correctness, one step per action. *)
LEMMA TypeNext == TypeOK /\ [Next]_vars => TypeOK'
<1> SUFFICES ASSUME TypeOK, [Next]_vars PROVE TypeOK'
  OBVIOUS
<1>Start. CASE Start
  BY <1>Start DEF Start, TypeOK, fileVars
<1>SpawnFails. CASE SpawnFails
  BY <1>SpawnFails, Results_ DEF SpawnFails, TypeOK, Leave, Revoked, workerVars, fileVars, Ops, Failures, Cleanups
<1>Enqueue. CASE \E size \in ChunkSizes : Enqueue(size)
  BY <1>Enqueue, ConstantsAssumption DEF Enqueue, TypeOK, Borrow, Calls, Ops, workerVars, fileVars
<1>Finish. CASE Finish
  BY <1>Finish, ConstantsAssumption DEF Finish, TypeOK, Borrow, Calls, Ops, workerVars, fileVars
<1>Commit. CASE Commit
  BY <1>Commit DEF Commit, TypeOK, Calls, Ops, workerVars, fileVars
<1>Discard. CASE Discard
  BY <1>Discard DEF Discard, TypeOK, Calls, Ops, Revoked, workerVars, fileVars
<1>Abandon. CASE Abandon
  BY <1>Abandon, Results_ DEF Abandon, TypeOK, Leave, Revoked, workerVars, fileVars, Ops, Failures, Cleanups
<1>Drop. CASE Drop
  BY <1>Drop, Results_ DEF Drop, TypeOK, Leave, Revoked, workerVars, fileVars, Ops, Failures, Cleanups
<1>Cancel. CASE Cancel
  BY <1>Cancel, Results_ DEF Cancel, TypeOK, workerVars, fileVars, Ops, Failures, Cleanups
<1>Send. CASE Send
  <2>1. commands' \in Seq(Calls) /\ Len(commands') <= CommandCapacity
    BY <1>Send, AppendProperties DEF Send, HasRoom, TypeOK, CommandCapacity
  <2>2. offered' \in Nat
    BY <1>Send, SizesAreNat DEF Send, TypeOK
  <2>3. result' \in Results
    BY <1>Send, Results_ DEF Send, TypeOK, Ops, Cleanups
  <2> QED
    BY <1>Send, <2>1, <2>2, <2>3 DEF Send, TypeOK, workerVars, fileVars
<1>SendRefused. CASE SendRefused
  BY <1>SendRefused DEF SendRefused, TypeOK, workerVars, fileVars
<1>SkipEvent. CASE SkipEvent
  BY <1>SkipEvent, NextEventTyped DEF SkipEvent, TypeOK, ownerVars, workerVars, fileVars
<1>Receive. CASE Receive
  BY <1>Receive, NextEventTyped, AnswerTyped DEF Receive, TypeOK, Leave, Revoked, workerVars, fileVars
<1>OpenParent. CASE OpenParent
  BY <1>OpenParent, Events_ DEF OpenParent, TypeOK, Refuse, ownerVars, fileVars, Failures
<1>MakeStage. CASE MakeStage
  BY <1>MakeStage, Events_ DEF MakeStage, TypeOK, Refuse, Stop, ownerVars, fileVars, Failures
<1>CreateFile. CASE CreateFile
  BY <1>CreateFile, Events_ DEF CreateFile, TypeOK, Stop, ownerVars, fileVars, Failures
<1>AnnounceReady. CASE AnnounceReady
  BY <1>AnnounceReady, Events_ DEF AnnounceReady, TypeOK, Emit, Stop, ownerVars, fileVars, Failures
<1>CheckAuthority. CASE CheckAuthority
  BY <1>CheckAuthority, Events_ DEF CheckAuthority, TypeOK, Stop, ownerVars, fileVars, Failures
<1>TakeCommand. CASE TakeCommand
  <2>1. Head(commands) \in Calls /\ commands' \in Seq(Calls) /\ Len(commands') <= CommandCapacity
    BY <1>TakeCommand, HeadTailProperties DEF TakeCommand, TypeOK, CommandCapacity
  <2>2. ending' \in Events
    BY <1>TakeCommand, Events_ DEF TakeCommand, TypeOK, Stop, Failures
  <2>3. worker' \in {"write", "flush", "commit", "cleanup"}
    BY <1>TakeCommand DEF TakeCommand, InOrder, Stop
  <2> QED
    BY <1>TakeCommand, <2>1, <2>2, <2>3 DEF TakeCommand, TypeOK, ownerVars, fileVars
<1>FindDisconnected. CASE FindDisconnected
  BY <1>FindDisconnected, Events_ DEF FindDisconnected, TypeOK, Stop, ownerVars, fileVars, Failures
<1>WriteChunk. CASE WriteChunk
  <2>1. bytes' \in Nat /\ length' \in Nat
    BY <1>WriteChunk, SizesAreNat DEF WriteChunk, TypeOK
  <2>2. ending' \in Events
    BY <1>WriteChunk, Events_ DEF WriteChunk, AfterFailedWrite, TypeOK, Stop, Failures
  <2>3. worker' \in {"loop", "cleanup"}
    BY <1>WriteChunk DEF WriteChunk, AfterFailedWrite, Stop
  <2> QED
    BY <1>WriteChunk, <2>1, <2>2, <2>3 DEF WriteChunk, TypeOK, ownerVars
<1>Flush. CASE Flush
  <2>1. [Event("Finished", "none") EXCEPT !.bytes = bytes] \in Events
    BY DEF Event, Events, Cleanups, TypeOK
  <2>2. events' \in Seq(Events)
    <3>1. events \in Seq(Events)
      BY DEF TypeOK
    <3>2. Append(events, [Event("Finished", "none") EXCEPT !.bytes = bytes]) \in Seq(Events)
      BY <2>1, <3>1, AppendProperties
    <3> QED
      BY <1>Flush, <3>1, <3>2 DEF Flush, Emit
  <2>3. ending' \in Events
    BY <1>Flush, Events_ DEF Flush, TypeOK, Stop, Failures
  <2> QED
    BY <1>Flush, <2>2, <2>3 DEF Flush, Stop, TypeOK, ownerVars
<1>AcquireCommit. CASE AcquireCommit
  BY <1>AcquireCommit DEF AcquireCommit, TypeOK, BeginCommit, ownerVars, fileVars
<1>Publish. CASE Publish
  <2>1. destination' \in Entries
    BY <1>Publish DEF Publish, TypeOK, Entries
  <2>2. ending' \in Events
    BY <1>Publish, Events_ DEF Publish, Stop, Failures
  <2> QED
    BY <1>Publish, <2>1, <2>2 DEF Publish, Stop, TypeOK, ownerVars, fileVars
<1>CleanUp. CASE CleanUp
  <2>1. ending' \in Events
    BY <1>CleanUp DEF CleanUp, TypeOK, Events, Cleanups
  <2> QED
    BY <1>CleanUp, <2>1 DEF CleanUp, TypeOK, ownerVars, fileVars
<1>LastEvent. CASE LastEvent
  BY <1>LastEvent DEF LastEvent, TypeOK, Emit, ownerVars, fileVars
<1>Exit. CASE Exit
  BY <1>Exit DEF Exit, TypeOK, ownerVars, fileVars
<1>Interfere. CASE Interfere
  BY <1>Interfere DEF Interfere, TypeOK, Absent, Foreign, Entries, ownerVars, workerVars, fileVars
<1>unchanged. CASE UNCHANGED vars
  BY <1>unchanged DEF TypeOK, vars, ownerVars, workerVars, fileVars
<1> QED
  BY <1>Start, <1>SpawnFails, <1>Enqueue, <1>Finish, <1>Commit, <1>Discard,
     <1>Abandon, <1>Drop, <1>Cancel, <1>Send, <1>SendRefused, <1>SkipEvent,
     <1>Receive, <1>OpenParent, <1>MakeStage, <1>CreateFile, <1>AnnounceReady,
     <1>CheckAuthority, <1>TakeCommand, <1>FindDisconnected, <1>WriteChunk,
     <1>Flush, <1>AcquireCommit, <1>Publish, <1>CleanUp, <1>LastEvent, <1>Exit,
     <1>Interfere, <1>unchanged
  DEF Next, Owner, OwnerCalls, OwnerWaits, Worker

LEMMA InvInit == Init => Inv
  BY ConstantsAssumption
  DEF Init, Inv, Accounting, Holding, CommitIsLast, Publication, EntryForm, InChannel, InHand, BeforeEnd, Pending, Committed, Published, Event, Absent, Foreign

LEMMA InvNext == TypeOK /\ Inv /\ [Next]_vars => Inv'
<1> SUFFICES ASSUME TypeOK, Inv, [Next]_vars PROVE Inv'
  OBVIOUS
<1> USE ConstantsAssumption, SizesAreNat DEF TypeOK, Inv, Accounting, Holding, CommitIsLast, Publication, EntryForm, InChannel, InHand, BeforeEnd, Pending, Committed, Published
<1>Start. CASE Start
  BY <1>Start DEF Start, fileVars
<1>SpawnFails. CASE SpawnFails
  BY <1>SpawnFails DEF SpawnFails, Leave, Revoked, workerVars, fileVars
<1>Enqueue. CASE \E size \in ChunkSizes : Enqueue(size)
  BY <1>Enqueue DEF Enqueue, Borrow, workerVars, fileVars
<1>Finish. CASE Finish
  BY <1>Finish DEF Finish, Borrow, workerVars, fileVars
<1>Commit. CASE Commit
  BY <1>Commit DEF Commit, workerVars, fileVars
<1>Discard. CASE Discard
  BY <1>Discard DEF Discard, Revoked, workerVars, fileVars
<1>Abandon. CASE Abandon
  BY <1>Abandon DEF Abandon, Leave, Revoked, workerVars, fileVars
<1>Drop. CASE Drop
  BY <1>Drop DEF Drop, Leave, Revoked, workerVars, fileVars
<1>Cancel. CASE Cancel
  BY <1>Cancel DEF Cancel, workerVars, fileVars
<1>Send. CASE Send
  BY <1>Send DEF Send, HasRoom, CommandCapacity, workerVars, fileVars
<1>SendRefused. CASE SendRefused
  BY <1>SendRefused DEF SendRefused, workerVars, fileVars
<1>SkipEvent. CASE SkipEvent
  BY <1>SkipEvent DEF SkipEvent, ownerVars, workerVars, fileVars
<1>Receive. CASE Receive
  BY <1>Receive DEF Receive, Leave, Revoked, workerVars, fileVars
<1>OpenParent. CASE OpenParent
  BY <1>OpenParent DEF OpenParent, Refuse, Event, ownerVars, fileVars
<1>MakeStage. CASE MakeStage
  BY <1>MakeStage DEF MakeStage, Refuse, Stop, Event, ownerVars, fileVars
<1>CreateFile. CASE CreateFile
  BY <1>CreateFile DEF CreateFile, Stop, Event, ownerVars, fileVars
<1>AnnounceReady. CASE AnnounceReady
  BY <1>AnnounceReady DEF AnnounceReady, Stop, Event, ownerVars, fileVars
<1>CheckAuthority. CASE CheckAuthority
  BY <1>CheckAuthority DEF CheckAuthority, Stop, Event, ownerVars, fileVars
<1>TakeCommand. CASE TakeCommand
  BY <1>TakeCommand DEF TakeCommand, InOrder, Stop, CommandCapacity, Event, ownerVars, fileVars
<1>FindDisconnected. CASE FindDisconnected
  BY <1>FindDisconnected DEF FindDisconnected, Stop, Event, ownerVars, fileVars
<1>WriteChunk. CASE WriteChunk
  <2>1. CASE authority # "ACTIVE" /\ worker' = "loop" /\ UNCHANGED <<bytes, length, ending>>
    BY <1>WriteChunk, <2>1 DEF WriteChunk, ownerVars
  <2>2. CASE worker' = "cleanup" /\ UNCHANGED bytes /\ ending'.type = "Stopped"
    BY <1>WriteChunk, <2>2 DEF WriteChunk, ownerVars
  <2>3. CASE /\ Fits(bytes, taken.size)
             /\ bytes' = bytes + taken.size
             /\ length' = length + taken.size
             /\ worker' = "loop"
             /\ UNCHANGED ending
    BY <1>WriteChunk, <2>3 DEF WriteChunk, Fits, ownerVars
  <2> QED
    BY <1>WriteChunk, <2>1, <2>2, <2>3 DEF WriteChunk, AfterFailedWrite, Stop, Event
<1>Flush. CASE Flush
  BY <1>Flush DEF Flush, Stop, Event, ownerVars
<1>AcquireCommit. CASE AcquireCommit
  BY <1>AcquireCommit DEF AcquireCommit, BeginCommit, ownerVars, fileVars
<1>Publish. CASE Publish
  BY <1>Publish DEF Publish, Stop, CreatesEntry, Event, ownerVars, fileVars
<1>CleanUp. CASE CleanUp
  BY <1>CleanUp DEF CleanUp, Events, ownerVars, fileVars
<1>LastEvent. CASE LastEvent
  BY <1>LastEvent DEF LastEvent, ownerVars, fileVars
<1>Exit. CASE Exit
  BY <1>Exit DEF Exit, ownerVars, fileVars
<1>Interfere. CASE Interfere
  BY <1>Interfere DEF Interfere, Absent, Foreign, ownerVars, workerVars, fileVars
<1>unchanged. CASE UNCHANGED vars
  BY <1>unchanged DEF vars, ownerVars, workerVars, fileVars, Inv, Accounting, Holding, CommitIsLast, Publication, EntryForm, InChannel, InHand, BeforeEnd, Pending, Committed, Published
<1> QED
  BY <1>Start, <1>SpawnFails, <1>Enqueue, <1>Finish, <1>Commit, <1>Discard,
     <1>Abandon, <1>Drop, <1>Cancel, <1>Send, <1>SendRefused, <1>SkipEvent,
     <1>Receive, <1>OpenParent, <1>MakeStage, <1>CreateFile, <1>AnnounceReady,
     <1>CheckAuthority, <1>TakeCommand, <1>FindDisconnected, <1>WriteChunk,
     <1>Flush, <1>AcquireCommit, <1>Publish, <1>CleanUp, <1>LastEvent, <1>Exit,
     <1>Interfere, <1>unchanged
  DEF Next, Owner, OwnerCalls, OwnerWaits, Worker

-----------------------------------------------------------------------------
(* Every state a step of the transaction leads to is well typed and        *)
(* satisfies the inductive invariant.                                      *)
LEMMA InductiveInvariant == Spec => [](TypeOK /\ Inv)
<1>1. Init => TypeOK /\ Inv
  BY TypeInit, InvInit
<1>2. TypeOK /\ Inv /\ [Next]_vars => (TypeOK /\ Inv)'
  BY TypeNext, InvNext
<1> QED
  BY <1>1, <1>2, PTL DEF Spec

(* Type correctness of the transaction, whatever calls its owner makes.    *)
THEOREM TypeCorrect == Spec => []TypeOK
  BY InductiveInvariant, PTL

(* What is published is the whole artifact: no interleaving of the owner,  *)
(* the worker and another process publishes a part of it, a larger body    *)
(* than the budget, or a body that an accepted chunk is missing from.      *)
THEOREM PublishedWholeAlways == Spec => []PublishedWhole
<1>1. TypeOK /\ Inv => PublishedWhole
  BY DEF TypeOK, Inv, Publication, PublishedWhole
<1> QED
  BY <1>1, InductiveInvariant, PTL

(* A transaction whose authority was revoked has published nothing.        *)
THEOREM RevokedUnpublishedAlways == Spec => []RevokedUnpublished
<1>1. Inv => RevokedUnpublished
  BY DEF Inv, Publication, RevokedUnpublished
<1> QED
  BY <1>1, InductiveInvariant, PTL

(* The debug assertions of abandon and mark_committed never fail.          *)
THEOREM AssertionsHoldAlways == Spec => []AssertionsHold
<1>1. Inv => AssertionsHold
  BY DEF Inv, Holding, CommitIsLast, AssertionsHold
<1> QED
  BY <1>1, InductiveInvariant, PTL

(* A step changes the destination entry only from or to an absent one and  *)
(* publishes only while the commit authority is exercised; a revocation is *)
(* final.                                                                  *)
THEOREM NoClobberAlways == Spec => NoClobber
<1>1. TypeOK /\ Inv /\ [Next]_vars => [EntryStep]_vars
  <2> SUFFICES ASSUME TypeOK, Inv, Next PROVE EntryStep
    BY DEF vars
  <2>1. CASE Publish
    BY <2>1 DEF Publish, CreatesEntry, EntryStep, EntryForm, Published, Inv, CommitIsLast,
             Absent, Foreign
  <2>2. CASE Interfere
    BY <2>2 DEF Interfere, EntryStep, Published, Absent, Foreign
  <2>3. CASE Owner
    <3>1. UNCHANGED destination
      BY <2>3 DEF Owner, OwnerCalls, OwnerWaits, Start, SpawnFails, Enqueue, Finish, Borrow, Commit,
             Discard, Abandon, Drop, Cancel, Send, SendRefused, SkipEvent, Receive
    <3>2. authority = "CANCELLED" => authority' = "CANCELLED"
      BY <2>3 DEF Owner, OwnerCalls, OwnerWaits, Start, SpawnFails, Enqueue, Finish, Borrow, Commit,
             Discard, Abandon, Drop, Cancel, Send, SendRefused, SkipEvent, Receive, Leave, Revoked
    <3> QED
      BY <3>1, <3>2 DEF EntryStep, Published
  <2>4. CASE Worker /\ ~ Publish
    <3>1. UNCHANGED destination
      BY <2>4 DEF Worker, OpenParent, MakeStage, CreateFile, AnnounceReady, CheckAuthority,
             TakeCommand, FindDisconnected, WriteChunk, Flush, AcquireCommit, CleanUp, LastEvent, Exit
    <3>2. authority = "CANCELLED" => authority' = "CANCELLED"
      BY <2>4 DEF Worker, OpenParent, MakeStage, CreateFile, AnnounceReady, CheckAuthority,
             TakeCommand, FindDisconnected, WriteChunk, Flush, AcquireCommit, BeginCommit, CleanUp,
             LastEvent, Exit, Inv, CommitIsLast
    <3> QED
      BY <3>1, <3>2 DEF EntryStep, Published
  <2> QED
    BY <2>1, <2>2, <2>3, <2>4 DEF Next, Worker
<1> QED
  BY <1>1, InductiveInvariant, PTL DEF Spec, NoClobber

(* The transaction implements the contract of its destination name.        *)
THEOREM Refinement == Spec => IsAtomicPublication
<1>1. Init => Contract!Init
  BY DEF Init, Contract!Init, Permission, Absent, Foreign, Contract!Absent, Contract!Foreign
<1>2. TypeOK /\ Inv /\ [Next]_vars => [Contract!Next]_(Contract!vars)
  <2> SUFFICES ASSUME TypeOK, Inv, [Next]_vars PROVE [Contract!Next]_(Contract!vars)
    OBVIOUS
  <2>1. CASE Send
    <3>1. CASE call.op = "write"
      <4>1. authority = "ACTIVE" /\ UNCHANGED <<authority, destination>>
        BY <2>1, <3>1 DEF Send, Inv, Holding, Pending
      <4>2. offered' = offered + call.size
        BY <2>1, <3>1 DEF Send
      <4>3. call.size \in ChunkSizes
        BY <3>1 DEF Inv, Holding
      <4> QED
        BY <4>1, <4>2, <4>3 DEF Contract!Next, Contract!Accept, Permission
    <3>2. CASE call.op # "write"
      BY <2>1, <3>2 DEF Send, Contract!vars, Permission
    <3> QED
      BY <3>1, <3>2
  <2>2. CASE SpawnFails \/ Abandon \/ Drop \/ Discard \/ Receive
    <3>1. authority' \in {authority, Revoked} /\ UNCHANGED <<offered, destination>>
      BY <2>2 DEF SpawnFails, Abandon, Drop, Discard, Receive, Leave, workerVars
    <3> QED
      BY <3>1 DEF Revoked, Permission, Contract!Next, Contract!Revoke, Contract!vars
  <2>3. CASE AcquireCommit
    BY <2>3 DEF AcquireCommit, BeginCommit, ownerVars, Permission, Contract!Next,
           Contract!Exercise, Contract!vars
  <2>4. CASE Publish
    <3>1. authority = "COMMITTING" /\ UNCHANGED <<authority, offered>>
      BY <2>4 DEF Publish, ownerVars, Inv, CommitIsLast
    <3>2. length = offered /\ offered <= Limit
      BY <2>4, <3>1, SizesAreNat
      DEF Publish, TypeOK, Inv, Accounting, CommitIsLast, Publication, BeforeEnd, InHand,
          InChannel
    <3>3. CASE destination' # destination
      <4>1. destination = Absent /\ destination' = [kind |-> "artifact", bytes |-> length]
        BY <2>4, <3>3 DEF Publish, CreatesEntry, Inv, EntryForm, Published, Absent, Foreign
      <4> QED
        BY <3>1, <3>2, <4>1 DEF Permission, Absent, Contract!Next, Contract!Publish,
               Contract!Absent, Contract!Artifact
    <3> QED
      BY <3>1, <3>3 DEF Contract!vars, Permission
  <2>5. CASE LastEvent
    BY <2>5 DEF LastEvent, ownerVars, Inv, CommitIsLast, Permission, Contract!vars
  <2>6. CASE Interfere
    BY <2>6 DEF Interfere, ownerVars, Absent, Foreign, Permission, Contract!Next,
           Contract!Interfere, Contract!Absent, Contract!Foreign
  <2>7. CASE UNCHANGED <<offered, authority, destination>>
    BY <2>7 DEF Permission, Contract!vars
  <2>8. Start \/ (\E size \in ChunkSizes : Enqueue(size)) \/ Finish \/ Commit \/ Cancel
          \/ SendRefused \/ SkipEvent => UNCHANGED <<offered, authority, destination>>
    BY DEF Start, Enqueue, Finish, Borrow, Commit, Cancel, SendRefused, SkipEvent, ownerVars
  <2>9. OpenParent \/ MakeStage \/ CreateFile \/ AnnounceReady \/ CheckAuthority
          \/ TakeCommand \/ FindDisconnected \/ WriteChunk \/ Flush \/ CleanUp \/ Exit
          => UNCHANGED <<offered, authority, destination>>
    BY DEF OpenParent, MakeStage, CreateFile, AnnounceReady, CheckAuthority, TakeCommand,
           FindDisconnected, WriteChunk, Flush, CleanUp, Exit, ownerVars
  <2>10. CASE UNCHANGED vars
    BY <2>7, <2>10 DEF vars, ownerVars
  <2> QED
    BY <2>1, <2>2, <2>3, <2>4, <2>5, <2>6, <2>7, <2>8, <2>9, <2>10
    DEF Next, Owner, OwnerCalls, OwnerWaits, Worker
<1> QED
  BY <1>1, <1>2, InductiveInvariant, PTL DEF Spec, IsAtomicPublication, Contract!Spec

-----------------------------------------------------------------------------
(* The binary call. *)

(* Each step of the call, its worker and the processes around it is a step *)
(* of the transaction or leaves it alone.                                  *)
LEMMA ExecuteStep == [ExecuteNext]_executeVars => [Next]_vars
<1> SUFFICES ASSUME ExecuteNext PROVE [Next]_vars
  BY DEF executeVars
<1>1. CASE CheckTarget \/ WriteReport \/ Kill
  BY <1>1 DEF CheckTarget, WriteReport, Kill
<1>2. CASE StartTransaction
  BY <1>2 DEF StartTransaction, Next, Owner, OwnerCalls
<1>3. CASE RequestEnds
  BY <1>3 DEF RequestEnds, AbandonForTimeout, DiscardFor, Next, Owner, OwnerCalls
<1>4. CASE StreamYields
  BY <1>4 DEF StreamYields, AbandonForTimeout, DiscardFor, Next, Owner, OwnerCalls
<1>5. CASE Started \/ BorrowReturns \/ CommitReturns \/ DiscardReturns
  BY <1>5 DEF Started, BorrowReturns, CommitReturns, DiscardReturns, Next, Owner, OwnerWaits
<1>6. CASE Sends
  BY <1>6 DEF Sends, Next, Owner, OwnerWaits
<1>7. CASE ReportFailed \/ DeadlinePasses
  BY <1>7 DEF ReportFailed, DeadlinePasses, Next, Owner, OwnerCalls
<1>8. CASE TimesOut \/ Encodes
  BY <1>8 DEF TimesOut, Encodes, AbandonForTimeout, DiscardFor, Next, Owner, OwnerCalls
<1>9. CASE RunningWorker \/ Interfere
  BY <1>9 DEF RunningWorker, Next
<1> QED
  BY <1>1, <1>2, <1>3, <1>4, <1>5, <1>6, <1>7, <1>8, <1>9 DEF ExecuteNext, Caller

(* execute and stream_to_artifact are one of the clients the transaction   *)
(* is specified for.                                                       *)
THEOREM ExecuteIsTransaction == ExecuteSpec => Spec
<1>1. ExecuteInit => Init
  BY DEF ExecuteInit
<1> QED
  BY <1>1, ExecuteStep, PTL DEF ExecuteSpec, Spec

(* A binary call of the CLI keeps the contract of its destination name.    *)
THEOREM ExecuteKeepsContract == ExecuteSpec => []PublishedWhole /\ IsAtomicPublication
  BY ExecuteIsTransaction, PublishedWholeAlways, Refinement, PTL

-----------------------------------------------------------------------------
(* What is true at each place of the call of the worker and the channels.  *)

Holds(event) == events # <<>> /\ Head(events) = event /\ Tail(events) = <<>>
Waits(op)    == commands # <<>> /\ Head(commands).op = op

Silent(places) == worker \in places /\ events = <<>>

(* The worker stops, or has stopped and nobody has read why. *)
Ending(types) ==
  /\ ending.type \in types
  /\ \/ Silent({"cleanup", "report"})
     \/ worker \in {"exiting", "done"} /\ Holds(ending)

Flushed == [Event("Finished", "none") EXCEPT !.bytes = bytes]

(* Facts about the worker alone. *)
Staging ==
  /\ worker \in {"unspawned", "open", "mkdir"} => stage = "none"
  /\ worker = "cleanup" => ending.cleanup = "none"
  /\ worker \in {"report", "exiting", "done"} =>
       ending.cleanup # "pending" /\ (ending.cleanup = "none" => stage # "present")
  /\ worker \in {"cleanup", "report", "exiting", "done"} =>
       (Published <=> ending.type = "Committed")
  /\ worker = "flush" => ~ finished

Fresh ==
  cli \in {"target", "start"} =>
    /\ owner = "new" /\ call.op = "start" /\ worker = "unspawned"
    /\ commands = <<>> /\ events = <<>> /\ ~ finished

Starting ==
  cli = "starting" =>
    /\ owner = "waiting" /\ call.op = "start" /\ commands = <<>> /\ ~ finished
    /\ \/ Silent({"open", "mkdir", "create", "ready"})
       \/ worker \in {"loop", "recv"} /\ Holds(Event("Ready", "none"))
       \/ Ending({"Stopped"})

(* Chunks may be on their way. *)
Filling ==
  /\ ~ finished /\ (commands # <<>> => Waits("write"))
  /\ Silent({"loop", "recv", "write"}) \/ Ending({"Stopped"})

Streaming ==
  /\ cli \in {"request", "stream"} => owner = "idle" /\ Filling
  /\ cli \in {"chunk", "finish"} /\ owner # "waiting" =>
       owner \in {"sending", "stopped"} /\ Filling
  /\ cli = "chunk" => call.op = "write" /\ owner # "waiting"
  /\ cli \in {"stream", "chunk", "finish", "encode", "commit"} => reply \in Replies

Finishing ==
  /\ cli = "finish" => call.op = "finish"
  /\ cli = "finish" /\ owner = "waiting" =>
       \/ ~ finished /\ Waits("finish") /\ Silent({"loop", "recv", "write"})
       \/ ~ finished /\ commands = <<>> /\ Silent({"flush"})
       \/ finished /\ commands = <<>> /\ worker \in {"loop", "recv"} /\ Holds(Flushed)
       \/ Ending({"Stopped"})

Idle == finished /\ commands = <<>> /\ Silent({"loop", "recv"})

Committing ==
  /\ cli \in {"encode", "commit"} => result.bytes = bytes
  /\ cli = "encode" => owner = "idle" /\ Idle
  /\ cli = "commit" =>
       /\ call.op = "commit" /\ authority # "CANCELLED" /\ owner \in {"sending", "waiting"}
       /\ owner = "sending" => Idle
       /\ owner = "waiting" =>
            \/ finished /\ Waits("commit") /\ Silent({"loop", "recv"})
            \/ finished /\ commands = <<>> /\ Silent({"commit", "publish"})
            \/ Ending({"Committed", "Stopped"})

Failed ==
  cli = "failed" =>
    /\ owner = "idle" /\ worker \in {"exiting", "done"}
    /\ result.error \in Failures /\ result.cleanup # "pending"
    /\ result.cleanup = "none" => stage # "present"

Discarding ==
  cli = "discard" =>
    /\ owner \in {"sending", "waiting"} /\ call.op = "discard"
    /\ primary \in {"client", "status", "stream", "encode"}
    /\ commands # <<>> => Waits("write") \/ Waits("discard")
    /\ Silent({"loop", "recv", "write"}) \/ Ending({"Stopped"})

Settled ==
  /\ ReportMatchesDestination /\ CleanupTold
  /\ Reported /\ report.cleanup = "none" => worker \in {"unspawned", "exiting", "done"}

Places == Fresh /\ Starting /\ Streaming /\ Finishing /\ Committing /\ Failed /\ Discarding
EInv   == ExecuteTypeOK /\ Staging /\ Places /\ Settled

-----------------------------------------------------------------------------
(* The channels hold one item or none. *)
LEMMA Appended ==
  ASSUME NEW S, NEW e \in S
  PROVE  /\ Append(<<>>, e) # <<>> /\ Head(Append(<<>>, e)) = e
         /\ Tail(Append(<<>>, e)) = <<>>
<1>1. <<>> \in Seq(S)
  OBVIOUS
<1>2. Append(<<>>, e) \in Seq(S) /\ Len(Append(<<>>, e)) = 1 /\ Append(<<>>, e)[1] = e
  BY <1>1, AppendProperties
<1>3. Append(<<>>, e) # <<>>
  BY <1>2
<1>4. Head(Append(<<>>, e)) = e
  BY <1>2, <1>3, HeadTailProperties
<1>5. Tail(Append(<<>>, e)) \in Seq(S) /\ Len(Tail(Append(<<>>, e))) = 0
  BY <1>2, <1>3, HeadTailProperties
<1> QED
  BY <1>3, <1>4, <1>5, EmptySeq

LEMMA CommandsOne ==
  ASSUME TypeOK
  PROVE  /\ commands # <<>> => Tail(commands) = <<>>
         /\ HasRoom => commands = <<>>
<1>1. commands \in Seq(Calls) /\ Len(commands) \in Nat /\ Len(commands) <= 1
  BY DEF TypeOK, CommandCapacity
<1>2. commands # <<>> => Tail(commands) \in Seq(Calls) /\ Len(Tail(commands)) = Len(commands) - 1
  BY <1>1, HeadTailProperties
<1>3. commands # <<>> => Len(commands) # 0
  BY <1>1, EmptySeq
<1>4. commands # <<>> => Len(Tail(commands)) = 0
  <2> DEFINE n == Len(commands)
             t == Len(Tail(commands))
  <2>1. n \in Nat /\ n <= 1 /\ (commands # <<>> => n # 0 /\ t = n - 1)
    BY <1>1, <1>2, <1>3
  <2> HIDE DEF n, t
  <2>2. commands # <<>> => t = 0
    BY <2>1
  <2> QED
    BY <2>2 DEF t
<1> QED
  BY <1>1, <1>2, <1>3, <1>4, EmptySeq DEF HasRoom, CommandCapacity

LEMMA Emitted ==
  ASSUME events = <<>>, owner # "gone", NEW event \in Events, Emit(event)
  PROVE  events' # <<>> /\ Head(events') = event /\ Tail(events') = <<>>
<1>1. events' = Append(<<>>, event)
  BY DEF Emit
<1> QED
  BY <1>1, Appended

LEMMA Sent ==
  ASSUME TypeOK, Send
  PROVE  commands = <<>> /\ commands' # <<>> /\ Head(commands') = call
<1>1. commands = <<>> /\ commands' = Append(<<>>, call)
  BY CommandsOne DEF Send
<1>2. call \in Calls
  BY DEF TypeOK
<1> QED
  BY <1>1, <1>2, Appended

-----------------------------------------------------------------------------
(* What a call makes of the event that it receives. *)
LEMMA Receives ==
  ASSUME NEW event, Receive, Holds(event)
  PROVE  /\ result' = Answer(event) /\ events' = <<>>
         /\ owner' = IF \/ call.op \in {"write", "finish"}
                        \/ call.op = "start" /\ Answer(event).error = "none"
                     THEN "idle" ELSE "gone"
         /\ owner' = "idle" => authority' = authority
         /\ owner' = "gone" => authority' = Revoked
<1>1. NextEvent = event /\ Rest = <<>>
  BY DEF Holds, NextEvent, Rest
<1> HIDE DEF NextEvent, Rest
<1> QED
  BY <1>1 DEF Receive, Leave

(* An ending that can be received is that of a worker that has stopped. *)
LEMMA ReceivesEnding ==
  ASSUME NEW types, Receive, Ending(types)
  PROVE  worker \in {"exiting", "done"} /\ Holds(ending)
  BY DEF Receive, Ending, Silent, WorkerGone

LEMMA AnswerStopped ==
  ASSUME TypeOK, ending.type = "Stopped", call.op # "discard"
  PROVE  Answer(ending).error \in Failures /\ Answer(ending).cleanup = ending.cleanup
<1>1. call.op \in {"start", "write", "finish", "commit"}
  BY DEF TypeOK, Calls, Ops
<1>2. ending.failure \in Failures \cup {"none"}
  BY DEF TypeOK, Events
<1>3. Awaited[call.op] # "Stopped" /\ Fallback[call.op] \in Failures
  BY <1>1 DEF Awaited, Fallback, Failures
<1> HIDE DEF Failures
<1> QED
  BY <1>1, <1>2, <1>3 DEF Answer

LEMMA AnswerSuccess ==
  ASSUME owner = "waiting", NEW event,
         \/ call.op = "discard"
         \/ call.op = "start" /\ event.type = "Ready"
         \/ call.op = "finish" /\ event.type = "Finished"
         \/ call.op = "commit" /\ event.type = "Committed"
  PROVE  /\ Answer(event).error = "none" /\ Answer(event).bytes = event.bytes
         /\ Answer(event).cleanup = event.cleanup
  BY DEF Answer, Awaited

-----------------------------------------------------------------------------
LEMMA OwnerLeaves ==
  ASSUME Owner
  PROVE  UNCHANGED destination /\ (Start \/ UNCHANGED workerVars)
  BY DEF Owner, OwnerCalls, OwnerWaits, SpawnFails, Enqueue, Finish, Borrow, Commit, Discard,
         Abandon, Drop, Cancel, Send, SendRefused, SkipEvent, Receive, Start

LEMMA StagingKept ==
  ASSUME TypeOK, Inv, Staging, [Next]_vars
  PROVE  Staging'
<1> USE DEF Staging, Published
<1>1. worker \in BeforeEnd => ~ Published
  BY DEF Inv, Publication, BeforeEnd
<1> USE <1>1 DEF BeforeEnd
<1>Start. CASE Start
  BY <1>Start DEF Start, Inv, Holding
<1>Owner. CASE Owner /\ ~ Start
  BY <1>Owner, OwnerLeaves DEF workerVars, fileVars
<1>OpenParent. CASE OpenParent
  BY <1>OpenParent DEF OpenParent, Refuse, Event, fileVars
<1>MakeStage. CASE MakeStage
  BY <1>MakeStage DEF MakeStage, Refuse, Stop, Event, fileVars
<1>CreateFile. CASE CreateFile
  BY <1>CreateFile DEF CreateFile, Stop, Event, fileVars
<1>AnnounceReady. CASE AnnounceReady
  BY <1>AnnounceReady DEF AnnounceReady, Stop, Event, fileVars
<1>CheckAuthority. CASE CheckAuthority
  BY <1>CheckAuthority DEF CheckAuthority, Stop, Event, fileVars
<1>TakeCommand. CASE TakeCommand
  BY <1>TakeCommand DEF TakeCommand, InOrder, Stop, Event, fileVars
<1>FindDisconnected. CASE FindDisconnected
  BY <1>FindDisconnected DEF FindDisconnected, Stop, Event, fileVars
<1>WriteChunk. CASE WriteChunk
  <2>1. worker' = "loop" \/ (worker' = "cleanup" /\ ending'.type = "Stopped" /\ ending'.cleanup = "none")
    BY <1>WriteChunk DEF WriteChunk, AfterFailedWrite, Stop, Event
  <2>2. worker = "write" /\ UNCHANGED <<finished, stage, destination>>
    BY <1>WriteChunk DEF WriteChunk
  <2> QED
    BY <2>1, <2>2
<1>Flush. CASE Flush
  BY <1>Flush DEF Flush, Stop, Event
<1>AcquireCommit. CASE AcquireCommit
  BY <1>AcquireCommit DEF AcquireCommit, fileVars
<1>Publish. CASE Publish
  BY <1>Publish DEF Publish, Stop, Event, fileVars
<1>CleanUp. CASE CleanUp
  <2>1. ending' = [ending EXCEPT !.cleanup = "failed"] =>
          ending'.cleanup = "failed" /\ ending'.type = ending.type
    BY DEF TypeOK, Events
  <2> QED
    BY <1>CleanUp, <2>1 DEF CleanUp, fileVars
<1>LastEvent. CASE LastEvent
  BY <1>LastEvent DEF LastEvent, fileVars
<1>Exit. CASE Exit
  BY <1>Exit DEF Exit, fileVars
<1>Interfere. CASE Interfere
  BY <1>Interfere DEF Interfere, Absent, Foreign, workerVars, fileVars
<1>unchanged. CASE UNCHANGED vars
  BY <1>unchanged DEF vars, workerVars, fileVars
<1> QED
  BY <1>Start, <1>Owner, <1>OpenParent, <1>MakeStage, <1>CreateFile, <1>AnnounceReady,
     <1>CheckAuthority, <1>TakeCommand, <1>FindDisconnected, <1>WriteChunk, <1>Flush,
     <1>AcquireCommit, <1>Publish, <1>CleanUp, <1>LastEvent, <1>Exit, <1>Interfere,
     <1>unchanged
  DEF Next, Worker

(* What the worker's steps leave alone. *)
LEMMA WorkerLeaves ==
  ASSUME Worker
  PROVE  /\ UNCHANGED ownerVars
         /\ worker # "recv" => UNCHANGED commands
         /\ worker # "flush" => UNCHANGED finished
         /\ worker # "write" => UNCHANGED bytes
         /\ worker \notin {"commit", "report"} => UNCHANGED authority
         /\ worker \notin {"mkdir", "cleanup"} => UNCHANGED stage
         /\ worker # "publish" => UNCHANGED destination
         /\ worker \notin {"unspawned", "done"}
         /\ worker \in {"exiting"} => worker' = "done" /\ UNCHANGED <<ending, events>>
  BY DEF Worker, OpenParent, MakeStage, CreateFile, AnnounceReady, CheckAuthority,
         TakeCommand, FindDisconnected, WriteChunk, Flush, AcquireCommit, BeginCommit, Publish,
         CleanUp, LastEvent, Exit, fileVars

(* An ending goes its way, whoever reads it. *)
LEMMA EndingKept ==
  ASSUME TypeOK, Worker, NEW types, Ending(types), owner # "gone"
  PROVE  Ending(types)'
<1>1. CASE worker = "cleanup"
  <2>1. CleanUp
    BY <1>1 DEF Worker, OpenParent, MakeStage, CreateFile, AnnounceReady, CheckAuthority,
         TakeCommand, FindDisconnected, WriteChunk, Flush, AcquireCommit, Publish, LastEvent, Exit
  <2>2. ending'.type = ending.type
    BY <2>1 DEF CleanUp, TypeOK, Events
  <2> QED
    BY <1>1, <2>1, <2>2 DEF CleanUp, Ending, Silent
<1>2. CASE worker = "report"
  <2>1. LastEvent
    BY <1>2 DEF Worker, OpenParent, MakeStage, CreateFile, AnnounceReady, CheckAuthority,
         TakeCommand, FindDisconnected, WriteChunk, Flush, AcquireCommit, Publish, CleanUp, Exit
  <2>2. worker' = "exiting" /\ ending' = ending /\ Emit(ending)
    BY <2>1 DEF LastEvent
  <2>3. ending \in Events /\ events = <<>>
    BY <1>2 DEF TypeOK, Ending, Silent
  <2>4. Holds(ending)'
    BY <2>2, <2>3, Emitted DEF Holds
  <2> QED
    BY <2>2, <2>4 DEF Ending
<1>3. CASE worker = "exiting"
  BY <1>3, WorkerLeaves DEF Ending, Holds, Silent
<1>4. CASE worker = "done"
  BY <1>4, WorkerLeaves
<1> QED
  BY <1>1, <1>2, <1>3, <1>4 DEF Ending, Silent

(* The worker at each of its places. *)
LEMMA WorkerAt ==
  ASSUME Worker
  PROVE  /\ worker = "open" => OpenParent
         /\ worker = "mkdir" => MakeStage
         /\ worker = "create" => CreateFile
         /\ worker = "ready" => AnnounceReady
         /\ worker = "loop" => CheckAuthority
         /\ worker = "recv" => TakeCommand \/ FindDisconnected
         /\ worker = "write" => WriteChunk
         /\ worker = "flush" => Flush
         /\ worker = "commit" => AcquireCommit
         /\ worker = "publish" => Publish
  BY DEF Worker, OpenParent, MakeStage, CreateFile, AnnounceReady, CheckAuthority,
         TakeCommand, FindDisconnected, WriteChunk, Flush, AcquireCommit, Publish,
         CleanUp, LastEvent, Exit

Stopping == worker' = "cleanup" /\ ending'.type = "Stopped" /\ events' = events

LEMMA StepOfLoop ==
  ASSUME Worker, worker = "loop"
  PROVE  /\ UNCHANGED <<events, commands, finished, bytes, authority>>
         /\ IF authority = "ACTIVE" THEN worker' = "recv" ELSE Stopping
  BY WorkerAt DEF CheckAuthority, Stop, Event, fileVars, Stopping

LEMMA StepOfWrite ==
  ASSUME Worker, worker = "write"
  PROVE  /\ UNCHANGED <<events, commands, finished, authority>>
         /\ worker' = "loop" \/ Stopping
  BY WorkerAt DEF WriteChunk, AfterFailedWrite, Stop, Event, Stopping

LEMMA StepOfReceive ==
  ASSUME TypeOK, Worker, worker = "recv", owner # "gone"
  PROVE  /\ UNCHANGED <<events, finished, bytes, authority>>
         /\ commands # <<>> /\ commands' = <<>>
         /\ \/ Waits("write") /\ ~ finished /\ worker' = "write"
            \/ Waits("finish") /\ ~ finished /\ worker' = "flush"
            \/ Waits("commit") /\ finished /\ worker' = "commit"
            \/ Stopping /\ ~ (Waits("write") /\ ~ finished)
                        /\ ~ (Waits("finish") /\ ~ finished) /\ ~ (Waits("commit") /\ finished)
<1>1. TakeCommand
  BY WorkerAt DEF FindDisconnected, Disconnected
<1>2. commands # <<>> /\ commands' = <<>>
  BY <1>1, CommandsOne DEF TakeCommand
<1>3. UNCHANGED <<events, finished, bytes, authority>>
  BY <1>1 DEF TakeCommand, fileVars
<1>4. LET op == Head(commands).op IN
      IF op = "discard" THEN Stop(Event("Stopped", "none"))
      ELSE IF InOrder(op) THEN worker' = (IF op = "finish" THEN "flush" ELSE op)
      ELSE Stop(Event("Stopped", "WorkerUnavailable"))
  BY <1>1 DEF TakeCommand
<1> QED
  BY <1>2, <1>3, <1>4 DEF InOrder, Stop, Event, Waits, Stopping

LEMMA StopsToEnding ==
  ASSUME Stopping, events = <<>>, NEW types, "Stopped" \in types
  PROVE  Ending(types)'
  BY DEF Stopping, Ending, Silent

LEMMA FillingKept ==
  ASSUME TypeOK, Worker, owner # "gone", Filling
  PROVE  Filling'
<1>1. CASE Ending({"Stopped"})
  <2>1. Ending({"Stopped"})'
    BY <1>1, EndingKept
  <2>2. UNCHANGED <<finished, commands>>
    BY <1>1, WorkerLeaves DEF Ending, Silent
  <2> QED
    BY <2>1, <2>2 DEF Filling, Waits
<1>2. CASE worker = "loop" /\ events = <<>>
  BY <1>2, StepOfLoop, StopsToEnding DEF Filling, Silent, Waits
<1>3. CASE worker = "write" /\ events = <<>>
  BY <1>3, StepOfWrite, StopsToEnding DEF Filling, Silent, Waits
<1>4. CASE worker = "recv" /\ events = <<>>
  BY <1>4, StepOfReceive DEF Filling, Silent, Waits
<1> QED
  BY <1>1, <1>2, <1>3, <1>4 DEF Filling, Silent

-----------------------------------------------------------------------------
(* The worker's steps, at each place of the call. *)
LEMMA StartingKept ==
  ASSUME TypeOK, Inv, Starting, Worker, UNCHANGED cli
  PROVE  Starting'
<1> SUFFICES ASSUME cli = "starting" PROVE Starting'
  BY DEF Starting
<1>1. /\ owner = "waiting" /\ call.op = "start" /\ commands = <<>> /\ ~ finished
      /\ authority = "ACTIVE"
  BY DEF Starting, Inv, Holding, Pending
<1>2. owner' = "waiting" /\ call'.op = "start"
  BY <1>1, WorkerLeaves DEF ownerVars
<1>3. CASE Silent({"open", "mkdir", "create"})
  <2>1. OpenParent \/ MakeStage \/ CreateFile
    BY <1>3, WorkerAt DEF Silent
  <2>2. /\ UNCHANGED <<events, commands, finished>>
        /\ \/ worker' \in {"mkdir", "create", "ready"}
           \/ worker' \in {"cleanup", "report"} /\ ending'.type = "Stopped"
    BY <2>1 DEF OpenParent, MakeStage, CreateFile, Refuse, Stop, Event, fileVars
  <2> QED
    BY <1>1, <1>2, <1>3, <2>2 DEF Starting, Silent, Ending
<1>4. CASE Silent({"ready"})
  <2>1. AnnounceReady
    BY <1>4, WorkerAt DEF Silent
  <2>2. worker' = "loop" /\ UNCHANGED <<commands, finished>> /\ Emit(Event("Ready", "none"))
    BY <1>1, <2>1 DEF AnnounceReady, fileVars
  <2>3. Event("Ready", "none") \in Events
    BY Events_
  <2>4. events' # <<>> /\ Head(events') = Event("Ready", "none") /\ Tail(events') = <<>>
    BY <1>1, <1>4, <2>2, <2>3, Emitted DEF Silent
  <2> QED
    BY <1>1, <1>2, <2>2, <2>4 DEF Starting, Holds, Event
<1>5. CASE worker \in {"loop", "recv"} /\ Holds(Event("Ready", "none"))
  <2>1. worker = "loop"
    BY <1>1, <1>5, StepOfReceive
  <2>2. worker' = "recv" /\ UNCHANGED <<events, commands, finished>>
    BY <1>1, <2>1, StepOfLoop
  <2> QED
    BY <1>1, <1>2, <1>5, <2>2 DEF Starting, Holds, Event
<1>6. CASE Ending({"Stopped"})
  <2>1. Ending({"Stopped"})'
    BY <1>1, <1>6, EndingKept
  <2>2. UNCHANGED <<finished, commands>>
    BY <1>6, WorkerLeaves DEF Ending, Silent
  <2> QED
    BY <1>1, <1>2, <2>1, <2>2 DEF Starting
<1> QED
  BY <1>3, <1>4, <1>5, <1>6 DEF Starting, Silent

LEMMA StreamingKept ==
  ASSUME TypeOK, Streaming, Worker, UNCHANGED cliVars
  PROVE  Streaming'
<1>1. UNCHANGED <<owner, call, cli, reply>>
  BY WorkerLeaves DEF ownerVars, cliVars
<1>2. Filling /\ owner # "gone" => Filling'
  BY FillingKept
<1> QED
  BY <1>1, <1>2 DEF Streaming

LEMMA FinishingKept ==
  ASSUME TypeOK, Inv, Finishing, Worker, UNCHANGED cli
  PROVE  Finishing'
<1>1. UNCHANGED <<owner, call>>
  BY WorkerLeaves DEF ownerVars
<1> SUFFICES ASSUME cli = "finish", owner = "waiting" PROVE Finishing'
  BY <1>1 DEF Finishing
<1>2. call.op = "finish" /\ authority = "ACTIVE"
  BY DEF Finishing, Inv, Holding, Pending
<1>3. CASE ~ finished /\ Waits("finish") /\ Silent({"loop"})
  BY <1>1, <1>2, <1>3, StepOfLoop DEF Finishing, Waits, Silent
<1>4. CASE ~ finished /\ Waits("finish") /\ Silent({"write"})
  BY <1>1, <1>2, <1>4, StepOfWrite, StopsToEnding DEF Finishing, Waits, Silent
<1>5. CASE ~ finished /\ Waits("finish") /\ Silent({"recv"})
  BY <1>1, <1>2, <1>5, StepOfReceive DEF Finishing, Waits, Silent
<1>6. CASE ~ finished /\ commands = <<>> /\ Silent({"flush"})
  <2>1. Flush /\ UNCHANGED <<bytes, commands>>
    BY <1>6, WorkerAt DEF Flush, Silent
  <2>2. CASE finished' = TRUE /\ worker' = "loop" /\ Emit(Flushed)
    <3>1. Flushed \in Events
      BY DEF Flushed, Event, Events, Cleanups, TypeOK
    <3>2. events' # <<>> /\ Head(events') = Flushed /\ Tail(events') = <<>>
      BY <1>6, <2>2, <3>1, Emitted DEF Silent
    <3>3. Flushed' = Flushed
      BY <2>1 DEF Flushed, Event
    <3> HIDE DEF Flushed
    <3> QED
      BY <1>1, <1>2, <1>6, <2>1, <2>2, <3>2, <3>3 DEF Finishing, Holds
  <2>3. CASE Stopping
    BY <1>1, <1>2, <1>6, <2>3, StopsToEnding DEF Finishing, Silent
  <2>4. \/ finished' = TRUE /\ worker' = "loop" /\ Emit(Flushed)
        \/ Stop(Event("Stopped", "Flush")) /\ UNCHANGED events
    <3>1. Flushed = [Event("Finished", "none") EXCEPT !.bytes = bytes]
      BY DEF Flushed
    <3> HIDE DEF Flushed
    <3> QED
      BY <2>1, <3>1, Zenon DEF Flush
  <2>5. Stop(Event("Stopped", "Flush")) /\ UNCHANGED events => Stopping
    BY DEF Stop, Event, Stopping
  <2> QED
    BY <2>2, <2>3, <2>4, <2>5
<1>7. CASE finished /\ commands = <<>> /\ worker \in {"loop", "recv"} /\ Holds(Flushed)
  <2>1. worker = "loop"
    BY <1>7, StepOfReceive
  <2>2. worker' = "recv" /\ UNCHANGED <<events, commands, finished, bytes>>
    BY <1>2, <2>1, StepOfLoop
  <2>3. Flushed' = Flushed
    BY <2>2 DEF Flushed, Event
  <2> HIDE DEF Flushed
  <2> QED
    BY <1>1, <1>2, <1>7, <2>2, <2>3 DEF Finishing, Holds
<1>8. CASE Ending({"Stopped"})
  BY <1>1, <1>2, <1>8, EndingKept DEF Finishing
<1> QED
  BY <1>3, <1>4, <1>5, <1>6, <1>7, <1>8 DEF Finishing, Silent

LEMMA IdleKept ==
  ASSUME TypeOK, Worker, Idle, authority = "ACTIVE", owner # "gone"
  PROVE  Idle' /\ bytes' = bytes /\ authority' = authority
<1>1. worker = "loop"
  BY StepOfReceive DEF Idle, Silent
<1> QED
  BY <1>1, StepOfLoop DEF Idle, Silent

LEMMA CommittingKept ==
  ASSUME TypeOK, Inv, Committing, Worker, UNCHANGED cli
  PROVE  Committing'
<1>1. UNCHANGED <<owner, call, result>>
  BY WorkerLeaves DEF ownerVars
<1>2. CASE cli = "encode"
  <2>1. owner = "idle" /\ Idle /\ authority = "ACTIVE" /\ result.bytes = bytes
    BY <1>2 DEF Committing, Inv, Holding
  <2>2. Idle' /\ bytes' = bytes
    BY <2>1, IdleKept
  <2> QED
    BY <1>1, <1>2, <2>1, <2>2 DEF Committing
<1>3. CASE cli = "commit" /\ owner = "sending"
  <2>1. /\ Idle /\ authority = "ACTIVE" /\ result.bytes = bytes /\ call.op = "commit"
    BY <1>3 DEF Committing, Inv, Holding
  <2>2. Idle' /\ bytes' = bytes /\ authority' = "ACTIVE"
    BY <1>3, <2>1, IdleKept
  <2> QED
    BY <1>1, <1>3, <2>1, <2>2 DEF Committing
<1>4. CASE cli = "commit" /\ owner = "waiting"
  <2>1. /\ call.op = "commit" /\ authority # "CANCELLED" /\ result.bytes = bytes
        /\ authority \in {"ACTIVE", "COMMITTING", "COMMITTED"}
    BY <1>4 DEF Committing, TypeOK
  <2>2. worker \in {"loop", "recv", "commit"} => authority = "ACTIVE"
    BY <2>1 DEF Inv, Holding
  <2> SUFFICES /\ bytes' = bytes /\ authority' # "CANCELLED"
               /\ \/ finished' /\ Waits("commit")' /\ Silent({"loop", "recv"})'
                  \/ finished' /\ commands' = <<>> /\ Silent({"commit", "publish"})'
                  \/ Ending({"Committed", "Stopped"})'
    BY <1>1, <1>4, <2>1 DEF Committing
  <2>3. CASE finished /\ Waits("commit") /\ Silent({"loop"})
    BY <2>1, <2>2, <2>3, StepOfLoop DEF Silent, Waits
  <2>4. CASE finished /\ Waits("commit") /\ Silent({"recv"})
    BY <1>4, <2>1, <2>4, StepOfReceive DEF Silent, Waits
  <2>5. CASE finished /\ commands = <<>> /\ Silent({"commit"})
    <3>1. AcquireCommit
      BY <2>5, WorkerAt DEF Silent
    <3>2. /\ worker' = "publish" /\ authority' = "COMMITTING"
          /\ UNCHANGED <<commands, events, finished, bytes>>
      BY <2>2, <2>5, <3>1 DEF AcquireCommit, BeginCommit, Silent, fileVars
    <3> QED
      BY <2>5, <3>2 DEF Silent
  <2>6. CASE finished /\ commands = <<>> /\ Silent({"publish"})
    <3>1. Publish
      BY <2>6, WorkerAt DEF Silent
    <3>2. /\ worker' = "cleanup" /\ ending'.type \in {"Committed", "Stopped"}
          /\ UNCHANGED <<authority, events, bytes>>
      BY <3>1 DEF Publish, Stop, Event, fileVars
    <3> QED
      BY <2>1, <2>6, <3>2 DEF Silent, Ending
  <2>7. CASE Ending({"Committed", "Stopped"})
    <3>1. Ending({"Committed", "Stopped"})'
      BY <1>4, <2>7, EndingKept
    <3>2. bytes' = bytes
      BY <2>7, WorkerLeaves DEF Ending, Silent
    <3>3. authority' # "CANCELLED"
      BY <2>1, <2>7 DEF Worker, OpenParent, MakeStage, CreateFile, AnnounceReady, CheckAuthority,
         TakeCommand, FindDisconnected, WriteChunk, Flush, AcquireCommit, BeginCommit, Publish,
         CleanUp, LastEvent, Exit
    <3> QED
      BY <3>1, <3>2, <3>3
  <2> QED
    BY <1>4, <2>3, <2>4, <2>5, <2>6, <2>7 DEF Committing, Silent
<1> QED
  BY <1>1, <1>2, <1>3, <1>4 DEF Committing

LEMMA FailedKept ==
  ASSUME Failed, Worker, UNCHANGED cli
  PROVE  Failed'
<1>1. UNCHANGED <<owner, result>>
  BY WorkerLeaves DEF ownerVars
<1>2. worker \in {"exiting", "done"} => worker' = "done" /\ UNCHANGED stage
  BY WorkerLeaves
<1> QED
  BY <1>1, <1>2 DEF Failed

LEMMA DiscardingKept ==
  ASSUME TypeOK, Discarding, Worker, UNCHANGED cliVars
  PROVE  Discarding'
<1>1. UNCHANGED <<owner, call, cli, primary>>
  BY WorkerLeaves DEF ownerVars, cliVars
<1> SUFFICES ASSUME cli = "discard"
             PROVE  /\ commands' # <<>> => Waits("write")' \/ Waits("discard")'
                    /\ Silent({"loop", "recv", "write"})' \/ Ending({"Stopped"})'
  BY <1>1 DEF Discarding
<1>2. owner # "gone" /\ (commands # <<>> => Waits("write") \/ Waits("discard"))
  BY DEF Discarding
<1>3. CASE Silent({"loop"})
  BY <1>2, <1>3, StepOfLoop, StopsToEnding DEF Silent, Waits
<1>4. CASE Silent({"write"})
  BY <1>2, <1>4, StepOfWrite, StopsToEnding DEF Silent, Waits
<1>5. CASE Silent({"recv"})
  BY <1>2, <1>5, StepOfReceive, StopsToEnding DEF Silent, Waits
<1>6. CASE Ending({"Stopped"})
  <2>1. Ending({"Stopped"})'
    BY <1>2, <1>6, EndingKept
  <2>2. UNCHANGED commands
    BY <1>6, WorkerLeaves DEF Ending, Silent
  <2> QED
    BY <1>2, <2>1, <2>2 DEF Waits
<1> QED
  BY <1>3, <1>4, <1>5, <1>6 DEF Discarding, Silent

(* The worker that goes on after the report publishes nothing. *)
LEMMA SettledKept ==
  ASSUME Inv, Settled, Worker, UNCHANGED cliVars
  PROVE  Settled'
<1>1. UNCHANGED <<cli, report>>
  BY DEF cliVars
<1> SUFFICES ASSUME Reported PROVE Settled'
  BY <1>1 DEF Settled, ReportMatchesDestination, CleanupTold, Reported
<1>2. worker \notin {"commit", "publish"} \/ authority \notin {"ACTIVE", "COMMITTING"}
  BY DEF Settled, ReportMatchesDestination
<1>3. worker # "publish"
  BY <1>2 DEF Inv, CommitIsLast
<1>4. destination' = destination
  BY <1>3, WorkerLeaves
<1>5. authority' = authority \/ authority' = "COMMITTED"
  BY <1>2 DEF Worker, OpenParent, MakeStage, CreateFile, AnnounceReady, CheckAuthority,
         TakeCommand, FindDisconnected, WriteChunk, Flush, AcquireCommit, BeginCommit, Publish,
         CleanUp, LastEvent, Exit
<1>6. worker \in {"unspawned", "exiting", "done"} => worker' = "done" /\ UNCHANGED stage
  BY WorkerLeaves
<1> QED
  BY <1>1, <1>4, <1>5, <1>6
     DEF Settled, ReportMatchesDestination, CleanupTold, Reported, Published

-----------------------------------------------------------------------------
(* The steps of the call. *)
LEMMA Reporting ==
  ASSUME ExecuteTypeOK, NEW name \in Primaries, NEW cleanup \in Cleanups, NEW size \in Nat,
         Report(name, cleanup, size),
         Published' <=> name \in Replies,
         Published' => size = destination'.bytes,
         authority' \in {"ACTIVE", "COMMITTING"} => worker' \in {"unspawned", "exiting", "done"},
         cleanup = "none" => stage' # "present" /\ worker' \in {"unspawned", "exiting", "done"},
         cleanup = "pending" <=> name = "timeout"
  PROVE  ExecuteTypeOK' /\ Places' /\ Settled'
<1>1. /\ cli' = "report" /\ reply' = reply /\ primary' = primary
      /\ report' = [primary |-> name, cleanup |-> cleanup, bytes |-> size, exit |-> ExitCode(name)]
  BY DEF Report
<1>2. ExitCode(name) \in {0, 1} /\ (ExitCode(name) = 0 => name = "archive")
  BY DEF ExitCode
<1>3. report' \in Reports
  BY <1>1, <1>2 DEF Reports
<1>4. ExecuteTypeOK'
  BY <1>1, <1>3 DEF ExecuteTypeOK
<1>5. Places'
  BY <1>1 DEF Places, Fresh, Starting, Streaming, Finishing, Committing, Failed, Discarding
<1>6. Settled'
  BY <1>1, <1>2 DEF Settled, ReportMatchesDestination, CleanupTold, Reported
<1> QED
  BY <1>4, <1>5, <1>6

LEMMA Moving ==
  ASSUME ExecuteTypeOK, reply' \in Replies \cup {"none"}, primary' \in Primaries, report' = report,
         cli' \in {"start", "starting", "request", "stream", "chunk", "finish", "timeout",
                   "failed", "encode", "commit", "discard", "killed"}
  PROVE  ExecuteTypeOK' /\ Settled'
<1>1. ExecuteTypeOK'
  BY DEF ExecuteTypeOK
<1>2. Settled'
  BY DEF Settled, ReportMatchesDestination, CleanupTold, Reported
<1> QED
  BY <1>1, <1>2

LEMMA GoMoves ==
  ASSUME ExecuteTypeOK,
         NEW place \in {"start", "starting", "request", "stream", "chunk", "finish", "timeout",
                        "failed", "encode", "commit", "discard", "killed"},
         Go(place)
  PROVE  ExecuteTypeOK' /\ Settled' /\ cli' = place /\ UNCHANGED <<reply, primary, report>>
<1>1. cli' = place /\ UNCHANGED <<reply, primary, report>>
  BY DEF Go
<1> QED
  BY <1>1, Moving DEF ExecuteTypeOK

LEMMA HeldUnpublished ==
  ASSUME Inv, authority \in {"ACTIVE", "CANCELLED"}
  PROVE  ~ Published
  BY DEF Inv, Publication

LEMMA AbandonKeeps ==
  ASSUME TypeOK, Inv, EInv, AbandonForTimeout
  PROVE  ExecuteTypeOK' /\ Places' /\ Settled'
<1>1. authority = "ACTIVE"
  BY DEF AbandonForTimeout, Abandon, Inv, Holding
<1>2. authority' = "CANCELLED" /\ destination' = destination /\ Report("timeout", "pending", 0)
  BY <1>1 DEF AbandonForTimeout, Abandon, Leave, Revoked
<1>3. ~ Published'
  BY <1>1, <1>2, HeldUnpublished DEF Published
<1>4. "timeout" \in Primaries /\ "timeout" \notin Replies /\ "pending" \in Cleanups
  BY DEF Primaries, Replies, Cleanups
<1> QED
  BY <1>2, <1>3, <1>4, Reporting DEF EInv

LEMMA DiscardKeeps ==
  ASSUME TypeOK, Inv, EInv, NEW name \in {"client", "status", "stream", "encode"},
         DiscardFor(name), Filling \/ Idle
  PROVE  ExecuteTypeOK' /\ Places' /\ Settled'
<1>1. /\ owner' = "sending" /\ call'.op = "discard"
      /\ UNCHANGED <<commands, events, worker, ending>>
      /\ cli' = "discard" /\ primary' = name /\ UNCHANGED <<reply, report>>
  BY DEF DiscardFor, Discard, workerVars
<1>2. name \in Primaries
  BY DEF Primaries
<1>3. ExecuteTypeOK' /\ Settled'
  BY <1>1, <1>2, Moving DEF EInv, ExecuteTypeOK
<1>4. Discarding'
  <2>1. commands' # <<>> => Waits("write")'
    BY <1>1 DEF Filling, Idle, Waits
  <2>2. Silent({"loop", "recv", "write"})' \/ Ending({"Stopped"})'
    BY <1>1 DEF Filling, Idle, Silent, Ending, Holds
  <2> QED
    BY <1>1, <2>1, <2>2 DEF Discarding
<1>5. Places'
  BY <1>1, <1>4 DEF Places, Fresh, Starting, Streaming, Finishing, Committing, Failed
<1> QED
  BY <1>3, <1>5

LEMMA CheckTargetKeeps ==
  ASSUME TypeOK, Inv, EInv, CheckTarget
  PROVE  ExecuteTypeOK' /\ Places' /\ Settled'
<1>1. UNCHANGED vars /\ cli = "target"
  BY DEF CheckTarget
<1>2. worker = "unspawned" /\ stage = "none"
  BY <1>1 DEF EInv, Places, Fresh, Staging
<1>3. ~ Published
  BY <1>2 DEF Inv, Publication
<1>4. ASSUME Go("start") PROVE ExecuteTypeOK' /\ Places' /\ Settled'
  <2>1. ExecuteTypeOK' /\ Settled' /\ cli' = "start"
    BY <1>4, GoMoves DEF EInv
  <2>2. Fresh'
    BY <1>1 DEF EInv, Places, Fresh, vars, ownerVars, workerVars, fileVars
  <2> QED
    BY <2>1, <2>2
       DEF Places, Starting, Streaming, Finishing, Committing, Failed, Discarding
<1>5. ASSUME NEW name \in Failures, Report(name, "none", 0)
      PROVE  ExecuteTypeOK' /\ Places' /\ Settled'
  <2>1. name \in Primaries /\ name \notin Replies /\ name # "timeout" /\ "none" \in Cleanups
    BY DEF Primaries, Failures, Replies, Cleanups
  <2>2. ~ Published' /\ worker' = "unspawned" /\ stage' = "none"
    BY <1>1, <1>2, <1>3 DEF vars, workerVars, Published
  <2> QED
    BY <1>5, <2>1, <2>2, Reporting DEF EInv
<1>6. \/ Go("start")
      \/ \E name \in Failures : Report(name, "none", 0)
  BY DEF CheckTarget, Failures
<1> QED
  BY <1>4, <1>5, <1>6

LEMMA StartTransactionKeeps ==
  ASSUME TypeOK, Inv, EInv, StartTransaction
  PROVE  ExecuteTypeOK' /\ Places' /\ Settled'
<1>1. /\ owner = "new" /\ call.op = "start" /\ worker = "unspawned"
      /\ commands = <<>> /\ events = <<>> /\ ~ finished /\ stage = "none" /\ authority = "ACTIVE"
  BY DEF StartTransaction, EInv, Places, Fresh, Staging, Inv, Holding
<1>2. CASE Start /\ Go("starting")
  <2>1. ExecuteTypeOK' /\ Settled' /\ cli' = "starting"
    BY <1>2, GoMoves DEF EInv
  <2>2. Starting'
    BY <1>1, <1>2 DEF Start, Starting, Silent, fileVars
  <2> QED
    BY <2>1, <2>2 DEF Places, Fresh, Streaming, Finishing, Committing, Failed, Discarding
<1>3. CASE SpawnFails /\ Report("WorkerUnavailable", "none", 0)
  <2>1. /\ "WorkerUnavailable" \in Primaries /\ "WorkerUnavailable" \notin Replies
        /\ "none" \in Cleanups
    BY DEF Primaries, Failures, Replies, Cleanups
  <2>2. /\ worker' = "unspawned" /\ stage' = "none"
        /\ ~ Published'
    BY <1>1, <1>3, HeldUnpublished DEF SpawnFails, workerVars, Published
  <2> QED
    BY <1>3, <2>1, <2>2, Reporting DEF EInv
<1> QED
  BY <1>2, <1>3 DEF StartTransaction

(* A call that fails because the worker has stopped. *)
LEMMA StoppedReceived ==
  ASSUME TypeOK, Staging, Receive, Ending({"Stopped"}), call.op # "discard"
  PROVE  /\ worker' \in {"exiting", "done"} /\ result'.error \in Failures
         /\ result'.cleanup \in Cleanups \ {"pending"}
         /\ result'.cleanup = "none" => stage' # "present"
         /\ ~ Published'
         /\ owner' = IF call.op \in {"write", "finish"} THEN "idle" ELSE "gone"
         /\ owner' = "gone" => authority' = Revoked
<1>1. worker \in {"exiting", "done"} /\ Holds(ending) /\ ending.type = "Stopped"
  BY ReceivesEnding DEF Ending
<1>2. UNCHANGED <<workerVars, destination>>
  BY DEF Receive
<1>3. result' = Answer(ending) /\ (owner' = "gone" => authority' = Revoked)
  BY <1>1, Receives
<1>4. Answer(ending).error \in Failures /\ Answer(ending).cleanup = ending.cleanup
  BY <1>1, AnswerStopped
<1>5. Answer(ending).error # "none"
  BY <1>4 DEF Failures
<1>6. owner' = IF call.op \in {"write", "finish"} THEN "idle" ELSE "gone"
  BY <1>1, <1>5, Receives
<1>7. ending.cleanup \in Cleanups
  BY DEF TypeOK, Events
<1>8. ~ Published' /\ ending.cleanup # "pending" /\ (ending.cleanup = "none" => stage' # "present")
  BY <1>1, <1>2 DEF Staging, Published, workerVars
<1> QED
  BY <1>1, <1>2, <1>3, <1>4, <1>6, <1>7, <1>8 DEF workerVars

LEMMA StartedKeeps ==
  ASSUME TypeOK, Inv, EInv, Started
  PROVE  ExecuteTypeOK' /\ Places' /\ Settled'
<1>1. /\ owner = "waiting" /\ call.op = "start" /\ commands = <<>> /\ ~ finished
      /\ authority = "ACTIVE"
  BY DEF Started, EInv, Places, Starting, Inv, Holding, Pending
<1>2. CASE worker \in {"loop", "recv"} /\ Holds(Event("Ready", "none"))
  <2>1. Answer(Event("Ready", "none")).error = "none"
    BY <1>1, AnswerSuccess DEF Event
  <2>2. owner' = "idle" /\ events' = <<>>
    BY <1>1, <1>2, <2>1, Receives DEF Started
  <2>3. Go("request")
    BY <2>2 DEF Started
  <2>4. ExecuteTypeOK' /\ Settled' /\ cli' = "request"
    BY <2>3, GoMoves DEF EInv
  <2>5. UNCHANGED <<commands, worker, finished>>
    BY DEF Started, Receive, workerVars, fileVars
  <2>6. Filling'
    BY <1>1, <1>2, <2>2, <2>5 DEF Filling, Silent
  <2> QED
    BY <2>2, <2>4, <2>6 DEF Places, Fresh, Starting, Streaming, Finishing, Committing, Failed, Discarding
<1>3. CASE Ending({"Stopped"})
  <2>1. /\ worker' \in {"exiting", "done"} /\ result'.error \in Failures
        /\ result'.cleanup \in Cleanups \ {"pending"}
        /\ result'.cleanup = "none" => stage' # "present"
        /\ ~ Published' /\ owner' = "gone"
    BY <1>1, <1>3, StoppedReceived DEF Started, EInv
  <2>2. Report(result'.error, result'.cleanup, 0)
    BY <2>1 DEF Started
  <2>3. result'.error \in Primaries /\ result'.error \notin Replies /\ result'.error # "timeout"
    BY <2>1 DEF Primaries, Failures, Replies
  <2> QED
    BY <2>1, <2>2, <2>3, Reporting DEF EInv
<1>4. ~ Silent({"open", "mkdir", "create", "ready"})
  BY DEF Started, Receive, WorkerGone, Silent
<1> QED
  BY <1>2, <1>3, <1>4 DEF Started, EInv, Places, Starting

LEMMA RequestEndsKeeps ==
  ASSUME TypeOK, Inv, EInv, RequestEnds
  PROVE  ExecuteTypeOK' /\ Places' /\ Settled'
<1>1. owner = "idle" /\ Filling
  BY DEF RequestEnds, EInv, Places, Streaming
<1>2. CASE AbandonForTimeout
  BY <1>2, AbandonKeeps
<1>3. CASE DiscardFor("client") \/ DiscardFor("status")
  BY <1>1, <1>3, DiscardKeeps
<1>4. CASE /\ cli' = "stream" /\ reply' \in Replies
           /\ UNCHANGED <<vars, primary, report>>
  <2>1. ExecuteTypeOK' /\ Settled'
    BY <1>4, Moving DEF EInv, ExecuteTypeOK
  <2>2. owner' = "idle" /\ Filling'
    BY <1>1, <1>4 DEF vars, ownerVars, workerVars, fileVars, Filling, Waits, Silent, Ending, Holds
  <2> QED
    BY <1>4, <2>1, <2>2
       DEF Places, Fresh, Starting, Streaming, Finishing, Committing, Failed, Discarding
<1> QED
  BY <1>2, <1>3, <1>4 DEF RequestEnds

LEMMA StreamYieldsKeeps ==
  ASSUME TypeOK, Inv, EInv, StreamYields
  PROVE  ExecuteTypeOK' /\ Places' /\ Settled'
<1>1. owner = "idle" /\ Filling /\ reply \in Replies
  BY DEF StreamYields, EInv, Places, Streaming
<1>2. ASSUME NEW size, Enqueue(size), Go("chunk")
      PROVE  ExecuteTypeOK' /\ Places' /\ Settled'
  <2>1. ExecuteTypeOK' /\ Settled' /\ cli' = "chunk" /\ reply' = reply
    BY <1>2, GoMoves DEF EInv
  <2>2. owner' = "sending" /\ call'.op = "write" /\ Filling'
    BY <1>1, <1>2 DEF Enqueue, Borrow, workerVars, fileVars, Filling, Waits, Silent, Ending, Holds
  <2> QED
    BY <1>1, <2>1, <2>2
       DEF Places, Fresh, Starting, Streaming, Finishing, Committing, Failed, Discarding
<1>3. ASSUME Finish, Go("finish")
      PROVE  ExecuteTypeOK' /\ Places' /\ Settled'
  <2>1. ExecuteTypeOK' /\ Settled' /\ cli' = "finish" /\ reply' = reply
    BY <1>3, GoMoves DEF EInv
  <2>2. owner' = "sending" /\ call'.op = "finish" /\ Filling'
    BY <1>1, <1>3 DEF Finish, Borrow, workerVars, fileVars, Filling, Waits, Silent, Ending, Holds
  <2> QED
    BY <1>1, <2>1, <2>2
       DEF Places, Fresh, Starting, Streaming, Finishing, Committing, Failed, Discarding
<1>4. CASE AbandonForTimeout
  BY <1>4, AbandonKeeps
<1>5. CASE DiscardFor("stream")
  BY <1>1, <1>5, DiscardKeeps
<1> QED
  BY <1>2, <1>3, <1>4, <1>5 DEF StreamYields

LEMMA SendKeeps ==
  ASSUME TypeOK, Inv, EInv, cli \in {"chunk", "finish", "commit", "discard"},
         Send, Go(IF cli = "chunk" THEN "stream" ELSE cli)
  PROVE  ExecuteTypeOK' /\ Places' /\ Settled'
<1>1. /\ ExecuteTypeOK' /\ Settled' /\ UNCHANGED <<reply, primary>>
      /\ cli' = IF cli = "chunk" THEN "stream" ELSE cli
  BY GoMoves DEF EInv
<1>2. /\ owner = "sending" /\ commands' # <<>> /\ Head(commands') = call
      /\ UNCHANGED <<call, events, worker, ending, finished, bytes, authority>>
      /\ IF call.op = "write" THEN owner' = "idle" ELSE owner' = "waiting" /\ result' = result
  BY Sent DEF Send, workerVars, fileVars
<1>3. ASSUME NEW places PROVE Silent(places)' <=> Silent(places)
  BY <1>2 DEF Silent
<1>4. ASSUME NEW types PROVE Ending(types)' <=> Ending(types)
  BY <1>2, <1>3 DEF Ending, Holds
<1>5. CASE cli = "chunk"
  <2>1. call.op = "write" /\ Filling /\ reply \in Replies
    BY <1>2, <1>5 DEF EInv, Places, Streaming
  <2>2. owner' = "idle" /\ Filling'
    BY <1>2, <1>3, <1>4, <2>1 DEF Filling, Waits
  <2> QED
    BY <1>1, <1>5, <2>1, <2>2
       DEF Places, Fresh, Starting, Streaming, Finishing, Committing, Failed, Discarding
<1>6. CASE cli = "finish"
  <2>1. call.op = "finish" /\ Filling /\ reply \in Replies
    BY <1>2, <1>6 DEF EInv, Places, Streaming, Finishing
  <2>2. owner' = "waiting" /\ Waits("finish")'
    BY <1>2, <2>1 DEF Waits
  <2>3. Finishing'
    BY <1>2, <1>3, <1>4, <2>1, <2>2 DEF Filling, Finishing
  <2> QED
    BY <1>1, <1>6, <2>1, <2>2, <2>3
       DEF Places, Fresh, Starting, Streaming, Committing, Failed, Discarding
<1>7. CASE cli = "commit"
  <2>1. /\ call.op = "commit" /\ Idle /\ reply \in Replies
        /\ authority # "CANCELLED" /\ result.bytes = bytes
    BY <1>2, <1>7 DEF EInv, Places, Streaming, Committing
  <2>2. owner' = "waiting" /\ Waits("commit")' /\ finished' /\ Silent({"loop", "recv"})'
    BY <1>2, <1>3, <2>1 DEF Waits, Idle
  <2>3. Committing'
    BY <1>1, <1>2, <1>7, <2>1, <2>2 DEF Committing
  <2> QED
    BY <1>1, <1>7, <2>1, <2>3
       DEF Places, Fresh, Starting, Streaming, Finishing, Failed, Discarding
<1>8. CASE cli = "discard"
  <2>1. /\ call.op = "discard" /\ primary \in {"client", "status", "stream", "encode"}
        /\ Silent({"loop", "recv", "write"}) \/ Ending({"Stopped"})
    BY <1>8 DEF EInv, Places, Discarding
  <2>2. owner' = "waiting" /\ Waits("discard")'
    BY <1>2, <2>1 DEF Waits
  <2>3. Discarding'
    BY <1>1, <1>2, <1>3, <1>4, <2>1, <2>2 DEF Discarding
  <2> QED
    BY <1>1, <1>8, <2>3
       DEF Places, Fresh, Starting, Streaming, Finishing, Committing, Failed
<1> QED
  BY <1>5, <1>6, <1>7, <1>8

LEMMA SendRefusedKeeps ==
  ASSUME TypeOK, Inv, EInv, cli \in {"chunk", "finish", "commit", "discard"},
         SendRefused, Go(cli)
  PROVE  ExecuteTypeOK' /\ Places' /\ Settled'
<1>1. ExecuteTypeOK' /\ Settled' /\ UNCHANGED <<cli, reply, primary>>
  BY GoMoves DEF EInv
<1>2. /\ owner = "sending" /\ worker = "done"
      /\ UNCHANGED <<call, commands, events, worker, ending, finished>>
      /\ owner' = IF call.op = "discard" THEN "waiting" ELSE "stopped"
  BY DEF SendRefused, workerVars, fileVars
<1>3. Filling => Filling'
  BY <1>2 DEF Filling, Waits, Silent, Ending, Holds
<1>4. CASE cli \in {"chunk", "finish"}
  <2>1. Filling /\ reply \in Replies /\ call.op = IF cli = "chunk" THEN "write" ELSE "finish"
    BY <1>2, <1>4 DEF EInv, Places, Streaming, Finishing
  <2>2. owner' = "stopped" /\ Filling' /\ call' = call
    BY <1>2, <1>3, <2>1
  <2> QED
    BY <1>1, <1>4, <2>1, <2>2
       DEF Places, Fresh, Starting, Streaming, Finishing, Committing, Failed, Discarding
<1>5. cli # "commit"
  BY <1>2 DEF EInv, Places, Committing, Idle, Silent
<1>6. CASE cli = "discard"
  <2>1. /\ call.op = "discard" /\ primary \in {"client", "status", "stream", "encode"}
        /\ commands # <<>> => Waits("write") \/ Waits("discard")
        /\ Silent({"loop", "recv", "write"}) \/ Ending({"Stopped"})
    BY <1>6 DEF EInv, Places, Discarding
  <2>2. Discarding'
    BY <1>1, <1>2, <2>1 DEF Discarding, Waits, Silent, Ending, Holds
  <2> QED
    BY <1>1, <1>6, <2>2
       DEF Places, Fresh, Starting, Streaming, Finishing, Committing, Failed
<1> QED
  BY <1>4, <1>5, <1>6

LEMMA SendsKeeps ==
  ASSUME TypeOK, Inv, EInv, Sends
  PROVE  ExecuteTypeOK' /\ Places' /\ Settled'
<1>1. ~ SkipEvent
  <2> SUFFICES ASSUME SkipEvent PROVE FALSE
    OBVIOUS
  <2>1. call.op = "discard" /\ events # <<>> /\ Head(events).type # "Stopped"
    BY DEF SkipEvent, Skips
  <2>2. cli = "discard"
    <3>1. owner = "waiting"
      BY DEF SkipEvent
    <3> QED
      BY <2>1, <3>1 DEF Sends, EInv, Places, Streaming, Finishing, Committing
  <2>3. Ending({"Stopped"})
    BY <2>1, <2>2 DEF EInv, Places, Discarding, Silent
  <2> QED
    BY <2>1, <2>3 DEF Ending, Silent, Holds
<1>2. cli \in {"chunk", "finish", "commit", "discard"}
  BY DEF Sends
<1>3. CASE Send /\ Go(IF cli = "chunk" THEN "stream" ELSE cli)
  BY <1>2, <1>3, SendKeeps
<1>4. CASE SendRefused /\ Go(cli)
  BY <1>2, <1>4, SendRefusedKeeps
<1> QED
  BY <1>1, <1>3, <1>4 DEF Sends

LEMMA BorrowReturnsKeeps ==
  ASSUME TypeOK, Inv, EInv, BorrowReturns
  PROVE  ExecuteTypeOK' /\ Places' /\ Settled'
<1>1. /\ owner \in {"waiting", "stopped"} /\ UNCHANGED workerVars /\ UNCHANGED commands
      /\ events # <<>> \/ worker = "done"
  BY DEF BorrowReturns, Receive, WorkerGone
<1>2. call.op = (IF cli = "chunk" THEN "write" ELSE "finish") /\ reply \in Replies
  BY DEF BorrowReturns, EInv, Places, Streaming, Finishing
<1>3. /\ Go(IF result'.error = "none" THEN "encode" ELSE "failed")
      /\ cli' = IF result'.error = "none" THEN "encode" ELSE "failed"
      /\ reply' = reply
  BY DEF BorrowReturns, Go
<1>4. ExecuteTypeOK' /\ Settled'
  BY <1>3, GoMoves DEF EInv
<1>5. CASE Ending({"Stopped"})
  <2>1. /\ worker' \in {"exiting", "done"} /\ result'.error \in Failures
        /\ result'.cleanup # "pending"
        /\ result'.cleanup = "none" => stage' # "present"
        /\ owner' = "idle"
    BY <1>2, <1>5, StoppedReceived DEF BorrowReturns, EInv
  <2>2. result'.error # "none"
    BY <2>1 DEF Failures
  <2>3. Failed'
    BY <2>1 DEF Failed
  <2> QED
    BY <1>3, <1>4, <2>2, <2>3
       DEF Places, Fresh, Starting, Streaming, Finishing, Committing, Discarding
<1>6. CASE /\ cli = "finish" /\ owner = "waiting"
           /\ finished /\ commands = <<>> /\ worker \in {"loop", "recv"} /\ Holds(Flushed)
  <2>1. Flushed.type = "Finished" /\ Flushed.bytes = bytes
    BY DEF Flushed, Event
  <2>2. Answer(Flushed).error = "none" /\ Answer(Flushed).bytes = bytes
    BY <1>2, <1>6, <2>1, AnswerSuccess
  <2>3. result' = Answer(Flushed) /\ events' = <<>> /\ owner' = "idle"
    BY <1>2, <1>6, Receives DEF BorrowReturns
  <2>4. Idle' /\ result'.bytes = bytes'
    BY <1>1, <1>6, <2>2, <2>3 DEF Idle, Silent, workerVars, fileVars
  <2>5. cli' = "encode" /\ reply' \in Replies
    BY <1>2, <1>3, <2>2, <2>3
  <2> QED
    BY <1>4, <2>3, <2>4, <2>5
       DEF Places, Fresh, Starting, Streaming, Finishing, Committing, Failed, Discarding
<1>7. Filling => Ending({"Stopped"})
  BY <1>1 DEF Filling, Silent
<1>8. cli = "chunk" \/ owner = "stopped" => Filling
  BY <1>1 DEF BorrowReturns, EInv, Places, Streaming
<1>9. CASE cli = "finish" /\ owner = "waiting"
  BY <1>1, <1>5, <1>6, <1>9 DEF EInv, Places, Finishing, Silent
<1> QED
  BY <1>1, <1>5, <1>7, <1>8, <1>9 DEF BorrowReturns

LEMMA ReportFailedKeeps ==
  ASSUME TypeOK, Inv, EInv, ReportFailed
  PROVE  ExecuteTypeOK' /\ Places' /\ Settled'
<1>1. /\ owner = "idle" /\ worker \in {"exiting", "done"}
      /\ result.error \in Failures /\ result.cleanup # "pending"
      /\ result.cleanup = "none" => stage # "present"
  BY DEF ReportFailed, EInv, Places, Failed
<1>2. authority = "ACTIVE" /\ authority' = "CANCELLED" /\ UNCHANGED <<workerVars, destination>>
  BY <1>1 DEF Inv, Holding, ReportFailed, Drop, Leave, Revoked
<1>3. ~ Published' /\ UNCHANGED <<worker, stage>>
  BY <1>2, HeldUnpublished DEF Published, workerVars
<1>4. /\ result.error \in Primaries /\ result.error \notin Replies /\ result.error # "timeout"
      /\ result.cleanup \in Cleanups
  BY <1>1 DEF Primaries, Failures, Replies, TypeOK, Results
<1> QED
  BY <1>1, <1>2, <1>3, <1>4, Reporting DEF EInv, ReportFailed

LEMMA EncodesKeeps ==
  ASSUME TypeOK, Inv, EInv, Encodes
  PROVE  ExecuteTypeOK' /\ Places' /\ Settled'
<1>1. owner = "idle" /\ Idle /\ result.bytes = bytes /\ reply \in Replies /\ authority = "ACTIVE"
  BY DEF Encodes, EInv, Places, Committing, Streaming, Inv, Holding
<1>2. CASE Commit /\ Go("commit")
  <2>1. ExecuteTypeOK' /\ Settled' /\ cli' = "commit" /\ reply' = reply
    BY <1>2, GoMoves DEF EInv
  <2>2. Committing'
    BY <1>1, <1>2, <2>1 DEF Commit, Committing, Idle, Silent, workerVars, fileVars
  <2> QED
    BY <1>1, <2>1, <2>2 DEF Places, Fresh, Starting, Streaming, Finishing, Failed, Discarding
<1>3. CASE DiscardFor("encode")
  BY <1>1, <1>3, DiscardKeeps
<1> QED
  BY <1>2, <1>3 DEF Encodes

LEMMA CommitReturnsKeeps ==
  ASSUME TypeOK, Inv, EInv, CommitReturns
  PROVE  ExecuteTypeOK' /\ Places' /\ Settled'
<1>1. /\ owner = "waiting" /\ call.op = "commit" /\ reply \in Replies /\ result.bytes = bytes
      /\ authority # "CANCELLED" /\ (events # <<>> \/ worker = "done")
  BY DEF CommitReturns, Receive, WorkerGone, EInv, Places, Committing, Streaming
<1>2. Ending({"Committed", "Stopped"})
  BY <1>1 DEF CommitReturns, EInv, Places, Committing, Silent
<1>3. worker \in {"exiting", "done"} /\ Holds(ending)
  BY <1>2, ReceivesEnding DEF CommitReturns
<1>4. UNCHANGED <<worker, stage, bytes, destination>>
  BY DEF CommitReturns, Receive, workerVars, fileVars
<1>5. Report(CommitReported, result'.cleanup, IF result'.error = "none" THEN result.bytes ELSE 0)
  BY DEF CommitReturns
<1>6. CASE ending.type = "Committed"
  <2>1. result' = Answer(ending) /\ Answer(ending).error = "none"
        /\ Answer(ending).cleanup = ending.cleanup
    BY <1>1, <1>3, <1>6, Receives, AnswerSuccess DEF CommitReturns
  <2>2. Published /\ destination.bytes = bytes
    BY <1>3, <1>6 DEF EInv, Staging, Inv, Publication
  <2>3. /\ ending.cleanup \in Cleanups /\ ending.cleanup # "pending"
        /\ ending.cleanup = "none" => stage # "present"
    BY <1>3 DEF EInv, Staging, TypeOK, Events
  <2>4. reply \in Primaries /\ reply # "timeout" /\ result.bytes \in Nat
    BY <1>1 DEF Primaries, Replies, TypeOK, Results
  <2>5. Report(reply, ending.cleanup, result.bytes)
    BY <1>5, <2>1 DEF CommitReported
  <2>6. Published'
    BY <1>4, <2>2 DEF Published
  <2> QED
    BY <1>1, <1>3, <1>4, <2>2, <2>3, <2>4, <2>5, <2>6, Reporting DEF EInv
<1>7. CASE ending.type = "Stopped"
  <2>1. Ending({"Stopped"})
    BY <1>2, <1>7 DEF Ending
  <2>2. /\ worker' \in {"exiting", "done"} /\ result'.error \in Failures
        /\ result'.cleanup \in Cleanups \ {"pending"}
        /\ result'.cleanup = "none" => stage' # "present"
        /\ ~ Published'
    BY <1>1, <2>1, StoppedReceived DEF CommitReturns, EInv
  <2>3. /\ result'.error \in Primaries /\ result'.error \notin Replies
        /\ result'.error # "timeout" /\ result'.error # "none"
    BY <2>2 DEF Primaries, Failures, Replies
  <2>4. Report(result'.error, result'.cleanup, 0)
    BY <1>5, <2>3 DEF CommitReported
  <2> QED
    BY <2>2, <2>3, <2>4, Reporting DEF EInv
<1> QED
  BY <1>2, <1>6, <1>7 DEF Ending

LEMMA DiscardReturnsKeeps ==
  ASSUME TypeOK, Inv, EInv, DiscardReturns
  PROVE  ExecuteTypeOK' /\ Places' /\ Settled'
<1>1. /\ owner = "waiting" /\ call.op = "discard"
      /\ events # <<>> \/ worker = "done"
      /\ primary \in {"client", "status", "stream", "encode"}
  BY DEF DiscardReturns, Receive, WorkerGone, EInv, Places, Discarding
<1>2. Ending({"Stopped"})
  BY <1>1 DEF DiscardReturns, EInv, Places, Discarding, Silent
<1>3. worker \in {"exiting", "done"} /\ Holds(ending) /\ ending.type = "Stopped"
  BY <1>2, ReceivesEnding DEF DiscardReturns, Ending
<1>4. result' = Answer(ending) /\ Answer(ending).cleanup = ending.cleanup
  <2>1. result' = Answer(ending)
    BY <1>3, Receives DEF DiscardReturns
  <2>2. Answer(ending).cleanup = ending.cleanup
    BY <1>1, AnswerSuccess
  <2> QED
    BY <2>1, <2>2
<1>5. UNCHANGED <<worker, stage, destination>>
  BY DEF DiscardReturns, Receive, workerVars
<1>6. /\ ending.cleanup \in Cleanups /\ ending.cleanup # "pending"
      /\ ending.cleanup = "none" => stage' # "present"
      /\ ~ Published'
  BY <1>3, <1>5 DEF EInv, Staging, TypeOK, Events, Published
<1>7. \E name \in {"client", "status", "stream", "encode"} : Report(name, ending.cleanup, 0)
  BY <1>1, <1>4 DEF DiscardReturns, DiscardCleanup
<1>8. PICK name \in {"client", "status", "stream", "encode"} : Report(name, ending.cleanup, 0)
  BY <1>7
<1>9. name \in Primaries /\ name \notin Replies /\ name # "timeout"
  BY DEF Primaries, Replies
<1> QED
  BY <1>3, <1>5, <1>6, <1>8, <1>9, Reporting DEF EInv

LEMMA WriteReportKeeps ==
  ASSUME EInv, WriteReport
  PROVE  ExecuteTypeOK' /\ Places' /\ Settled'
<1>1. cli = "report" /\ cli' = "exited" /\ UNCHANGED <<reply, primary, vars>>
  BY DEF WriteReport
<1>2. report' = report \/ report' = [report EXCEPT !.exit = 1]
  BY DEF WriteReport
<1>3. /\ report' \in Reports /\ report'.primary = report.primary
      /\ report'.cleanup = report.cleanup /\ report'.bytes = report.bytes
      /\ report'.exit = 0 => report.exit = 0
  BY <1>2 DEF EInv, ExecuteTypeOK, Reports
<1>4. ExecuteTypeOK'
  BY <1>1, <1>3 DEF EInv, ExecuteTypeOK
<1>5. Places'
  BY <1>1 DEF Places, Fresh, Starting, Streaming, Finishing, Committing, Failed, Discarding
<1>6. UNCHANGED <<destination, authority, worker, stage>>
  BY <1>1 DEF vars, workerVars
<1>7. Settled'
  BY <1>1, <1>3, <1>6
     DEF EInv, Settled, ReportMatchesDestination, CleanupTold, Reported, Published
<1> QED
  BY <1>4, <1>5, <1>7

LEMMA LeavesTheCall ==
  ASSUME ExecuteTypeOK, NEW place \in {"timeout", "killed"}, Go(place)
  PROVE  ExecuteTypeOK' /\ Places' /\ Settled'
<1>1. ExecuteTypeOK' /\ Settled' /\ cli' = place
  BY GoMoves
<1> QED
  BY <1>1 DEF Places, Fresh, Starting, Streaming, Finishing, Committing, Failed, Discarding

LEMMA InterfereKeeps ==
  ASSUME EInv, Interfere, UNCHANGED cliVars
  PROVE  ExecuteTypeOK' /\ Places' /\ Settled'
<1>1. /\ UNCHANGED <<owner, call, result, authority, commands, events>>
      /\ UNCHANGED <<worker, bytes, finished, stage, ending>>
  BY DEF Interfere, ownerVars, workerVars, fileVars
<1>2. ~ Published /\ ~ Published'
  BY DEF Interfere, Published, Absent, Foreign
<1>3. UNCHANGED <<cli, reply, primary, report>>
  BY DEF cliVars
<1>4. ExecuteTypeOK'
  BY <1>3 DEF EInv, ExecuteTypeOK
<1>5. ASSUME NEW places PROVE Silent(places)' <=> Silent(places)
  BY <1>1 DEF Silent
<1>6. ASSUME NEW types PROVE Ending(types)' <=> Ending(types)
  BY <1>1, <1>5 DEF Ending, Holds
<1>7. (Filling' <=> Filling) /\ (Idle' <=> Idle)
  BY <1>1, <1>5, <1>6 DEF Filling, Idle, Waits
<1>8. Fresh' /\ Starting'
  BY <1>1, <1>3, <1>5, <1>6 DEF EInv, Places, Fresh, Starting, Holds, Event
<1>9. Streaming'
  BY <1>1, <1>3, <1>7 DEF EInv, Places, Streaming
<1>10. Finishing'
  BY <1>1, <1>3, <1>5, <1>6 DEF EInv, Places, Finishing, Waits, Holds, Flushed, Event
<1>11. Committing'
  BY <1>1, <1>3, <1>5, <1>6, <1>7 DEF EInv, Places, Committing, Waits
<1>12. Failed' /\ Discarding'
  BY <1>1, <1>3, <1>5, <1>6 DEF EInv, Places, Failed, Discarding, Waits
<1>13. Settled'
  BY <1>1, <1>2, <1>3
     DEF EInv, Settled, ReportMatchesDestination, CleanupTold, Reported
<1> QED
  BY <1>4, <1>8, <1>9, <1>10, <1>11, <1>12, <1>13 DEF Places

LEMMA RunningWorkerKeeps ==
  ASSUME TypeOK, Inv, EInv, RunningWorker
  PROVE  ExecuteTypeOK' /\ Places' /\ Settled'
<1>1. Worker /\ UNCHANGED cliVars /\ UNCHANGED <<cli, reply, primary, report>>
  BY DEF RunningWorker, cliVars
<1>2. ExecuteTypeOK'
  BY <1>1 DEF EInv, ExecuteTypeOK
<1>3. Fresh'
  BY <1>1, WorkerLeaves DEF EInv, Places, Fresh
<1>4. Starting' /\ Streaming' /\ Finishing'
  BY <1>1, StartingKept, StreamingKept, FinishingKept DEF EInv, Places
<1>5. Committing' /\ Failed' /\ Discarding'
  BY <1>1, CommittingKept, FailedKept, DiscardingKept DEF EInv, Places
<1>6. Settled'
  BY <1>1, SettledKept DEF EInv
<1> QED
  BY <1>2, <1>3, <1>4, <1>5, <1>6 DEF Places

LEMMA StutterKeeps ==
  ASSUME EInv, UNCHANGED executeVars
  PROVE  EInv'
<1>1. /\ UNCHANGED <<owner, call, result, authority, commands, events, destination>>
      /\ UNCHANGED <<worker, bytes, finished, stage, ending>>
      /\ UNCHANGED <<cli, reply, primary, report>>
  BY DEF executeVars, vars, cliVars, ownerVars, workerVars, fileVars
<1>2. ExecuteTypeOK' /\ Staging'
  BY <1>1 DEF EInv, ExecuteTypeOK, Staging, Published
<1>3. ASSUME NEW places PROVE Silent(places)' <=> Silent(places)
  BY <1>1 DEF Silent
<1>4. ASSUME NEW types PROVE Ending(types)' <=> Ending(types)
  BY <1>1, <1>3 DEF Ending, Holds
<1>5. (Filling' <=> Filling) /\ (Idle' <=> Idle)
  BY <1>1, <1>3, <1>4 DEF Filling, Idle, Waits
<1>6. Fresh' /\ Starting'
  BY <1>1, <1>3, <1>4 DEF EInv, Places, Fresh, Starting, Holds, Event
<1>7. Streaming'
  BY <1>1, <1>5 DEF EInv, Places, Streaming
<1>8. Finishing'
  BY <1>1, <1>3, <1>4 DEF EInv, Places, Finishing, Waits, Holds, Flushed, Event
<1>9. Committing'
  BY <1>1, <1>3, <1>4, <1>5 DEF EInv, Places, Committing, Waits
<1>10. Failed' /\ Discarding'
  BY <1>1, <1>3, <1>4 DEF EInv, Places, Failed, Discarding, Waits
<1>11. Settled'
  BY <1>1 DEF EInv, Settled, ReportMatchesDestination, CleanupTold, Reported, Published
<1> QED
  BY <1>2, <1>6, <1>7, <1>8, <1>9, <1>10, <1>11 DEF EInv, Places

-----------------------------------------------------------------------------
LEMMA ExecuteInitKeeps == ExecuteInit => EInv
<1> SUFFICES ASSUME ExecuteInit PROVE EInv
  OBVIOUS
<1> USE DEF ExecuteInit, Init
<1>1. ExecuteTypeOK
  BY DEF ExecuteTypeOK, Replies, Primaries, Reports, Cleanups
<1>2. ~ Published
  BY DEF Published, Absent, Foreign
<1>3. Staging
  BY <1>2 DEF Staging
<1>4. Places
  BY DEF Places, Fresh, Starting, Streaming, Finishing, Committing, Failed, Discarding
<1>5. Settled
  BY DEF Settled, ReportMatchesDestination, CleanupTold, Reported
<1> QED
  BY <1>1, <1>3, <1>4, <1>5 DEF EInv

LEMMA ExecuteNextKeeps == TypeOK /\ Inv /\ EInv /\ [ExecuteNext]_executeVars => EInv'
<1> SUFFICES ASSUME TypeOK, Inv, EInv, ExecuteNext PROVE EInv'
  BY StutterKeeps
<1>1. Staging'
  BY ExecuteStep, StagingKept DEF EInv
<1> SUFFICES ExecuteTypeOK' /\ Places' /\ Settled'
  BY <1>1 DEF EInv
<1>2. CASE CheckTarget \/ StartTransaction \/ Started
  BY <1>2, CheckTargetKeeps, StartTransactionKeeps, StartedKeeps
<1>3. CASE RequestEnds \/ StreamYields
  BY <1>3, RequestEndsKeeps, StreamYieldsKeeps
<1>4. CASE Sends \/ BorrowReturns \/ ReportFailed
  BY <1>4, SendsKeeps, BorrowReturnsKeeps, ReportFailedKeeps
<1>5. CASE DeadlinePasses
  BY <1>5, LeavesTheCall DEF DeadlinePasses, EInv
<1>6. CASE TimesOut
  BY <1>6, AbandonKeeps DEF TimesOut
<1>7. CASE Encodes \/ CommitReturns
  BY <1>7, EncodesKeeps, CommitReturnsKeeps
<1>8. CASE DiscardReturns \/ WriteReport
  BY <1>8, DiscardReturnsKeeps, WriteReportKeeps
<1>9. CASE RunningWorker
  BY <1>9, RunningWorkerKeeps
<1>10. CASE Interfere /\ UNCHANGED cliVars
  BY <1>10, InterfereKeeps
<1>11. CASE Kill
  BY <1>11, LeavesTheCall DEF Kill, EInv
<1> QED
  BY <1>2, <1>3, <1>4, <1>5, <1>6, <1>7, <1>8, <1>9, <1>10, <1>11 DEF ExecuteNext, Caller

LEMMA ExecuteInductive == ExecuteSpec => []EInv
<1>1. ExecuteSpec => [](TypeOK /\ Inv)
  BY ExecuteIsTransaction, InductiveInvariant, PTL
<1> QED
  BY <1>1, ExecuteInitKeeps, ExecuteNextKeeps, PTL DEF ExecuteSpec

(* The place of the call, its reply, its primary outcome and its report    *)
(* keep their types.                                                       *)
THEOREM ExecuteTypeCorrect == ExecuteSpec => []ExecuteTypeOK
<1>1. EInv => ExecuteTypeOK
  BY DEF EInv
<1> QED
  BY <1>1, ExecuteInductive, PTL

(* What execute reports is what is under the destination name, also when   *)
(* the deadline, a failed stream or a stopped worker cut the call short,   *)
(* and however far the worker still runs behind the report.                *)
THEOREM ReportTrueToDestination == ExecuteSpec => []ReportMatchesDestination
<1>1. EInv => ReportMatchesDestination
  BY DEF EInv, Settled
<1> QED
  BY <1>1, ExecuteInductive, PTL

(* A report that says nothing of the staging directory leaves none, and    *)
(* cleanup_pending is the report of a timeout alone.                       *)
THEOREM CleanupAlwaysTold == ExecuteSpec => []CleanupTold
<1>1. EInv => CleanupTold
  BY DEF EInv, Settled
<1> QED
  BY <1>1, ExecuteInductive, PTL

-----------------------------------------------------------------------------
(* Nobody waits for ever: the part of CallsReturn and WorkerEnds that does *)
(* not speak of fairness.                                                  *)

AtItsEnd == worker \in {"cleanup", "report", "exiting", "done"}

(* An owner who waits has been answered, or is going to be. *)
Answering ==
  \/ events # <<>> \/ commands # <<>> \/ AtItsEnd
  \/ call.op = "start"  /\ worker \in {"open", "mkdir", "create", "ready"}
  \/ call.op = "finish" /\ worker = "flush"
  \/ call.op = "commit" /\ worker \in {"commit", "publish"}
(* The worker is there before any command is. *)
Begun ==
  /\ owner = "new" => worker = "unspawned" /\ call.op = "start" /\ commands = <<>>
  /\ owner \notin {"new", "gone"} => worker # "unspawned"
  /\ owner = "sending" => call.op # "start"
Heard ==
  /\ owner = "stopped" => worker = "done"
  /\ owner = "waiting" => call.op # "write"
  /\ owner = "waiting" /\ worker # "done" /\ commands # <<>> =>
       call.op # "start" /\ Head(commands).op = call.op
  /\ owner = "waiting" /\ call.op = "commit" => authority # "CANCELLED"
  /\ owner = "waiting" /\ call.op = "discard" /\ worker = "recv" => commands # <<>>
  /\ owner = "waiting" /\ call.op # "discard" => Answering

LEMMA EmittedSome == ASSUME TypeOK, owner # "gone", NEW event, Emit(event) PROVE events' # <<>>
<1>1. events' = Append(events, event)
  BY DEF Emit
<1> QED
  BY <1>1 DEF TypeOK

LEMMA BegunInit == Init => Begun
  BY DEF Init, Begun

LEMMA BegunNext == Begun /\ [Next]_vars => Begun'
<1> SUFFICES ASSUME Begun, [Next]_vars PROVE Begun'
  OBVIOUS
<1>1. CASE Start
  BY <1>1 DEF Start, Begun
<1>2. CASE owner' = "gone"
  BY <1>2 DEF Begun
<1>3. CASE OwnerCalls
  BY <1>1, <1>2, <1>3
  DEF OwnerCalls, SpawnFails, Enqueue, Finish, Borrow, Commit, Discard, Abandon, Drop, Cancel,
      Leave, workerVars, Begun
<1>4. CASE OwnerWaits
  BY <1>2, <1>4
  DEF OwnerWaits, Send, SendRefused, SkipEvent, Receive, Leave, ownerVars, workerVars, Begun
<1>5. CASE Worker
  <2>1. worker # "unspawned"
    BY <1>5
    DEF Worker, OpenParent, MakeStage, CreateFile, AnnounceReady, CheckAuthority, TakeCommand,
        FindDisconnected, WriteChunk, Flush, AcquireCommit, Publish, CleanUp, LastEvent, Exit
  <2>2. worker' # "unspawned" /\ UNCHANGED ownerVars
    BY <1>5
    DEF Worker, OpenParent, MakeStage, CreateFile, AnnounceReady, CheckAuthority, TakeCommand,
        FindDisconnected, WriteChunk, Flush, AcquireCommit, Publish, CleanUp, LastEvent, Exit,
        Stop, Refuse, InOrder, AfterFailedWrite
  <2> QED
    BY <2>1, <2>2 DEF Begun, ownerVars
<1>6. CASE Interfere \/ UNCHANGED vars
  BY <1>6 DEF Interfere, vars, ownerVars, workerVars, Begun
<1> QED
  BY <1>3, <1>4, <1>5, <1>6 DEF Next, Owner

LEMMA HeardInit == Init => Heard
  BY DEF Init, Heard

LEMMA HeardNext == TypeOK /\ Inv /\ Begun /\ Heard /\ [Next]_vars => Heard'
<1> SUFFICES ASSUME TypeOK, Inv, Begun, Heard, [Next]_vars PROVE Heard'
  OBVIOUS
<1> USE DEF Heard, Answering, AtItsEnd
<1>Start. CASE Start
  BY <1>Start DEF Start, Begun, fileVars
<1>leaves. CASE owner' \notin {"waiting", "stopped"}
  BY <1>leaves
<1>Send. CASE Send /\ owner' = "waiting"
  <2>1. commands' # <<>> /\ Head(commands') = call
    BY <1>Send, Sent
  <2> QED
    BY <1>Send, <2>1 DEF Send, Begun, Inv, Holding, Pending, TypeOK, workerVars, fileVars, Calls, Ops
<1>SendRefused. CASE SendRefused
  BY <1>SendRefused DEF SendRefused, workerVars, fileVars
<1>SkipEvent. CASE SkipEvent
  BY <1>SkipEvent DEF SkipEvent, Skips, ownerVars, workerVars, fileVars
<1>OpenParent. CASE OpenParent
  BY <1>OpenParent DEF OpenParent, Refuse, ownerVars, fileVars
<1>MakeStage. CASE MakeStage
  BY <1>MakeStage DEF MakeStage, Refuse, Stop, ownerVars, fileVars
<1>CreateFile. CASE CreateFile
  BY <1>CreateFile DEF CreateFile, Stop, ownerVars, fileVars
<1>AnnounceReady. CASE AnnounceReady
  <2>1. owner # "gone" => events' # <<>>
    BY <1>AnnounceReady, EmittedSome DEF AnnounceReady
  <2> QED
    BY <1>AnnounceReady, <2>1 DEF AnnounceReady, Stop, ownerVars, fileVars
<1>CheckAuthority. CASE CheckAuthority
  BY <1>CheckAuthority DEF CheckAuthority, Stop, Inv, Holding, Pending, ownerVars, fileVars
<1>TakeCommand. CASE TakeCommand
  <2>1. commands' = <<>>
    BY <1>TakeCommand, CommandsOne DEF TakeCommand
  <2>2. owner' = owner /\ call' = call /\ authority' = authority /\ events' = events
    BY <1>TakeCommand DEF TakeCommand, ownerVars
  <2>3. owner = "waiting" => Head(commands).op = call.op /\ call.op \notin {"start", "write"}
    BY <1>TakeCommand DEF TakeCommand
  <2>4. worker' # "recv" /\ worker' # "unspawned"
    BY <1>TakeCommand DEF TakeCommand, Stop, InOrder
  <2>5. owner = "waiting" => \/ worker' = "cleanup"
                             \/ call.op = "finish" /\ worker' = "flush"
                             \/ call.op = "commit" /\ worker' = "commit"
    BY <1>TakeCommand, <2>3 DEF TakeCommand, Stop, TypeOK, Calls, Ops
  <2>6. owner # "stopped"
    BY <1>TakeCommand DEF TakeCommand
  <2> QED
    BY <2>1, <2>2, <2>3, <2>4, <2>5, <2>6
<1>FindDisconnected. CASE FindDisconnected
  BY <1>FindDisconnected DEF FindDisconnected, Disconnected, Stop, ownerVars, fileVars
<1>WriteChunk. CASE WriteChunk
  BY <1>WriteChunk DEF WriteChunk, AfterFailedWrite, Stop, ownerVars
<1>Flush. CASE Flush
  <2>1. owner # "gone" /\ worker' = "loop" => events' # <<>>
    BY <1>Flush, EmittedSome DEF Flush, Stop
  <2>2. events # <<>> /\ owner # "gone" => events' # <<>>
    BY <1>Flush, EmittedSome DEF Flush
  <2> QED
    BY <1>Flush, <2>1, <2>2 DEF Flush, Stop, ownerVars
<1>AcquireCommit. CASE AcquireCommit
  <2>1. authority \in {"ACTIVE", "CANCELLED"}
    BY <1>AcquireCommit DEF AcquireCommit, TypeOK, Inv, Holding
  <2> QED
    BY <1>AcquireCommit, <2>1 DEF AcquireCommit, BeginCommit, ownerVars, fileVars
<1>Publish. CASE Publish
  BY <1>Publish DEF Publish, Stop, ownerVars, fileVars
<1>CleanUp. CASE CleanUp
  BY <1>CleanUp DEF CleanUp, ownerVars, fileVars
<1>LastEvent. CASE LastEvent
  <2>1. owner = "waiting" /\ call.op = "commit" => authority' # "CANCELLED"
    BY <1>LastEvent DEF LastEvent, ownerVars
  <2> QED
    BY <1>LastEvent, <2>1 DEF LastEvent, ownerVars, fileVars
<1>Exit. CASE Exit
  BY <1>Exit DEF Exit, ownerVars, fileVars
<1>unchanged. CASE Interfere \/ UNCHANGED vars
  BY <1>unchanged DEF Interfere, vars, ownerVars, workerVars, fileVars
<1>calls. CASE OwnerCalls
  <2>1. Start \/ owner' \notin {"waiting", "stopped"}
    BY <1>calls DEF OwnerCalls, SpawnFails, Enqueue, Finish, Borrow, Commit, Discard, Abandon, Drop, Cancel, Leave
  <2> QED
    BY <2>1, <1>Start, <1>leaves
<1>Receive. CASE Receive
  BY <1>Receive, <1>leaves DEF Receive, Leave
<1>2. Send => owner' \in {"idle", "waiting"}
  BY DEF Send
<1> QED
  BY <1>calls, <1>leaves, <1>2, <1>Send, <1>SendRefused, <1>SkipEvent,
     <1>Receive, <1>OpenParent, <1>MakeStage, <1>CreateFile, <1>AnnounceReady,
     <1>CheckAuthority, <1>TakeCommand, <1>FindDisconnected, <1>WriteChunk,
     <1>Flush, <1>AcquireCommit, <1>Publish, <1>CleanUp, <1>LastEvent, <1>Exit,
     <1>unchanged
  DEF Next, Owner, OwnerWaits, Worker

(* What the two can do by themselves. *)
WorkerCanGo ==
  worker \notin {"unspawned", "done"} /\ (worker = "recv" => commands # <<>> \/ Disconnected)
OwnerCanGo ==
  \/ owner = "sending" /\ (HasRoom \/ WorkerGone)
  \/ owner \in {"waiting", "stopped"} /\ (events # <<>> \/ WorkerGone)

(* A call that is pending, and a worker whose owner has gone, can always   *)
(* go on: owner and worker never wait for one another, in a full channel   *)
(* or an empty one, however calls are cut short (transaction.rs enqueue,   *)
(* finish, commit, discard against run_worker).                            *)
THEOREM NobodyStuck ==
  Spec => [](Pending \/ (owner = "gone" /\ worker \notin {"unspawned", "done"})
               => OwnerCanGo \/ WorkerCanGo)
<1> DEFINE Goes == Pending \/ (owner = "gone" /\ worker \notin {"unspawned", "done"})
                     => OwnerCanGo \/ WorkerCanGo
<1>1. TypeOK /\ Begun /\ Heard => Goes
  <2> SUFFICES ASSUME TypeOK, Begun, Heard, ~ OwnerCanGo, ~ WorkerCanGo,
                      Pending \/ (owner = "gone" /\ worker \notin {"unspawned", "done"})
               PROVE  FALSE
    OBVIOUS
  <2>1. HasRoom \/ commands # <<>>
    BY EmptySeq DEF HasRoom, CommandCapacity
  <2>2. CASE owner = "gone"
    BY <2>2 DEF WorkerCanGo, Disconnected, Pending
  <2>3. CASE owner = "sending"
    BY <2>1, <2>3 DEF OwnerCanGo, WorkerCanGo, WorkerGone, Begun
  <2>4. CASE owner = "waiting"
    <3>1. worker = "recv" /\ commands = <<>> /\ events = <<>>
      BY <2>4 DEF OwnerCanGo, WorkerCanGo, WorkerGone, Begun
    <3> QED
      BY <2>4, <3>1 DEF Heard, Answering, AtItsEnd
  <2>5. CASE owner = "stopped"
    BY <2>5 DEF OwnerCanGo, WorkerGone, Heard
  <2> QED
    BY <2>2, <2>3, <2>4, <2>5 DEF Pending
<1>2. Spec => [](Begun /\ Heard)
  BY BegunInit, BegunNext, HeardInit, HeardNext, InductiveInvariant, PTL DEF Spec
<1> QED
  BY <1>1, <1>2, InductiveInvariant, PTL

(* The steps that the two may still take by themselves: a command is at    *)
(* most a round of the loop and an event, which its caller receives.       *)
WorkerAhead ==
  CASE worker = "open" -> 11
    [] worker = "mkdir" -> 10
    [] worker = "create" -> 9
    [] worker \in {"ready", "flush"} -> 8
    [] worker \in {"write", "commit"} -> 7
    [] worker = "loop" -> 6
    [] worker \in {"recv", "publish"} -> 5
    [] worker = "cleanup" -> 4
    [] worker = "report" -> 3
    [] worker = "exiting" -> 1
    [] OTHER -> 0
OwnerAhead ==
  IF owner = "sending" THEN 6 ELSE IF owner \in {"waiting", "stopped"} THEN 1 ELSE 0
Left == WorkerAhead + OwnerAhead + 4 * Len(commands) + Len(events)

LEMMA EmitsOne ==
  ASSUME TypeOK, NEW event, Emit(event)
  PROVE  Len(events') \in {Len(events), Len(events) + 1}
  BY DEF Emit, TypeOK

LEMMA AheadNumbers ==
  /\ WorkerAhead \in 0 .. 11 /\ OwnerAhead \in 0 .. 6
  /\ TypeOK => Len(commands) \in Nat /\ Len(events) \in Nat
<1>1. WorkerAhead \in 0 .. 11 /\ OwnerAhead \in 0 .. 6
  BY DEF WorkerAhead, OwnerAhead
<1>2. TypeOK => Len(commands) \in Nat /\ Len(events) \in Nat
  BY LenProperties DEF TypeOK
<1> QED
  BY <1>1, <1>2

LEMMA WorkerAdvances ==
  ASSUME TypeOK, Worker
  PROVE  /\ UNCHANGED owner
         /\ \/ UNCHANGED <<commands, events>> /\ WorkerAhead' < WorkerAhead
            \/ /\ UNCHANGED commands /\ WorkerAhead' + 1 < WorkerAhead
               /\ Len(events') \in {Len(events), Len(events) + 1}
            \/ /\ commands # <<>> /\ commands' = Tail(commands) /\ UNCHANGED events
               /\ WorkerAhead' < WorkerAhead + 4
<1> USE DEF WorkerAhead
<1>1. CASE OpenParent \/ MakeStage \/ CreateFile
  BY <1>1 DEF OpenParent, MakeStage, CreateFile, Refuse, Stop, ownerVars
<1>2. CASE AnnounceReady
  <2>1. Len(events') \in {Len(events), Len(events) + 1}
    BY <1>2, EmitsOne DEF AnnounceReady
  <2> QED
    BY <1>2, <2>1 DEF AnnounceReady, Stop, ownerVars
<1>3. CASE CheckAuthority \/ FindDisconnected
  BY <1>3 DEF CheckAuthority, FindDisconnected, Stop, ownerVars
<1>4. CASE TakeCommand
  <2>1. worker' \in {"cleanup", "write", "flush", "commit"}
    BY <1>4 DEF TakeCommand, Stop, InOrder
  <2> QED
    BY <1>4, <2>1 DEF TakeCommand, ownerVars
<1>5. CASE WriteChunk \/ AcquireCommit \/ Publish
  BY <1>5 DEF WriteChunk, AfterFailedWrite, AcquireCommit, BeginCommit, Publish, Stop, ownerVars
<1>6. CASE Flush
  <2>1. UNCHANGED events \/ Len(events') \in {Len(events), Len(events) + 1}
    BY <1>6, EmitsOne DEF Flush
  <2> QED
    BY <1>6, <2>1 DEF Flush, Stop, ownerVars
<1>7. CASE CleanUp \/ Exit
  BY <1>7 DEF CleanUp, Exit, ownerVars
<1>8. CASE LastEvent
  <2>1. Len(events') \in {Len(events), Len(events) + 1}
    BY <1>8, EmitsOne DEF LastEvent
  <2> QED
    BY <1>8, <2>1 DEF LastEvent, ownerVars
<1> QED
  BY <1>1, <1>2, <1>3, <1>4, <1>5, <1>6, <1>7, <1>8 DEF Worker

LEMMA OwnerAdvances ==
  ASSUME TypeOK, OwnerWaits
  PROVE  /\ UNCHANGED worker
         /\ \/ UNCHANGED <<commands, events>> /\ OwnerAhead' < OwnerAhead
            \/ /\ UNCHANGED commands /\ events # <<>> /\ events' = Tail(events)
               /\ OwnerAhead' <= OwnerAhead
            \/ /\ UNCHANGED events /\ commands' = Append(commands, call)
               /\ OwnerAhead = 6 /\ OwnerAhead' <= 1
<1> USE DEF OwnerAhead
<1>1. CASE Send
  BY <1>1 DEF Send, workerVars
<1>2. CASE SendRefused
  BY <1>2 DEF SendRefused, workerVars
<1>3. CASE SkipEvent
  BY <1>3 DEF SkipEvent, Rest, ownerVars, workerVars
<1>4. CASE Receive
  <2>1. owner' \in {"idle", "gone"}
    BY <1>4 DEF Receive, Leave
  <2> QED
    BY <1>4, <2>1 DEF Receive, Rest, workerVars
<1> QED
  BY <1>1, <1>2, <1>3, <1>4 DEF OwnerWaits

(* Between two calls that the owner makes there are finitely many steps:   *)
(* each one that the owner or the worker takes by itself leaves fewer of   *)
(* them, and a third party cannot add any (transaction.rs run_worker: no   *)
(* loop goes round without a command).  Where NobodyStuck says that one    *)
(* can be taken, this says that they come to an end.                       *)
THEOREM StepsRunOut ==
  Spec => /\ [](Left \in Nat)
          /\ [][ /\ OwnerWaits \/ Worker => Left' < Left
                 /\ Interfere => Left' = Left ]_vars
<1>1. TypeOK => Left \in Nat
  <2> SUFFICES ASSUME TypeOK PROVE Left \in Nat
    OBVIOUS
  <2> DEFINE there == Len(commands)
             kept  == Len(events)
  <2>1. WorkerAhead \in Nat /\ OwnerAhead \in Nat /\ there \in Nat /\ kept \in Nat
    BY AheadNumbers
  <2>2. Left = WorkerAhead + OwnerAhead + 4 * there + kept
    BY DEF Left
  <2> HIDE DEF there, kept
  <2> QED
    BY <2>1, <2>2
<1>2. TypeOK /\ TypeOK' /\ [Next]_vars =>
        [ /\ OwnerWaits \/ Worker => Left' < Left
          /\ Interfere => Left' = Left ]_vars
  <2> SUFFICES ASSUME TypeOK, TypeOK'
               PROVE  /\ OwnerWaits \/ Worker => Left' < Left
                      /\ Interfere => Left' = Left
    OBVIOUS
  <2> DEFINE there == Len(commands)
             kept  == Len(events)
             then  == Len(commands')
             left  == Len(events')
             work  == WorkerAhead
             wait  == OwnerAhead
             workN == WorkerAhead'
             waitN == OwnerAhead'
  <2>1. work \in 0 .. 11 /\ wait \in 0 .. 6 /\ workN \in 0 .. 11 /\ waitN \in 0 .. 6
    BY DEF WorkerAhead, OwnerAhead
  <2>2. there \in Nat /\ kept \in Nat /\ then \in Nat /\ left \in Nat
    BY LenProperties DEF TypeOK
  <2>3. /\ Left = work + wait + 4 * there + kept
        /\ Left' = workN + waitN + 4 * then + left
    BY DEF Left
  <2>4. UNCHANGED commands => then = there
    OBVIOUS
  <2>5. UNCHANGED events => left = kept
    OBVIOUS
  <2>6. commands # <<>> /\ commands' = Tail(commands) => then = there - 1
    BY HeadTailProperties DEF TypeOK
  <2>7. events # <<>> /\ events' = Tail(events) => left = kept - 1
    BY HeadTailProperties DEF TypeOK
  <2>8. commands' = Append(commands, call) => then = there + 1
    BY AppendProperties DEF TypeOK
  <2>9. UNCHANGED owner => waitN = wait
    BY DEF OwnerAhead
  <2>10. UNCHANGED worker => workN = work
    BY DEF WorkerAhead
  <2>11. ASSUME Worker PROVE Left' < Left
    <3>1. CASE UNCHANGED <<commands, events>> /\ workN < work
      <4>1. then = there /\ left = kept /\ waitN = wait
        BY <2>4, <2>5, <2>9, <2>11, <3>1, WorkerAdvances
      <4> HIDE DEF there, kept, then, left, work, wait, workN, waitN
      <4> QED
        BY <2>1, <2>2, <2>3, <3>1, <4>1
    <3>2. CASE /\ UNCHANGED commands /\ workN + 1 < work
               /\ left \in {kept, kept + 1}
      <4>1. then = there /\ waitN = wait
        BY <2>4, <2>9, <2>11, <3>2, WorkerAdvances
      <4> HIDE DEF there, kept, then, left, work, wait, workN, waitN
      <4> QED
        BY <2>1, <2>2, <2>3, <3>2, <4>1
    <3>3. CASE /\ commands # <<>> /\ commands' = Tail(commands) /\ UNCHANGED events
               /\ workN < work + 4
      <4>1. then = there - 1 /\ left = kept /\ waitN = wait
        BY <2>5, <2>6, <2>9, <2>11, <3>3, WorkerAdvances
      <4> HIDE DEF there, kept, then, left, work, wait, workN, waitN
      <4> QED
        BY <2>1, <2>2, <2>3, <3>3, <4>1
    <3> QED
      BY <2>11, <3>1, <3>2, <3>3, WorkerAdvances
  <2>12. ASSUME OwnerWaits PROVE Left' < Left
    <3>1. CASE UNCHANGED <<commands, events>> /\ waitN < wait
      <4>1. then = there /\ left = kept /\ workN = work
        BY <2>4, <2>5, <2>10, <2>12, <3>1, OwnerAdvances
      <4> HIDE DEF there, kept, then, left, work, wait, workN, waitN
      <4> QED
        BY <2>1, <2>2, <2>3, <3>1, <4>1
    <3>2. CASE /\ UNCHANGED commands /\ events # <<>> /\ events' = Tail(events)
               /\ waitN <= wait
      <4>1. then = there /\ left = kept - 1 /\ workN = work
        BY <2>4, <2>7, <2>10, <2>12, <3>2, OwnerAdvances
      <4> HIDE DEF there, kept, then, left, work, wait, workN, waitN
      <4> QED
        BY <2>1, <2>2, <2>3, <3>2, <4>1
    <3>3. CASE /\ UNCHANGED events /\ commands' = Append(commands, call)
               /\ wait = 6 /\ waitN <= 1
      <4>1. then = there + 1 /\ left = kept /\ workN = work
        BY <2>5, <2>8, <2>10, <2>12, <3>3, OwnerAdvances
      <4> HIDE DEF there, kept, then, left, work, wait, workN, waitN
      <4> QED
        BY <2>1, <2>2, <2>3, <3>3, <4>1
    <3> QED
      BY <2>12, <3>1, <3>2, <3>3, OwnerAdvances
  <2>13. Interfere => Left' = Left
    BY DEF Interfere, ownerVars, workerVars, Left, WorkerAhead, OwnerAhead
  <2> QED
    BY <2>11, <2>12, <2>13
<1> QED
  BY <1>1, <1>2, TypeCorrect, PTL DEF Spec

-----------------------------------------------------------------------------
(* The binary call is a client that does not wait for ever either.         *)

(* Past the deadline nothing is pending. *)
Expired == cli = "timeout" => owner = "idle"

LEMMA ExpiredNext == Expired /\ [ExecuteNext]_executeVars => Expired'
<1> SUFFICES ASSUME Expired, [ExecuteNext]_executeVars, cli' = "timeout" PROVE owner' = "idle"
  BY DEF Expired
<1>1. CASE Caller
  BY <1>1
  DEF Caller, CheckTarget, StartTransaction, Started, RequestEnds, StreamYields, Sends,
      BorrowReturns, ReportFailed, DeadlinePasses, TimesOut, Encodes, CommitReturns,
      DiscardReturns, WriteReport, Go, Report, DiscardFor, AbandonForTimeout, Cancel
<1>2. CASE RunningWorker
  <2>1. UNCHANGED owner
    BY <1>2
    DEF RunningWorker, Worker, OpenParent, MakeStage, CreateFile, AnnounceReady, CheckAuthority,
        TakeCommand, FindDisconnected, WriteChunk, Flush, AcquireCommit, Publish, CleanUp,
        LastEvent, Exit, ownerVars
  <2> QED
    BY <1>2, <2>1 DEF RunningWorker, cliVars, Expired
<1>3. CASE Interfere /\ UNCHANGED cliVars
  BY <1>3 DEF Interfere, ownerVars, cliVars, Expired
<1>4. CASE Kill
  BY <1>4 DEF Kill, Go
<1>5. CASE UNCHANGED executeVars
  BY <1>5 DEF executeVars, vars, ownerVars, cliVars, Expired
<1> QED
  BY <1>1, <1>2, <1>3, <1>4, <1>5 DEF ExecuteNext

(* What the call can do whatever the worker does, with the deadline that   *)
(* before_deadline sets, and what it can do besides.                       *)
CallAlone ==
  \/ cli \in {"target", "report"}
  \/ cli = "start" /\ owner = "new"
  \/ cli \in {"request", "stream", "timeout", "failed", "encode"} /\ owner = "idle"
  \/ cli \in {"chunk", "finish"} /\ Pending /\ call.op \in {"write", "finish"}
CallCanGo ==
  CallAlone \/ (cli \in {"starting", "commit", "discard"} /\ OwnerCanGo)

(* A call of the CLI that has not ended can go on, or its worker can; and  *)
(* while it downloads it can go on alone, at each place, so that a worker  *)
(* held up by the filesystem never holds the deadline up (artifact.rs      *)
(* stream_to_artifact, before_deadline).                                   *)
THEOREM CallNeverStuck ==
  ExecuteSpec =>
    [] /\ Running => CallCanGo \/ WorkerCanGo
       /\ cli \in {"request", "stream", "chunk", "finish", "timeout"} => CallAlone
<1> DEFINE Unstuck == Pending \/ (owner = "gone" /\ worker \notin {"unspawned", "done"})
                       => OwnerCanGo \/ WorkerCanGo
           Goes == /\ Running => CallCanGo \/ WorkerCanGo
                   /\ cli \in {"request", "stream", "chunk", "finish", "timeout"} => CallAlone
<1>1. TypeOK /\ EInv /\ Expired /\ Unstuck => Goes
  <2> SUFFICES ASSUME TypeOK, EInv, Expired, Unstuck PROVE Goes
    OBVIOUS
  <2>1. cli \in {"request", "stream"} => owner = "idle"
    BY DEF EInv, Places, Streaming
  <2>2. cli \in {"chunk", "finish"} => Pending /\ call.op \in {"write", "finish"}
    BY DEF EInv, Places, Streaming, Finishing, Pending
  <2>3. cli \in {"starting", "commit", "discard"} => Pending
    BY DEF EInv, Places, Starting, Committing, Discarding, Pending
  <2>4. /\ cli = "start" => owner = "new"
        /\ cli \in {"failed", "encode"} => owner = "idle"
    BY DEF EInv, Places, Fresh, Failed, Committing
  <2>5. cli \in {"request", "stream", "chunk", "finish", "timeout"} => CallAlone
    BY <2>1, <2>2 DEF Expired, CallAlone
  <2>6. Running => CallCanGo \/ WorkerCanGo
    BY <2>3, <2>4, <2>5 DEF EInv, ExecuteTypeOK, Running, CallCanGo, CallAlone
  <2> QED
    BY <2>5, <2>6
<1>2. ExecuteSpec => []Expired
  <2>1. ExecuteInit => Expired
    BY DEF ExecuteInit, Expired
  <2> QED
    BY <2>1, ExpiredNext, PTL DEF ExecuteSpec
<1>3. ExecuteSpec => []Unstuck
  BY ExecuteIsTransaction, NobodyStuck, PTL
<1>4. ExecuteSpec => []TypeOK
  BY ExecuteIsTransaction, TypeCorrect, PTL
<1> QED
  BY <1>1, <1>2, <1>3, <1>4, ExecuteInductive, PTL
=============================================================================
