--------------------------- MODULE ArtifactExecute ---------------------------
(***************************************************************************)
(* A binary call of the opendart CLI (opendart-cli/src/artifact.rs): the   *)
(* one client of the artifact transaction.  execute and stream_to_artifact *)
(* decide which transaction call comes next and what the process reports;  *)
(* every step of theirs that touches the transaction is a step of          *)
(* ArtifactTransaction.  The deadline, the network and the encoder are     *)
(* nondeterministic; the process may be killed at any moment, and when it  *)
(* exits the detached worker dies with it.                                 *)
(*                                                                         *)
(* An operator Mutant<X> is X with a plausible slip in the code.  No       *)
(* specification uses it: it replaces X when a property is shown to fail   *)
(* without what the code does.                                             *)
(***************************************************************************)
EXTENDS ArtifactTransactionProperties

VARIABLES
  cli,     (* where the call is                                             *)
  reply,   (* the kind of the reply that is streamed                        *)
  primary, (* the outcome a discard must not displace                       *)
  report   (* what the process reports: [primary, cleanup, bytes, exit]     *)

cliVars     == <<cli, reply, primary, report>>
executeVars == <<vars, cliVars>>

Replies   == {"archive", "unrecognized"}
Primaries == Failures \cup Replies \cup {"none", "status", "timeout", "client", "stream",
                                         "encode"}
Reports   == [primary : Primaries, cleanup : Cleanups, bytes : Nat, exit : {0, 1}]

ExecuteTypeOK ==
  /\ cli \in {"target", "start", "starting", "request", "stream", "chunk", "finish",
              "timeout", "failed", "encode", "commit", "discard", "report",
              "exited", "killed"}
  /\ reply \in Replies \cup {"none"}
  /\ primary \in Primaries
  /\ report \in Reports

ExecuteInit ==
  /\ Init
  /\ cli = "target"
  /\ reply = "none"
  /\ primary = "none"
  /\ report = [primary |-> "none", cleanup |-> "none", bytes |-> 0, exit |-> 0]

-----------------------------------------------------------------------------
(* Steps of the call.                                                      *)

MutantExitCode(name) == IF name \in Replies THEN IF name = "archive" THEN 0 ELSE 2 ELSE 1
(* The classes of exit codes a binary call ends with. *)
ExitCode(name) == IF name = "archive" THEN 0 ELSE 1

Report(name, cleanup, size) ==
  /\ cli' = "report"
  /\ report' = [primary |-> name, cleanup |-> cleanup, bytes |-> size,
                exit |-> ExitCode(name)]
  /\ UNCHANGED <<reply, primary>>

Go(place) == cli' = place /\ UNCHANGED <<reply, primary, report>>

(* The outcome is known and the staging state is to be discarded first. *)
DiscardFor(name) ==
  /\ Discard
  /\ cli' = "discard"
  /\ primary' = name
  /\ UNCHANGED <<reply, report>>

(* A timeout does not wait for the worker. *)
AbandonForTimeout == Abandon /\ Report("timeout", "pending", 0)

(* ArtifactTarget::from_matches, long before the worker looks again. *)
CheckTarget ==
  /\ cli = "target"
  /\ \/ destination.kind = "absent" /\ Go("start")
     \/ destination.kind # "absent" /\ Report("DestinationExists", "none", 0)
     \/ \E failure \in {"DestinationMetadataUnavailable", "ParentNotDirectory",
                        "ParentUnavailable"} : Report(failure, "none", 0)
  /\ UNCHANGED vars

StartTransaction ==
  /\ cli = "start"
  /\ \/ Start /\ Go("starting")
     \/ SpawnFails /\ Report("WorkerUnavailable", "none", 0)

Started ==
  /\ cli = "starting"
  /\ Receive
  /\ IF owner' = "idle" THEN Go("request")
     ELSE Report(result'.error, result'.cleanup, 0)

(* client.execute_binary: a failure, a source status or a body to stream. *)
RequestEnds ==
  /\ cli = "request"
  /\ \/ AbandonForTimeout
     \/ DiscardFor("client")
     \/ DiscardFor("status")
     \/ /\ cli' = "stream"
        /\ reply' \in Replies
        /\ UNCHANGED <<vars, primary, report>>

(* poll_next of the body stream: a chunk, its end or an error. *)
StreamYields ==
  /\ cli = "stream"
  /\ \/ \E size \in ChunkSizes : Enqueue(size) /\ Go("chunk")
     \/ Finish /\ Go("finish")
     \/ AbandonForTimeout
     \/ DiscardFor("stream")

(* A pending call makes progress. *)
Sends ==
  /\ cli \in {"chunk", "finish", "commit", "discard"}
  /\ \/ Send /\ Go(IF cli = "chunk" THEN "stream" ELSE cli)
     \/ SendRefused /\ Go(cli)
     \/ SkipEvent /\ Go(cli)

(* enqueue or finish returns; an error drops the transaction. *)
BorrowReturns ==
  /\ cli \in {"chunk", "finish"}
  /\ Receive
  /\ Go(IF result'.error = "none" THEN "encode" ELSE "failed")

ReportFailed ==
  /\ cli = "failed"
  /\ Drop
  /\ Report(result.error, result.cleanup, 0)

MutantDeadlinePasses ==
  /\ cli = "chunk"
  /\ Cancel
  /\ Go("timeout")
(* before_deadline: the call's future is dropped, then staged.abandon(). *)
DeadlinePasses ==
  /\ cli \in {"chunk", "finish"}
  /\ Cancel
  /\ Go("timeout")
TimesOut == cli = "timeout" /\ AbandonForTimeout

(* Both reports, which name the byte count that finish returned, are       *)
(* encoded before the commit.                                              *)
Encodes ==
  /\ cli = "encode"
  /\ \/ Commit /\ Go("commit")
     \/ DiscardFor("encode")

MutantCommitReported == reply
CommitReported == IF result'.error = "none" THEN reply ELSE result'.error
CommitReturns ==
  /\ cli = "commit"
  /\ Receive
  /\ Report(CommitReported, result'.cleanup,
            IF result'.error = "none" THEN result.bytes ELSE 0)

MutantDiscardCleanup == "none"
DiscardCleanup == result'.cleanup
DiscardReturns ==
  /\ cli = "discard"
  /\ Receive
  /\ \/ Report(primary, DiscardCleanup, 0)
     \/ primary = "status" /\ Report("encode", DiscardCleanup, 0)

(* The report goes to stdout and the process exits; when the write fails   *)
(* the exit code is 1 and nothing that was published is taken back.        *)
WriteReport ==
  /\ cli = "report"
  /\ cli' = "exited"
  /\ \/ UNCHANGED report
     \/ report' = [report EXCEPT !.exit = 1]
  /\ UNCHANGED <<vars, reply, primary>>

Running == cli \notin {"exited", "killed"}

Kill ==
  /\ Running
  /\ Go("killed")
  /\ UNCHANGED vars

Caller ==
  \/ CheckTarget \/ StartTransaction \/ Started \/ RequestEnds \/ StreamYields
  \/ Sends \/ BorrowReturns \/ ReportFailed \/ DeadlinePasses \/ TimesOut
  \/ Encodes \/ CommitReturns \/ DiscardReturns \/ WriteReport

RunningWorker == Running /\ Worker /\ UNCHANGED cliVars

ExecuteNext == Caller \/ RunningWorker \/ (Interfere /\ UNCHANGED cliVars) \/ Kill

ExecuteSpec == ExecuteInit /\ [][ExecuteNext]_executeVars

(* The executor polls the call and the deadline fires; the filesystem may  *)
(* stall for ever.                                                         *)
PromptSpec == ExecuteSpec /\ WF_executeVars(Caller)

-----------------------------------------------------------------------------
Reported == cli \in {"report", "exited"}

(* What the process reports is what is under the destination name: an      *)
(* archive or unrecognized reply names a published artifact of that many   *)
(* bytes, every other outcome means that this call published nothing and   *)
(* never will, and only a published archive exits with 0.                  *)
ReportMatchesDestination ==
  Reported =>
    /\ Published <=> report.primary \in Replies
    /\ Published => report.bytes = destination.bytes
    /\ report.exit = 0 => report.primary = "archive"
    /\ authority \in {"ACTIVE", "COMMITTING"} =>
         worker \in {"unspawned", "exiting", "done"}

(* A report without a cleanup object leaves no private staging directory   *)
(* behind, and cleanup_pending is what a timeout and nothing else reports. *)
CleanupTold ==
  Reported =>
    /\ report.cleanup = "none" => stage # "present"
    /\ report.cleanup = "pending" <=> report.primary = "timeout"

(* The download is bounded by the deadline even when the filesystem        *)
(* stalls: a pending enqueue or finish never holds the call up for ever.   *)
DownloadEnds ==
  cli \in {"request", "stream", "chunk", "finish", "timeout"} ~>
    cli \in {"failed", "encode", "discard", "report", "exited", "killed"}

(* When every filesystem call of the worker returns, every call ends.      *)
CallEnds == WF_executeVars(RunningWorker) => <>(cli \in {"exited", "killed"})
=============================================================================
