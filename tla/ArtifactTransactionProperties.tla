-------------------- MODULE ArtifactTransactionProperties --------------------
(***************************************************************************)
(* What the artifact transaction promises to any client of its interface. *)
(***************************************************************************)
EXTENDS ArtifactTransaction

Published == destination.kind = "artifact"

(* What is under the destination name is the whole artifact: every byte of *)
(* every chunk whose enqueue succeeded, a flushed file, within the budget. *)
(* It holds in every state, so also in the one a crash leaves behind.      *)
PublishedWhole ==
  Published => /\ destination.bytes = offered
               /\ destination.bytes = bytes
               /\ destination.bytes <= Limit
               /\ finished

(* A revoked transaction has published nothing, whatever the worker was    *)
(* doing when the owner revoked.                                           *)
RevokedUnpublished == authority = "CANCELLED" => ~ Published

(* abandon's debug_assert (an idle owner still holds the authority it      *)
(* revokes) and mark_committed's (nothing intervened since begin_commit).  *)
AssertionsHold ==
  /\ owner = "idle" => authority = "ACTIVE"
  /\ worker = "report" /\ ending.type = "Committed" => authority = "COMMITTING"

(* Nobody's entry is overwritten and a published artifact stays: the entry *)
(* changes only from or to an absent one, a revoked authority stays        *)
(* revoked, and the step that publishes is the one commit takes under it.  *)
EntryStep ==
  /\ destination' # destination => \/ destination = Absent
                                   \/ destination = Foreign /\ destination' = Absent
  /\ authority = "CANCELLED" => authority' = "CANCELLED"
  /\ ~ Published /\ Published' => authority = "COMMITTING"
NoClobber == [][EntryStep]_vars

(* A call that waits for the worker returns, and a worker whose owner has  *)
(* gone ends.                                                              *)
CallsReturn ==
  owner \in {"sending", "waiting", "stopped"} ~> owner \in {"idle", "gone"}
WorkerEnds ==
  owner = "gone" /\ worker # "unspawned" ~> worker = "done"
(* The transaction keeps the published contract of the destination name:   *)
(* each of its steps is a step of AtomicPublication or none.               *)
Permission ==
  IF authority = "ACTIVE" THEN "held"
  ELSE IF authority = "CANCELLED" THEN "revoked" ELSE "exercised"
Contract == INSTANCE AtomicPublication WITH
  body <- offered, authority <- Permission, destination <- destination
IsAtomicPublication == Contract!Spec
=============================================================================
