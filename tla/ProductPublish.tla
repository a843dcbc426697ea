---------------------------- MODULE ProductPublish ----------------------------
(***************************************************************************)
(* generate-sdk's replacement of the generated Rust trees                  *)
(* (internal/sdkgen/generate.go, stageProducts to cleanupProducts).        *)
(*                                                                         *)
(* A run stages every product beside its output, checks that what it will  *)
(* replace is its own, renames the accepted trees away, renames the staged *)
(* ones into place and removes the rollback copies; it rolls the outputs   *)
(* back when a step fails.  Every filesystem call may fail, a failing      *)
(* RemoveAll may have removed a part, and the process may be killed        *)
(* between any two calls.  A third party may put a tree of its own under   *)
(* an output name while that name is free.                                 *)
(*                                                                         *)
(* An operator Mutant<X> is X with a plausible slip in the code.  No       *)
(* specification uses it: it replaces X when a property is shown to fail   *)
(* without what the code does.                                             *)
(***************************************************************************)
EXTENDS Integers

CONSTANTS
  N,        (* the number of products; they are 1 .. N in publishing order  *)
  MaxRuns   (* model bound: runs of the command                             *)

ASSUME ProductAssumption == N \in Nat \ {0} /\ MaxRuns \in Nat

Products == 1 .. N

VARIABLES
  (* The filesystem. *)
  output,       (* what is under each output name                           *)
  staging,      (* the staging directory of this run, one for each product  *)
  backup,       (* the rollback copy of this run, one for each product      *)
  (* The process. *)
  step,         (* the function it is in                                    *)
  item,         (* the product it is at                                     *)
  existed,      (* stagedProduct.existed                                    *)
  backupOwned,  (* stagedProduct.backupOwned                                *)
  published,    (* stagedProduct.published                                  *)
  outcome,      (* what the run returns                                     *)
  (* Observation. *)
  run,          (* runs started                                             *)
  before        (* the outputs when this run started                        *)

flags == <<existed, backupOwned, published>>
vars  == <<output, staging, backup, step, item, flags, outcome, run, before>>

Tree(kind, of) == [kind |-> kind, run |-> of]
Trees      == [kind : {"absent", "foreign", "generated", "torn"}, run : 0 .. MaxRuns]
Absent     == Tree("absent", 0)
Foreign    == Tree("foreign", 0)
Generated(of) == Tree("generated", of)
(* What a RemoveAll that fails may leave of a tree. *)
Remains(tree) == {tree, Tree("torn", tree.run)}
Put(place, tree) == [place EXCEPT ![item] = tree]

AtRest == step \in {"new", "returned", "killed"}

ProductTypeOK ==
  /\ output \in [Products -> Trees]
  /\ staging \in [Products -> Trees]
  /\ backup \in [Products -> Trees]
  /\ step \in {"new", "stage", "preflight", "backup", "publish", "remove", "rollback",
               "restore", "cleanup", "returned", "killed"}
  /\ item \in Products
  /\ existed \in [Products -> BOOLEAN]
  /\ backupOwned \in [Products -> BOOLEAN]
  /\ published \in [Products -> BOOLEAN]
  /\ outcome \in {"none", "ok", "refused", "failed", "incomplete", "leftover"}
  /\ run \in 0 .. MaxRuns
  /\ before \in [Products -> Trees]

Init ==
  /\ output \in [Products -> {Absent, Foreign, Generated(0)}]
  /\ staging = [p \in Products |-> Absent]
  /\ backup = [p \in Products |-> Absent]
  /\ step = "new"
  /\ item = 1
  /\ existed = [p \in Products |-> FALSE]
  /\ backupOwned = [p \in Products |-> FALSE]
  /\ published = [p \in Products |-> FALSE]
  /\ outcome = "none"
  /\ run = 0
  /\ before = output

-----------------------------------------------------------------------------
(* A run uses fresh temporary names; what an earlier one left under its    *)
(* own stays there and is not looked at again.                             *)
Begin ==
  /\ AtRest
  /\ run < MaxRuns
  /\ run' = run + 1
  /\ before' = output
  /\ staging' = [p \in Products |-> Absent]
  /\ backup' = [p \in Products |-> Absent]
  /\ step' = "stage"
  /\ item' = 1
  /\ existed' = [p \in Products |-> FALSE]
  /\ backupOwned' = [p \in Products |-> FALSE]
  /\ published' = [p \in Products |-> FALSE]
  /\ outcome' = "none"
  /\ UNCHANGED output

MutantAdvance(here, next) ==
  IF item <= N THEN step' = here /\ item' = item + 1
  ELSE step' = next /\ item' = 1
(* On to the next product, or to the next loop with the first. *)
Advance(here, next) ==
  IF item < N THEN step' = here /\ item' = item + 1
  ELSE step' = next /\ item' = 1

Return(result) == step' = "cleanup" /\ outcome' = result /\ UNCHANGED item

(* stageProducts: the directory, its content and the check of it. *)
Stage ==
  /\ step = "stage"
  /\ \/ /\ staging' = Put(staging, Generated(run))
        /\ step' = "preflight"
        /\ UNCHANGED <<item, outcome>>
     \/ Return("refused") /\ UNCHANGED staging
     \/ Return("refused") /\ staging' = Put(staging, Tree("torn", run))
  /\ UNCHANGED <<output, backup, flags, run, before>>

MutantOwned(tree) == tree.kind # "absent"
(* readOwnedTree: the ownership marker is what decides, and a torn tree    *)
(* may have kept it.                                                       *)
Owned(tree) == tree.kind \in {"generated", "torn"}

(* stageProducts: the look at the output.  Any call may fail. *)
Preflight ==
  /\ step = "preflight"
  /\ \/ /\ output[item] = Absent
        /\ Advance("stage", "backup")
        /\ UNCHANGED <<existed, outcome>>
     \/ /\ Owned(output[item])
        /\ existed' = Put(existed, TRUE)
        /\ Advance("stage", "backup")
        /\ UNCHANGED outcome
     \/ Return("refused") /\ UNCHANGED existed
  /\ UNCHANGED <<output, staging, backup, backupOwned, published, run, before>>

RollBack == step' = "rollback" /\ item' = N /\ outcome' = "failed"

(* publishProducts, first loop. *)
BackUp ==
  /\ step = "backup"
  /\ \/ /\ ~ existed[item]
        /\ Advance("backup", "publish")
        /\ UNCHANGED <<output, backup, backupOwned, outcome>>
     \/ /\ existed[item]
        /\ output[item] # Absent
        /\ output' = Put(output, Absent)
        /\ backup' = Put(backup, output[item])
        /\ backupOwned' = Put(backupOwned, TRUE)
        /\ Advance("backup", "publish")
        /\ UNCHANGED outcome
     \/ existed[item] /\ RollBack /\ UNCHANGED <<output, backup, backupOwned>>
  /\ UNCHANGED <<staging, existed, published, run, before>>

MutantPublishFails == Return("failed")
(* publishProducts, second loop: a directory is not renamed over anything. *)
PublishFails == RollBack
Publish ==
  /\ step = "publish"
  /\ \/ /\ output[item] = Absent
        /\ output' = Put(output, staging[item])
        /\ staging' = Put(staging, Absent)
        /\ published' = Put(published, TRUE)
        /\ Advance("publish", "remove")
        /\ UNCHANGED outcome
     \/ PublishFails /\ UNCHANGED <<output, staging, published>>
  /\ UNCHANGED <<backup, existed, backupOwned, run, before>>

(* publishProducts, third loop: a failure is returned and not rolled back. *)
RemoveCopy ==
  /\ step = "remove"
  /\ \/ /\ backupOwned[item]
        /\ backup' \in {Put(backup, tree) : tree \in Remains(backup[item])}
        /\ Return("leftover")
        /\ UNCHANGED backupOwned
     \/ /\ IF backupOwned[item]
           THEN backup' = Put(backup, Absent) /\ backupOwned' = Put(backupOwned, FALSE)
           ELSE UNCHANGED <<backup, backupOwned>>
        /\ IF item < N THEN Advance("remove", "cleanup") /\ UNCHANGED outcome
           ELSE Return("ok")
  /\ UNCHANGED <<output, staging, existed, published, run, before>>

-----------------------------------------------------------------------------
(* rollbackProducts, from the last product to the first.                   *)
Previous ==
  IF item > 1 THEN step' = "rollback" /\ item' = item - 1
  ELSE step' = "cleanup" /\ UNCHANGED item

(* A published tree that cannot be removed keeps its rollback copy. *)
RemovePublished ==
  /\ step = "rollback"
  /\ \/ /\ ~ published[item]
        /\ step' = "restore"
        /\ UNCHANGED <<output, published, item, outcome>>
     \/ /\ published[item]
        /\ output' = Put(output, Absent)
        /\ published' = Put(published, FALSE)
        /\ step' = "restore"
        /\ UNCHANGED <<item, outcome>>
     \/ /\ published[item]
        /\ output' \in {Put(output, tree) : tree \in Remains(output[item])}
        /\ Previous
        /\ outcome' = "incomplete"
        /\ UNCHANGED published
  /\ UNCHANGED <<staging, backup, existed, backupOwned, run, before>>

(* A copy that cannot be renamed back is kept for manual recovery. *)
Restore ==
  /\ step = "restore"
  /\ Previous
  /\ \/ ~ backupOwned[item] /\ UNCHANGED <<output, backup, backupOwned, outcome>>
     \/ /\ backupOwned[item]
        /\ output[item] = Absent
        /\ output' = Put(output, backup[item])
        /\ backup' = Put(backup, Absent)
        /\ backupOwned' = Put(backupOwned, FALSE)
        /\ UNCHANGED outcome
     \/ /\ backupOwned[item]
        /\ outcome' = "incomplete"
        /\ UNCHANGED <<output, backup, backupOwned>>
  /\ UNCHANGED <<staging, existed, published, run, before>>

MutantCopiesAfterCleanUp == [p \in Products |-> Absent]
(* cleanupProducts removes staging directories (a published one is gone)   *)
(* and ignores errors; rollback copies are not touched.                    *)
CopiesAfterCleanUp == backup
CleanUp ==
  /\ step = "cleanup"
  /\ step' = "returned"
  /\ staging' \in {rest \in [Products -> {Absent} \cup {staging[p] : p \in Products}] :
                     \A p \in Products : rest[p] \in {Absent, staging[p]}}
  /\ backup' = CopiesAfterCleanUp
  /\ UNCHANGED <<output, item, flags, outcome, run, before>>

Command ==
  \/ Begin \/ Stage \/ Preflight \/ BackUp \/ Publish \/ RemoveCopy
  \/ RemovePublished \/ Restore \/ CleanUp

Kill ==
  /\ ~ AtRest
  /\ step' = "killed"
  /\ UNCHANGED <<output, staging, backup, item, flags, outcome, run, before>>

(* A third party's tree appears or goes; it never touches ours. *)
Interfere ==
  /\ \E p \in Products :
       \/ output[p] = Absent /\ output' = [output EXCEPT ![p] = Foreign]
       \/ output[p] = Foreign /\ output' = [output EXCEPT ![p] = Absent]
  /\ UNCHANGED <<staging, backup, step, item, flags, outcome, run, before>>

Next == Command \/ Kill \/ Interfere

Spec == Init /\ [][Next]_vars

-----------------------------------------------------------------------------
Theirs == {Absent, Foreign}
AsBefore(p) == output[p] = before[p] \/ {output[p], before[p]} \subseteq Theirs
AllNew      == \A p \in Products : output[p] = Generated(run)

(* The pair is replaced as one: a run that returns has replaced every tree *)
(* or none of them, and says which, unless it reports that its roll back   *)
(* failed too.  "leftover" is the error of a rollback copy that stayed.    *)
PairReplaced ==
  step = "returned" =>
    /\ outcome \in {"ok", "leftover"} => AllNew
    /\ outcome \in {"refused", "failed"} => \A p \in Products : AsBefore(p)

(* No accepted tree is lost: at every moment, also when the process is     *)
(* killed there or when its roll back fails, each tree that the run found  *)
(* is whole under its output name or in its rollback copy, until the new   *)
(* trees are all in place.                                                 *)
AcceptedKept ==
  \/ \A p \in Products :
       before[p] \in Theirs \/ before[p] \in {output[p], backup[p]}
  \/ AllNew

(* The command replaces only what carries its ownership marker: another's  *)
(* tree is never moved, removed or overwritten, in a roll back neither.    *)
ForeignUntouched ==
  [][Command => \A p \in Products : output[p] = Foreign => output'[p] = Foreign]_vars
=============================================================================
