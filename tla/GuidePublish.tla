----------------------------- MODULE GuidePublish -----------------------------
(***************************************************************************)
(* The guide refresh (internal/guide/sync.go) and the replacement of the   *)
(* canonical OpenAPI sources it ends with (internal/guide/publish.go).     *)
(*                                                                         *)
(* The output directory is shared: a refresh owns the managed names, which *)
(* the ownership marker stands for, and the bundle that another command    *)
(* derived from them.  It moves what is there into a backup directory,     *)
(* renames the staged entries into place and removes the bundle, which is  *)
(* stale from then on; when a step fails it moves everything back.  Every  *)
(* filesystem call may fail and the process may be killed at any moment.   *)
(* Nobody else writes below the output directory meanwhile: the code       *)
(* relies on it (a rename replaces a file that somebody else put there).   *)
(*                                                                         *)
(* An operator Mutant<X> is X with a plausible slip in the code.  No       *)
(* specification uses it: it replaces X when a property is shown to fail   *)
(* without what the code does.                                             *)
(***************************************************************************)
EXTENDS Integers

CONSTANTS
  N,        (* managed names apart from the marker: 1 .. N in their order   *)
  Files,    (* those of them that are a file and not a directory            *)
  MaxRuns   (* model bound: runs of the command                             *)

ASSUME GuideAssumption ==
  N \in Nat \ {0} /\ Files \subseteq 1 .. N /\ MaxRuns \in Nat

Names == 1 .. N

VARIABLES
  (* The filesystem. *)
  output,         (* the entry under each managed name                      *)
  marker,         (* the ownership marker in the output directory           *)
  bundle,         (* whether generated/openapi.bundle.yaml is there         *)
  staged,         (* the managed names that the staging directory holds     *)
  backup,         (* what this run's backup directory holds                 *)
  (* The process. *)
  step,           (* where it is                                            *)
  item,           (* the managed name it is at                              *)
  markerCreated,  (* removeCreatedMarker                                    *)
  movedOld,       (* the names it moved into the backup directory           *)
  movedNew,       (* the names it moved out of the staging directory        *)
  outcome,        (* what the run returns                                   *)
  (* Observation. *)
  run,            (* runs started                                           *)
  selected,       (* the names this run generated                           *)
  before          (* the output directory when this run started             *)

disk    == <<output, marker, bundle, staged, backup>>
process == <<step, item, markerCreated, movedOld, movedNew, outcome>>
ghosts  == <<run, selected, before>>
vars    == <<disk, process, ghosts>>

Entry(kind, of) == [kind |-> kind, run |-> of]
Entries   == [kind : {"absent", "user", "whole", "torn"}, run : 0 .. MaxRuns]
Absent    == Entry("absent", 0)
Whole(of) == Entry("whole", of)
Remains(entry) == {entry, Entry("torn", entry.run)}

AtRest == step \in {"new", "returned", "killed"}

GuideTypeOK ==
  /\ output \in [Names -> Entries]
  /\ marker \in {"absent", "partial", "valid"}
  /\ bundle \in BOOLEAN
  /\ staged \subseteq Names
  /\ backup \in [Names -> Entries]
  /\ step \in {"new", "prepare", "check", "mark", "reserve", "backup", "publish",
               "invalidate", "unpublish", "restore", "cleanup", "unmark", "returned",
               "killed"}
  /\ item \in Names
  /\ markerCreated \in BOOLEAN
  /\ movedOld \subseteq Names
  /\ movedNew \subseteq Names
  /\ outcome \in {"none", "ok", "refused", "failed", "unmarked", "incomplete"}
  /\ run \in 0 .. MaxRuns
  /\ selected \subseteq Names
  /\ before \in [output : [Names -> Entries], marker : {"absent", "partial", "valid"},
                 bundle : BOOLEAN]

Directory == [output |-> output, marker |-> marker, bundle |-> bundle]

(* An output directory is a refresh's, or somebody's own or empty.         *)
Init ==
  /\ \/ output \in [Names -> {Absent, Whole(0)}] /\ marker = "valid"
     \/ output \in [Names -> {Absent, Entry("user", 0)}] /\ marker = "absent"
  /\ bundle \in BOOLEAN
  /\ staged = {}
  /\ backup = [n \in Names |-> Absent]
  /\ step = "new"
  /\ item = 1
  /\ markerCreated = FALSE
  /\ movedOld = {}
  /\ movedNew = {}
  /\ outcome = "none"
  /\ run = 0
  /\ selected = {}
  /\ before = Directory

-----------------------------------------------------------------------------
(* A run's staging and backup directories have fresh names; what an        *)
(* earlier run left stays under the names it had.                          *)
Begin ==
  /\ AtRest
  /\ run < MaxRuns
  /\ run' = run + 1
  /\ before' = Directory
  /\ staged' = {}
  /\ selected' = {}
  /\ backup' = [n \in Names |-> Absent]
  /\ step' = "prepare"
  /\ item' = 1
  /\ markerCreated' = FALSE
  /\ movedOld' = {}
  /\ movedNew' = {}
  /\ outcome' = "none"
  /\ UNCHANGED <<output, marker, bundle>>

Return(result) == step' = "returned" /\ outcome' = result /\ UNCHANGED item

(* syncWithDependencies up to the last look at the context: acquire,       *)
(* generate into the staging directory, validate, compare.                 *)
Prepare ==
  /\ step = "prepare"
  /\ \/ /\ staged' \in SUBSET Names \ {{}}
        /\ selected' = staged'
        /\ step' = "check"
        /\ UNCHANGED <<item, outcome>>
     \/ Return("refused") /\ UNCHANGED <<staged, selected>>
  /\ UNCHANGED <<output, marker, bundle, backup, markerCreated, movedOld, movedNew,
                 run, before>>

(* existingManagedOutputs finds something. *)
Occupied == bundle \/ marker # "absent" \/ \E n \in Names : output[n] # Absent

(* publishGenerated's checks of the output directory. *)
MayReplace == Occupied => marker = "valid"
Check ==
  /\ step = "check"
  /\ \/ MayReplace /\ step' = "mark" /\ UNCHANGED <<item, outcome>>
     \/ Return("refused")
  /\ UNCHANGED <<disk, markerCreated, movedOld, movedNew, ghosts>>

(* The marker is there before any name is.  A failing WriteFile may leave  *)
(* a part of it, which nothing removes.                                    *)
Mark ==
  /\ step = "mark"
  /\ \/ /\ marker # "absent"
        /\ step' = "reserve"
        /\ UNCHANGED <<marker, markerCreated, item, outcome>>
     \/ /\ marker = "absent"
        /\ marker' = "valid"
        /\ markerCreated' = TRUE
        /\ step' = "reserve"
        /\ UNCHANGED <<item, outcome>>
     \/ /\ marker = "absent"
        /\ marker' \in {"absent", "partial"}
        /\ Return("unmarked")
        /\ UNCHANGED markerCreated
  /\ UNCHANGED <<output, bundle, staged, backup, movedOld, movedNew, ghosts>>

(* The deferred functions run: the backup directory goes, then the marker. *)
Leave(result) == step' = "cleanup" /\ outcome' = result /\ UNCHANGED item

MutantAdvance(here, next) ==
  IF item <= N THEN step' = here /\ item' = item + 1
  ELSE step' = next /\ item' = 1
(* On to the next name, or to the next loop with the first. *)
Advance(here, next) ==
  IF item < N THEN step' = here /\ item' = item + 1
  ELSE step' = next /\ item' = 1

RollBack == step' = "unpublish" /\ item' = N /\ outcome' = "failed"

Reserve ==
  /\ step = "reserve"
  /\ \/ step' = "backup" /\ UNCHANGED <<item, outcome>>
     \/ Leave("failed")
  /\ UNCHANGED <<disk, markerCreated, movedOld, movedNew, ghosts>>

(* The first loop of publishGenerated. *)
BackUp ==
  /\ step = "backup"
  /\ \/ /\ output[item] = Absent
        /\ Advance("backup", "publish")
        /\ UNCHANGED <<output, backup, movedOld, outcome>>
     \/ /\ output[item] # Absent
        /\ backup' = [backup EXCEPT ![item] = output[item]]
        /\ output' = [output EXCEPT ![item] = Absent]
        /\ movedOld' = movedOld \cup {item}
        /\ Advance("backup", "publish")
        /\ UNCHANGED outcome
     \/ RollBack /\ UNCHANGED <<output, backup, movedOld>>
  /\ UNCHANGED <<marker, bundle, staged, markerCreated, movedNew, ghosts>>

MutantPublishFails == Leave("failed")
(* The second loop.  Nothing is under the name: the first has moved it.    *)
PublishFails == RollBack
Publish ==
  /\ step = "publish"
  /\ \/ /\ item \notin staged
        /\ Advance("publish", "invalidate")
        /\ UNCHANGED <<output, staged, movedNew, outcome>>
     \/ /\ item \in staged
        /\ output' = [output EXCEPT ![item] = Whole(run)]
        /\ staged' = staged \ {item}
        /\ movedNew' = movedNew \cup {item}
        /\ Advance("publish", "invalidate")
        /\ UNCHANGED outcome
     \/ PublishFails /\ UNCHANGED <<output, staged, movedNew>>
  /\ UNCHANGED <<marker, bundle, backup, markerCreated, movedOld, ghosts>>

(* The bundle of the replaced sources goes last. *)
Invalidate ==
  /\ step = "invalidate"
  /\ \/ /\ bundle' = FALSE
        /\ Leave("ok")
        /\ markerCreated' = FALSE
     \/ bundle /\ RollBack /\ UNCHANGED <<bundle, markerCreated>>
  /\ UNCHANGED <<output, marker, staged, backup, movedOld, movedNew, ghosts>>

-----------------------------------------------------------------------------
(* rollback: the new entries go, then the old ones come back, each in the  *)
(* reverse of the order they were moved in; errors are collected.          *)
Previous(here, next) ==
  IF item > 1 THEN step' = here /\ item' = item - 1
  ELSE step' = next /\ item' = N

Unpublish ==
  /\ step = "unpublish"
  /\ Previous("unpublish", "restore")
  /\ \/ item \notin movedNew /\ UNCHANGED <<output, outcome>>
     \/ /\ item \in movedNew
        /\ output' = [output EXCEPT ![item] = Absent]
        /\ UNCHANGED outcome
     \/ /\ item \in movedNew
        /\ output' \in {[output EXCEPT ![item] = rest] : rest \in Remains(output[item])}
        /\ outcome' = "incomplete"
  /\ UNCHANGED <<marker, bundle, staged, backup, markerCreated, movedOld, movedNew,
                 ghosts>>

(* A file is renamed over a file that could not be removed; a directory is *)
(* not.                                                                    *)
Restore ==
  /\ step = "restore"
  /\ Previous("restore", "cleanup")
  /\ \/ item \notin movedOld /\ UNCHANGED <<output, backup, outcome>>
     \/ /\ item \in movedOld
        /\ output[item] = Absent \/ item \in Files
        /\ output' = [output EXCEPT ![item] = backup[item]]
        /\ backup' = [backup EXCEPT ![item] = Absent]
        /\ UNCHANGED outcome
     \/ /\ item \in movedOld
        /\ outcome' = "incomplete"
        /\ UNCHANGED <<output, backup>>
  /\ UNCHANGED <<marker, bundle, staged, markerCreated, movedOld, movedNew, ghosts>>

MutantMayDropBackup == TRUE
(* cleanupBackup: after success or a complete roll back.  The errors of    *)
(* the deferred RemoveAll are ignored.                                     *)
MayDropBackup == outcome # "incomplete"
CleanUp ==
  /\ step = "cleanup"
  /\ step' = "unmark"
  /\ \/ MayDropBackup /\ backup' = [n \in Names |-> Absent]
     \/ UNCHANGED backup
  /\ UNCHANGED <<output, marker, bundle, staged, item, markerCreated, movedOld,
                 movedNew, outcome, ghosts>>

MutantKeepsMarker == ~ markerCreated
(* removeCreatedMarker: a marker that this run made goes with its failure, *)
(* unless the roll back was incomplete.  The error of Remove is ignored.   *)
KeepsMarker == ~ markerCreated \/ outcome = "incomplete"
Unmark ==
  /\ step = "unmark"
  /\ step' = "returned"
  /\ \/ ~ KeepsMarker /\ marker' = "absent"
     \/ UNCHANGED marker
  /\ UNCHANGED <<output, bundle, staged, backup, item, markerCreated, movedOld,
                 movedNew, outcome, ghosts>>

Sync ==
  \/ Begin \/ Prepare \/ Check \/ Mark \/ Reserve \/ BackUp \/ Publish \/ Invalidate
  \/ Unpublish \/ Restore \/ CleanUp \/ Unmark

(* A process killed in a RemoveAll leaves what a failing one leaves, and   *)
(* one killed in a WriteFile leaves a part of the marker.                  *)
Kill ==
  /\ ~ AtRest
  /\ step' = "killed"
  /\ UNCHANGED <<disk, item, markerCreated, movedOld, movedNew, outcome, ghosts>>

Next == Sync \/ Kill

Spec == Init /\ [][Next]_vars

-----------------------------------------------------------------------------
Theirs(n) == before.output[n].kind \in {"absent", "user"}

(* The sources and the bundle change together: a refresh that returns has  *)
(* put all of its entries in place, removed every other managed one and    *)
(* the bundle, or left all as it found it, unless it reports that its roll *)
(* back is incomplete.  The marker differs from what it found only after a *)
(* failed attempt to write or to remove it.                                *)
SourcesReplaced ==
  step = "returned" =>
    /\ outcome = "ok" =>
         /\ output = [n \in Names |-> IF n \in selected THEN Whole(run) ELSE Absent]
         /\ marker = "valid" /\ ~ bundle
    /\ outcome \in {"refused", "failed", "unmarked"} =>
         /\ output = before.output /\ bundle = before.bundle
         /\ marker # before.marker =>
              /\ before.marker = "absent" /\ ~ bundle
              /\ marker = IF outcome = "unmarked" THEN "partial" ELSE "valid"

(* The next refresh is not locked out: at every moment, also when the      *)
(* process is killed there, the marker stands beside every entry that a    *)
(* refresh has moved into the output directory or moved out of it.         *)
MarkerGuards ==
  /\ (\E n \in Names : output[n].kind \in {"whole", "torn"}) => marker = "valid"
  /\ output # before.output => marker = "valid"

(* No accepted source is lost: at every moment each entry that the run     *)
(* found is whole under its name or in the backup directory, until the new *)
(* sources are all in place and the bundle of the old ones is gone.  What  *)
(* a user put there without the marker stays where it is.                  *)
SourcesKept ==
  /\ \A n \in Names : before.output[n].kind = "user" => output[n] = before.output[n]
  /\ \/ \A n \in Names :
          Theirs(n) \/ before.output[n] \in {output[n], backup[n]}
     \/ /\ output = [n \in Names |-> IF n \in selected THEN Whole(run) ELSE Absent]
        /\ ~ bundle
=============================================================================
