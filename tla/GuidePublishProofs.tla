-------------------------- MODULE GuidePublishProofs --------------------------
(***************************************************************************)
(* For any number of managed names and of refreshes: the types of the      *)
(* replacement of the canonical sources, and its three invariants.         *)
(*                                                                         *)
(* None of them is inductive.  Custody says where each entry is while the  *)
(* loops move it, Progress how far a loop has come, Marked and Report what *)
(* the marker and the result stand for until the run returns.              *)
(***************************************************************************)
EXTENDS GuidePublish, TLAPS

Checks == {"prepare", "check", "mark", "reserve"}
Moves  == {"backup", "publish", "invalidate"}
Undoes == {"unpublish", "restore"}
Loops  == Moves \cup Undoes
Ends   == {"cleanup", "unmark"}

Replaced == output = [n \in Names |-> IF n \in selected THEN Whole(run) ELSE Absent]
Left     == output = before.output /\ bundle = before.bundle
Empty    == ~ before.bundle /\ \A n \in Names : before.output[n] = Absent

(* Before the loops nothing is moved. *)
Untouched ==
  step \in Checks =>
    /\ Left /\ movedOld = {} /\ movedNew = {} /\ outcome = "none" /\ item = 1
    /\ step # "prepare" => staged = selected
    /\ step # "reserve" => marker = before.marker /\ ~ markerCreated
    /\ step = "mark" => MayReplace

(* From then on the marker is there; who made it found nothing. *)
Marked ==
  step \in {"reserve"} \cup Loops \cup Ends =>
    /\ marker = "valid"
    /\ \A n \in Names : before.output[n].kind # "user"
    /\ markerCreated => before.marker = "absent" /\ Empty
    /\ ~ markerCreated /\ outcome # "ok" => before.marker = "valid"

(* Where the entry is that was found under a name. *)
CustodyOf(p) ==
  /\ p \in movedOld =>
       /\ before.output[p] # Absent
       /\ backup[p] = before.output[p] \/ (step = "restore" /\ p > item /\ output[p] = before.output[p])
  /\ p \notin movedOld /\ p \notin movedNew => output[p] = before.output[p]
  /\ p \notin movedOld /\ p \in movedNew => before.output[p] = Absent
Custody == step \in Loops => bundle = before.bundle /\ \A p \in Names : CustodyOf(p)

(* How far a loop has come. *)
BackedUp(p) ==
  /\ p \notin movedNew
  /\ p \in movedOld => output[p] = Absent
  /\ p >= item => p \notin movedOld
  /\ p < item => p \in movedOld \/ before.output[p] = Absent
Published(p) ==
  /\ p \in movedOld \/ before.output[p] = Absent
  /\ p \in movedNew => output[p] = Whole(run)
  /\ p \notin movedNew => output[p] = Absent
Unpublished(p) == output[p] = IF p \in movedOld THEN Absent ELSE before.output[p]

Progress ==
  /\ step = "backup" => staged = selected /\ \A p \in Names : BackedUp(p)
  /\ step = "publish" => \A p \in Names :
       /\ Published(p)
       /\ p < item => (p \in movedNew <=> p \in selected)
       /\ p >= item => p \notin movedNew /\ (p \in staged <=> p \in selected)
  /\ step = "invalidate" => \A p \in Names : Published(p) /\ (p \in movedNew <=> p \in selected)
  /\ step = "unpublish" /\ outcome = "failed" => \A p \in Names :
       p > item \/ p \notin movedNew => Unpublished(p)
  /\ step = "restore" /\ outcome = "failed" => \A p \in Names :
       IF p > item THEN output[p] = before.output[p] ELSE Unpublished(p)

(* What the result stands for. *)
Report ==
  /\ step \in Moves => outcome = "none"
  /\ step \in Undoes => outcome \in {"failed", "incomplete"}
  /\ step \in Ends =>
       /\ outcome \in {"ok", "failed", "incomplete"}
       /\ outcome = "ok" => Replaced /\ ~ bundle /\ ~ markerCreated
       /\ outcome = "failed" => Left

NoUsers == \A n \in Names : output[n].kind = "user" => marker = "absent"
Kept    == step \notin Checks \cup Loops => SourcesKept

IInv ==
  /\ GuideTypeOK
  /\ Untouched /\ Marked /\ Custody /\ Progress /\ Report
  /\ NoUsers /\ MarkerGuards /\ Kept /\ SourcesReplaced

-----------------------------------------------------------------------------
LEMMA EntriesTyped ==
  /\ Absent \in Entries /\ Absent.kind = "absent"
  /\ \A of \in 0 .. MaxRuns : /\ Entry("user", of) \in Entries /\ Whole(of) \in Entries
                              /\ Whole(of).kind = "whole"
  /\ \A entry \in Entries : \A rest \in Remains(entry) :
       rest \in Entries /\ rest.kind \in {entry.kind, "torn"}
  BY GuideAssumption DEF Entries, Absent, Entry, Whole, Remains

LEMMA EntriesAre ==
  ASSUME NEW entry \in Entries
  PROVE  /\ entry.kind \in {"absent", "user", "whole", "torn"}
  BY DEF Entries

(* While nothing is moved or custody is kept, no source is lost. *)
LEMMA IInvKeeps == IInv => SourcesKept
<1> SUFFICES ASSUME IInv PROVE SourcesKept
  OBVIOUS
<1> USE DEF IInv
<1>1. CASE step \in Checks
  BY <1>1 DEF Untouched, Left, SourcesKept
<1>2. CASE step \in Loops
  <2>1. \A n \in Names : before.output[n].kind # "user"
    BY <1>2 DEF Marked
  <2>2. \A n \in Names : Theirs(n) \/ before.output[n] \in {output[n], backup[n]}
    BY <1>2, EntriesTyped DEF Custody, CustodyOf, Theirs
  <2> QED
    BY <2>1, <2>2 DEF SourcesKept
<1> QED
  BY <1>1, <1>2 DEF Kept

LEMMA InitEstablishes == Init => IInv
<1> SUFFICES ASSUME Init PROVE IInv
  OBVIOUS
<1> USE DEF Init
<1>1. /\ Absent \in Entries /\ Whole(0) \in Entries /\ Entry("user", 0) \in Entries
      /\ Absent.kind = "absent" /\ Whole(0).kind = "whole" /\ Entry("user", 0).kind = "user"
  BY GuideAssumption, EntriesTyped DEF Entry
<1>2. output \in [Names -> Entries] /\ marker \in {"absent", "partial", "valid"}
  BY <1>1
<1>3. GuideTypeOK
  <2>1. 1 \in Names /\ 0 \in 0 .. MaxRuns
    BY GuideAssumption DEF Names
  <2>2. before \in [output : [Names -> Entries], marker : {"absent", "partial", "valid"},
                    bundle : BOOLEAN]
    BY <1>2 DEF Directory
  <2> QED
    BY <1>1, <1>2, <2>1, <2>2 DEF GuideTypeOK
<1>4. NoUsers /\ MarkerGuards
  BY <1>1 DEF NoUsers, MarkerGuards, Directory
<1>5. Kept /\ SourcesReplaced
  BY DEF Kept, SourcesKept, SourcesReplaced, Directory
<1>6. Untouched /\ Marked /\ Custody /\ Progress /\ Report
  BY DEF Untouched, Marked, Custody, Progress, Report, Checks, Moves, Undoes, Loops, Ends
<1> QED
  BY <1>3, <1>4, <1>5, <1>6 DEF IInv

-----------------------------------------------------------------------------
LEMMA BeginKeeps == IInv /\ Begin => IInv'
<1> SUFFICES ASSUME IInv, Begin PROVE IInv'
  OBVIOUS
<1> USE DEF IInv, Begin
<1>1. Absent \in Entries
  BY EntriesTyped
<1>2. GuideTypeOK'
  <2>1. 1 \in Names /\ run' \in 0 .. MaxRuns
    BY GuideAssumption DEF Names, GuideTypeOK
  <2>2. before' \in [output : [Names -> Entries], marker : {"absent", "partial", "valid"},
                     bundle : BOOLEAN]
    BY DEF Directory, GuideTypeOK
  <2> QED
    BY <1>1, <2>1, <2>2 DEF GuideTypeOK
<1>3. NoUsers' /\ MarkerGuards' /\ SourcesReplaced'
  BY DEF NoUsers, MarkerGuards, SourcesReplaced, Directory
<1>4. Kept' /\ Untouched'
  BY DEF Kept, Untouched, Checks, Left, Directory
<1>5. Marked' /\ Custody' /\ Progress' /\ Report'
  BY DEF Marked, Custody, Progress, Report, Checks, Moves, Undoes, Loops, Ends
<1> QED
  BY <1>2, <1>3, <1>4, <1>5

LEMMA PrepareKeeps == IInv /\ Prepare => IInv'
<1> SUFFICES ASSUME IInv, Prepare PROVE IInv'
  OBVIOUS
<1> USE DEF IInv
<1>1. /\ step = "prepare" /\ UNCHANGED <<output, marker, bundle, backup, markerCreated, movedOld, movedNew,
                                         run, before, item>>
      /\ staged' \subseteq Names /\ selected' \subseteq Names
      /\ \/ step' = "check" /\ staged' = selected' /\ UNCHANGED outcome
         \/ step' = "returned" /\ outcome' = "refused"
  BY DEF Prepare, Return, GuideTypeOK
<1>2. GuideTypeOK'
  BY <1>1 DEF GuideTypeOK
<1>3. Left /\ marker = before.marker /\ ~ markerCreated /\ movedOld = {} /\ movedNew = {}
      /\ outcome = "none"
  BY <1>1 DEF Untouched, Checks
<1>4. NoUsers' /\ MarkerGuards'
  BY <1>1 DEF NoUsers, MarkerGuards
<1>5. SourcesReplaced'
  BY <1>1, <1>3 DEF SourcesReplaced, Left
<1>6. Kept'
  BY <1>1, <1>3 DEF Kept, SourcesKept, Left
<1>7. Untouched'
  BY <1>1, <1>3 DEF Untouched, Left, Checks
<1>8. Marked' /\ Custody' /\ Progress' /\ Report'
  BY <1>1 DEF Marked, Custody, Progress, Report, Moves, Undoes, Loops, Ends
<1> QED
  BY <1>2, <1>4, <1>5, <1>6, <1>7, <1>8

LEMMA CheckKeeps == IInv /\ Check => IInv'
<1> SUFFICES ASSUME IInv, Check PROVE IInv'
  OBVIOUS
<1> USE DEF IInv
<1>1. /\ step = "check"
      /\ UNCHANGED <<output, marker, bundle, staged, backup, markerCreated, movedOld, movedNew, run, selected,
                     before, item>>
      /\ \/ step' = "mark" /\ MayReplace /\ UNCHANGED outcome
         \/ step' = "returned" /\ outcome' = "refused"
  BY DEF Check, Return, disk, ghosts
<1>2. GuideTypeOK'
  BY <1>1 DEF GuideTypeOK
<1>3. Left /\ marker = before.marker /\ ~ markerCreated /\ movedOld = {} /\ movedNew = {}
      /\ staged = selected /\ outcome = "none"
  BY <1>1 DEF Untouched, Checks
<1>4. NoUsers' /\ MarkerGuards'
  BY <1>1 DEF NoUsers, MarkerGuards
<1>5. SourcesReplaced'
  BY <1>1, <1>3 DEF SourcesReplaced, Left
<1>6. Kept'
  BY <1>1, <1>3 DEF Kept, SourcesKept, Left
<1>7. Untouched'
  BY <1>1, <1>3 DEF Untouched, Left, Checks, MayReplace, Occupied
<1>8. Marked' /\ Custody' /\ Progress' /\ Report'
  BY <1>1 DEF Marked, Custody, Progress, Report, Moves, Undoes, Loops, Ends
<1> QED
  BY <1>2, <1>4, <1>5, <1>6, <1>7, <1>8

LEMMA MarkKeeps == IInv /\ Mark => IInv'
<1> SUFFICES ASSUME IInv, Mark PROVE IInv'
  OBVIOUS
<1> USE DEF IInv
<1>1. /\ step = "mark"
      /\ UNCHANGED <<output, bundle, staged, backup, movedOld, movedNew, run, selected, before, item>>
      /\ \/ /\ marker # "absent" /\ step' = "reserve" /\ UNCHANGED <<marker, markerCreated, outcome>>
         \/ /\ marker = "absent" /\ marker' = "valid" /\ markerCreated' /\ step' = "reserve"
            /\ UNCHANGED outcome
         \/ /\ marker = "absent" /\ marker' \in {"absent", "partial"} /\ step' = "returned"
            /\ outcome' = "unmarked" /\ UNCHANGED markerCreated
  BY DEF Mark, Return, ghosts
<1>2. GuideTypeOK'
  BY DEF GuideTypeOK, Mark, Return, ghosts
<1>3. Left /\ marker = before.marker /\ ~ markerCreated /\ movedOld = {} /\ movedNew = {}
      /\ staged = selected /\ outcome = "none" /\ MayReplace
  BY <1>1 DEF Untouched, Checks
<1>4. marker = "absent" => Empty
  BY <1>3 DEF MayReplace, Occupied, Empty, Left
<1>5. marker # "absent" => marker = "valid"
  BY <1>3 DEF MayReplace, Occupied
<1>6. \A n \in Names : output[n].kind # "user"
  BY <1>3, <1>4, <1>5, EntriesTyped DEF NoUsers, Empty, Left
<1>7. NoUsers'
  BY <1>1, <1>6 DEF NoUsers
<1>8. MarkerGuards'
  BY <1>1, <1>3, <1>4, <1>5, EntriesTyped DEF MarkerGuards, Empty, Left
<1>9. SourcesReplaced'
  BY <1>1, <1>3, <1>4 DEF SourcesReplaced, Left, Empty
<1>10. Kept'
  BY <1>1, <1>3 DEF Kept, SourcesKept, Left
<1>11. Untouched'
  BY <1>1, <1>3 DEF Untouched, Left, Checks
<1>12. Marked'
  BY <1>1, <1>3, <1>4, <1>5, <1>6 DEF Marked, Left, Empty, Loops, Moves, Undoes, Ends
<1>13. Custody' /\ Progress' /\ Report'
  BY <1>1 DEF Custody, Progress, Report, Moves, Undoes, Loops, Ends
<1> QED
  BY <1>2, <1>7, <1>8, <1>9, <1>10, <1>11, <1>12, <1>13

LEMMA ReserveKeeps == IInv /\ Reserve => IInv'
<1> SUFFICES ASSUME IInv, Reserve PROVE IInv'
  OBVIOUS
<1> USE DEF IInv
<1>1. /\ step = "reserve"
      /\ UNCHANGED <<output, marker, bundle, staged, backup, markerCreated, movedOld, movedNew, run, selected,
                     before>>
      /\ \/ step' = "backup" /\ UNCHANGED <<item, outcome>>
         \/ step' = "cleanup" /\ outcome' = "failed" /\ UNCHANGED item
  BY DEF Reserve, Leave, disk, ghosts
<1>2. GuideTypeOK'
  BY <1>1 DEF GuideTypeOK
<1>3. Left /\ movedOld = {} /\ movedNew = {} /\ staged = selected /\ outcome = "none" /\ item = 1
  BY <1>1 DEF Untouched, Checks
<1>4. NoUsers' /\ MarkerGuards' /\ SourcesReplaced'
  BY <1>1 DEF NoUsers, MarkerGuards, SourcesReplaced
<1>5. Kept'
  BY <1>1, <1>3 DEF Kept, SourcesKept, Left
<1>6. Marked'
  BY <1>1, <1>3 DEF Marked, Empty
<1>7. Custody'
  BY <1>1, <1>3 DEF Custody, CustodyOf, Left
<1>8. Progress'
  BY <1>1, <1>3 DEF Progress, BackedUp, Names
<1>9. Report' /\ Untouched'
  BY <1>1, <1>3 DEF Report, Untouched, Left, Moves, Undoes, Ends, Checks
<1> QED
  BY <1>2, <1>4, <1>5, <1>6, <1>7, <1>8, <1>9

-----------------------------------------------------------------------------
(* The loops.  Nothing of theirs disturbs what is known of the marker.     *)

LEMMA LoopKeeps ==
  ASSUME IInv, step \in Loops, step' \in Loops, GuideTypeOK',
         outcome' # "ok", outcome # "ok",
         UNCHANGED <<marker, bundle, markerCreated, run, selected, before>>,
         \A n \in Names : output'[n].kind # "user",
         \A p \in Names : CustodyOf(p)', Progress', Report'
  PROVE  IInv'
<1> USE DEF IInv
<1>1. Marked'
  BY DEF Marked, Empty
<1>2. marker' = "valid"
  BY DEF Marked
<1>3. NoUsers' /\ MarkerGuards'
  BY <1>2 DEF NoUsers, MarkerGuards
<1>4. Custody'
  BY DEF Custody
<1>5. Untouched' /\ Kept' /\ SourcesReplaced'
  BY DEF Untouched, Kept, SourcesReplaced, Checks, Loops, Moves, Undoes
<1> QED
  BY <1>1, <1>3, <1>4, <1>5

LEMMA NotTheirs == IInv /\ step \in Loops => \A n \in Names : output[n].kind # "user"
  BY DEF IInv, Marked, NoUsers

LEMMA RollBackKeeps ==
  ASSUME IInv, step \in Moves, RollBack,
         UNCHANGED <<disk, markerCreated, movedOld, movedNew, ghosts>>
  PROVE  IInv'
<1> USE DEF IInv
<1>1. /\ step' = "unpublish" /\ item' = N /\ outcome' = "failed" /\ outcome = "none"
      /\ UNCHANGED <<output, marker, bundle, staged, backup, markerCreated, movedOld, movedNew, run, selected,
                     before>>
  BY DEF RollBack, disk, ghosts, Report
<1>2. GuideTypeOK'
  BY <1>1, GuideAssumption DEF GuideTypeOK, Names
<1>3. step \in Loops /\ step' \in Loops
  BY <1>1 DEF Loops, Undoes
<1>4. \A p \in Names : CustodyOf(p)'
  BY <1>1, <1>3 DEF Custody, CustodyOf, Moves
<1>5. \A p \in Names : p \notin movedNew => Unpublished(p)
  BY <1>3 DEF Custody, CustodyOf, Progress, BackedUp, Published, Unpublished, Moves
<1>6. Progress'
  BY <1>1, <1>5, GuideAssumption DEF Progress, Unpublished, Names
<1>7. Report'
  BY <1>1 DEF Report, Moves, Undoes, Ends
<1>8. \A n \in Names : output'[n].kind # "user"
  BY <1>1, <1>3, NotTheirs
<1> QED
  BY <1>1, <1>2, <1>3, <1>4, <1>6, <1>7, <1>8, LoopKeeps

LEMMA BackUpKeeps == IInv /\ BackUp => IInv'
<1> SUFFICES ASSUME IInv, BackUp PROVE IInv'
  OBVIOUS
<1> USE DEF IInv
<1>1. /\ step = "backup" /\ UNCHANGED <<marker, bundle, staged, markerCreated, movedNew, run, selected, before>>
      /\ step \in Loops /\ step \in Moves /\ outcome = "none"
  BY DEF BackUp, ghosts, Loops, Moves, Report
<1>2. CASE RollBack /\ UNCHANGED <<output, backup, movedOld>>
  <2>1. UNCHANGED <<disk, markerCreated, movedOld, movedNew, ghosts>>
    BY <1>1, <1>2 DEF disk, ghosts
  <2> QED
    BY <1>1, <1>2, <2>1, RollBackKeeps
<1>3. ASSUME Advance("backup", "publish"), UNCHANGED outcome,
             \/ output[item] = Absent /\ UNCHANGED <<output, backup, movedOld>>
             \/ /\ output[item] # Absent
                /\ backup' = [backup EXCEPT ![item] = output[item]]
                /\ output' = [output EXCEPT ![item] = Absent]
                /\ movedOld' = movedOld \cup {item}
      PROVE  IInv'
  <2>1. /\ item \in Names /\ N \in Nat \ {0} /\ Absent \in Entries /\ Absent.kind = "absent"
        /\ output \in [Names -> Entries] /\ backup \in [Names -> Entries]
    BY GuideAssumption, EntriesTyped DEF GuideTypeOK
  <2>2. \/ item < N /\ step' = "backup" /\ item' = item + 1
        \/ item = N /\ step' = "publish" /\ item' = 1
    BY <1>3, <2>1 DEF Advance, Names
  <2>3. GuideTypeOK'
    <3>1. item' \in Names /\ step' \in {"backup", "publish"}
      BY <2>1, <2>2 DEF Names
    <3>2. output' \in [Names -> Entries] /\ backup' \in [Names -> Entries] /\ movedOld' \subseteq Names
      BY <1>3, <2>1 DEF GuideTypeOK
    <3> QED
      BY <1>1, <1>3, <3>1, <3>2 DEF GuideTypeOK
  <2>4. /\ \A p \in Names \ {item} : /\ output'[p] = output[p] /\ backup'[p] = backup[p]
                                     /\ p \in movedOld' <=> p \in movedOld
        /\ output'[item] = Absent
        /\ item \in movedOld' => backup'[item] = output[item] /\ output[item] # Absent
        /\ item \notin movedOld' => output[item] = Absent
    <3>1. item \notin movedOld
      BY <1>1, <2>1 DEF Progress, BackedUp, Names
    <3> QED
      BY <1>3, <2>1, <3>1
  <2>5. \A p \in Names : CustodyOf(p) /\ BackedUp(p)
    BY <1>1 DEF Custody, Progress
  <2>6. output[item] = before.output[item]
    BY <2>1, <2>5 DEF CustodyOf, BackedUp, Names
  <2>7. \A p \in Names : CustodyOf(p)'
    <3> SUFFICES ASSUME NEW p \in Names PROVE CustodyOf(p)'
      OBVIOUS
    <3>1. p \notin movedNew'
      BY <1>1, <2>5 DEF BackedUp
    <3>2. CASE p = item
      BY <1>1, <2>4, <2>6, <3>1, <3>2 DEF CustodyOf
    <3>3. CASE p # item
      BY <1>1, <2>4, <2>5, <3>1, <3>3 DEF CustodyOf
    <3> QED
      BY <3>2, <3>3
  <2>8. \A p \in Names : /\ p \notin movedNew' /\ p \in movedOld' => output'[p] = Absent
                         /\ p > item => p \notin movedOld'
                         /\ p <= item => p \in movedOld' \/ before.output[p] = Absent
    <3> SUFFICES ASSUME NEW p \in Names
                 PROVE  /\ p \notin movedNew' /\ p \in movedOld' => output'[p] = Absent
                        /\ p > item => p \notin movedOld'
                        /\ p <= item => p \in movedOld' \/ before.output[p] = Absent
      OBVIOUS
    <3>1. CASE p = item
      BY <1>1, <2>1, <2>4, <2>5, <2>6, <3>1 DEF BackedUp, Names
    <3>2. CASE p # item
      BY <1>1, <2>1, <2>4, <2>5, <3>2 DEF BackedUp, Names
    <3> QED
      BY <3>1, <3>2
  <2>9. \A p \in Names : p \notin movedNew'
    BY <1>1, <2>5 DEF BackedUp
  <2>10. Progress'
    <3>1. CASE item < N
      BY <1>1, <2>1, <2>2, <2>8, <2>9, <3>1 DEF Progress, BackedUp, Names
    <3>2. CASE item = N
      <4>1. \A p \in Names : output'[p] = Absent
        BY <2>1, <2>7, <2>8, <2>9, <3>2, <1>1 DEF CustodyOf, Names
      <4> QED
        BY <1>1, <2>1, <2>2, <2>8, <2>9, <3>2, <4>1 DEF Progress, Published, Names
    <3> QED
      BY <2>2, <3>1, <3>2
  <2>11. Report'
    BY <1>1, <1>3, <2>2 DEF Report, Moves, Undoes, Ends
  <2>12. \A n \in Names : output'[n].kind # "user"
    BY <1>1, <2>1, <2>4, NotTheirs
  <2>13. step' \in Loops
    BY <2>2 DEF Loops, Moves
  <2> QED
    BY <1>1, <1>3, <2>3, <2>7, <2>10, <2>11, <2>12, <2>13, LoopKeeps
<1> QED
  BY <1>2, <1>3 DEF BackUp

LEMMA PublishKeeps == IInv /\ Publish => IInv'
<1> SUFFICES ASSUME IInv, Publish PROVE IInv'
  OBVIOUS
<1> USE DEF IInv
<1>1. /\ step = "publish" /\ UNCHANGED <<marker, bundle, backup, markerCreated, movedOld, run, selected, before>>
      /\ step \in Loops /\ step \in Moves /\ outcome = "none"
  BY DEF Publish, ghosts, Loops, Moves, Report
<1>2. CASE RollBack /\ UNCHANGED <<output, staged, movedNew>>
  <2>1. UNCHANGED <<disk, markerCreated, movedOld, movedNew, ghosts>>
    BY <1>1, <1>2 DEF disk, ghosts
  <2> QED
    BY <1>1, <1>2, <2>1, RollBackKeeps
<1>3. ASSUME Advance("publish", "invalidate"), UNCHANGED outcome,
             \/ item \notin staged /\ UNCHANGED <<output, staged, movedNew>>
             \/ /\ item \in staged
                /\ output' = [output EXCEPT ![item] = Whole(run)]
                /\ staged' = staged \ {item}
                /\ movedNew' = movedNew \cup {item}
      PROVE  IInv'
  <2>1. /\ item \in Names /\ N \in Nat \ {0} /\ Whole(run) \in Entries /\ Whole(run).kind = "whole"
        /\ output \in [Names -> Entries]
    BY GuideAssumption, EntriesTyped DEF GuideTypeOK
  <2>2. \/ item < N /\ step' = "publish" /\ item' = item + 1
        \/ item = N /\ step' = "invalidate" /\ item' = 1
    BY <1>3, <2>1 DEF Advance, Names
  <2>3. GuideTypeOK'
    <3>1. item' \in Names /\ step' \in {"publish", "invalidate"}
      BY <2>1, <2>2 DEF Names
    <3>2. output' \in [Names -> Entries] /\ staged' \subseteq Names /\ movedNew' \subseteq Names
      BY <1>3, <2>1 DEF GuideTypeOK
    <3> QED
      BY <1>1, <1>3, <3>1, <3>2 DEF GuideTypeOK
  <2>4. \A p \in Names : /\ CustodyOf(p) /\ Published(p)
                         /\ p < item => (p \in movedNew <=> p \in selected)
                         /\ p >= item => p \notin movedNew /\ (p \in staged <=> p \in selected)
    BY <1>1 DEF Custody, Progress
  <2>5. item \notin movedNew /\ (item \in staged <=> item \in selected) /\ output[item] = Absent
    BY <2>1, <2>4 DEF Published, Names
  <2>6. /\ \A p \in Names \ {item} : /\ output'[p] = output[p]
                                     /\ p \in movedNew' <=> p \in movedNew
                                     /\ p \in staged' <=> p \in staged
        /\ item \in movedNew' <=> item \in selected
        /\ item \in movedNew' => output'[item] = Whole(run)
        /\ item \notin movedNew' => output'[item] = Absent
    BY <1>3, <2>1, <2>5
  <2>7. \A p \in Names : CustodyOf(p)' /\ Published(p)'
    <3> SUFFICES ASSUME NEW p \in Names PROVE CustodyOf(p)' /\ Published(p)'
      OBVIOUS
    <3>1. CASE p = item
      BY <1>1, <2>4, <2>6, <3>1 DEF CustodyOf, Published
    <3>2. CASE p # item
      BY <1>1, <2>4, <2>6, <3>2 DEF CustodyOf, Published
    <3> QED
      BY <3>1, <3>2
  <2>8. \A p \in Names : /\ p <= item => (p \in movedNew' <=> p \in selected)
                         /\ p > item => p \notin movedNew' /\ (p \in staged' <=> p \in selected)
    BY <2>1, <2>4, <2>6 DEF Names
  <2>9. Progress'
    <3>1. CASE item < N
      BY <1>1, <2>1, <2>2, <2>7, <2>8, <3>1 DEF Progress, Names
    <3>2. CASE item = N
      BY <1>1, <2>1, <2>2, <2>7, <2>8, <3>2 DEF Progress, Names
    <3> QED
      BY <2>2, <3>1, <3>2
  <2>10. Report'
    BY <1>1, <1>3, <2>2 DEF Report, Moves, Undoes, Ends
  <2>11. \A n \in Names : output'[n].kind # "user"
    BY <1>1, <2>1, <2>6, NotTheirs, EntriesTyped
  <2>12. step' \in Loops
    BY <2>2 DEF Loops, Moves
  <2> QED
    BY <1>1, <1>3, <2>3, <2>7, <2>9, <2>10, <2>11, <2>12, LoopKeeps
<1> QED
  BY <1>2, <1>3 DEF Publish, PublishFails

LEMMA InvalidateKeeps == IInv /\ Invalidate => IInv'
<1> SUFFICES ASSUME IInv, Invalidate PROVE IInv'
  OBVIOUS
<1> USE DEF IInv
<1>1. /\ step = "invalidate" /\ UNCHANGED <<output, marker, staged, backup, movedOld, movedNew, run, selected,
                                            before>>
      /\ step \in Loops /\ step \in Moves /\ outcome = "none"
  BY DEF Invalidate, ghosts, Loops, Moves, Report
<1>2. CASE RollBack /\ UNCHANGED <<bundle, markerCreated>>
  <2>1. UNCHANGED <<disk, markerCreated, movedOld, movedNew, ghosts>>
    BY <1>1, <1>2 DEF disk, ghosts
  <2> QED
    BY <1>1, <1>2, <2>1, RollBackKeeps
<1>3. CASE bundle' = FALSE /\ Leave("ok") /\ markerCreated' = FALSE
  <2>1. step' = "cleanup" /\ outcome' = "ok" /\ item' = item /\ ~ bundle' /\ ~ markerCreated'
    BY <1>3 DEF Leave
  <2>2. GuideTypeOK'
    BY <1>1, <1>3, <2>1 DEF GuideTypeOK
  <2>3. Replaced
    <3>1. output \in [Names -> Entries]
      BY DEF GuideTypeOK
    <3>2. \A p \in Names : output[p] = IF p \in selected THEN Whole(run) ELSE Absent
      BY <1>1 DEF Progress, Published
    <3> QED
      BY <3>1, <3>2 DEF Replaced
  <2>4. Replaced'
    BY <1>1, <2>3 DEF Replaced
  <2>5. marker = "valid" /\ \A n \in Names : before.output[n].kind # "user"
    BY <1>1 DEF Marked
  <2>6. Marked' /\ NoUsers' /\ MarkerGuards'
    BY <1>1, <2>1, <2>5 DEF Marked, NoUsers, MarkerGuards
  <2>7. Report' /\ Kept'
    BY <1>1, <2>1, <2>4, <2>5 DEF Report, Kept, SourcesKept, Replaced, Moves, Undoes
  <2>8. Untouched' /\ Custody' /\ Progress' /\ SourcesReplaced'
    BY <2>1 DEF Untouched, Custody, Progress, SourcesReplaced, Checks, Loops, Moves, Undoes
  <2> QED
    BY <2>2, <2>6, <2>7, <2>8
<1> QED
  BY <1>2, <1>3 DEF Invalidate

LEMMA UnpublishKeeps == IInv /\ Unpublish => IInv'
<1> SUFFICES ASSUME IInv, Unpublish PROVE IInv'
  OBVIOUS
<1> USE DEF IInv
<1>1. /\ step = "unpublish"
      /\ UNCHANGED <<marker, bundle, staged, backup, markerCreated, movedOld, movedNew, run, selected, before>>
      /\ step \in Loops /\ outcome \in {"failed", "incomplete"}
  BY DEF Unpublish, ghosts, Loops, Undoes, Report
<1>2. /\ item \in Names /\ N \in Nat \ {0} /\ Absent \in Entries /\ Absent.kind = "absent"
      /\ output \in [Names -> Entries]
  BY GuideAssumption, EntriesTyped DEF GuideTypeOK
<1>3. \/ item > 1 /\ step' = "unpublish" /\ item' = item - 1
      \/ item = 1 /\ step' = "restore" /\ item' = N
  BY <1>2 DEF Unpublish, Previous, Names
<1>4. PICK rest \in Entries :
        /\ output' = [output EXCEPT ![item] = rest]
        /\ rest.kind # "user"
        /\ item \notin movedNew => rest = output[item]
        /\ \/ UNCHANGED outcome /\ (item \in movedNew => rest = Absent)
           \/ outcome' = "incomplete"
  <2>1. output[item] \in Entries /\ output[item].kind # "user"
    BY <1>1, <1>2, NotTheirs
  <2>2. CASE item \notin movedNew /\ UNCHANGED <<output, outcome>>
    <3>1. output' = [output EXCEPT ![item] = output[item]]
      BY <1>2, <2>2
    <3> QED
      BY <2>1, <2>2, <3>1
  <2>3. CASE item \in movedNew /\ output' = [output EXCEPT ![item] = Absent] /\ UNCHANGED outcome
    BY <1>2, <2>3
  <2>4. CASE /\ item \in movedNew /\ outcome' = "incomplete"
             /\ output' \in {[output EXCEPT ![item] = rest] : rest \in Remains(output[item])}
    <3>1. PICK rest \in Remains(output[item]) : output' = [output EXCEPT ![item] = rest]
      BY <2>4
    <3>2. rest \in Entries /\ rest.kind # "user"
      BY <2>1, <3>1, EntriesTyped
    <3> QED
      BY <2>4, <3>1, <3>2
  <2> QED
    BY <2>2, <2>3, <2>4 DEF Unpublish
<1>5. GuideTypeOK'
  <2>1. item' \in Names /\ step' \in {"unpublish", "restore"}
    BY <1>2, <1>3 DEF Names
  <2>2. output' \in [Names -> Entries] /\ outcome' \in {"failed", "incomplete"}
    BY <1>1, <1>2, <1>4
  <2> QED
    BY <1>1, <2>1, <2>2 DEF GuideTypeOK
<1>6. \A p \in Names : p # item => output'[p] = output[p]
  BY <1>2, <1>4
<1>7. output'[item] = rest
  BY <1>2, <1>4
<1>8. \A p \in Names : CustodyOf(p)
  BY <1>1 DEF Custody
<1>9. \A p \in Names : CustodyOf(p)'
  <2> SUFFICES ASSUME NEW p \in Names PROVE CustodyOf(p)'
    OBVIOUS
  <2>1. CASE p = item
    BY <1>1, <1>4, <1>7, <1>8, <2>1 DEF CustodyOf
  <2>2. CASE p # item
    BY <1>1, <1>6, <1>8, <2>2 DEF CustodyOf
  <2> QED
    BY <2>1, <2>2
<1>10. outcome' = "failed" => \A p \in Names : p >= item \/ p \notin movedNew => Unpublished(p)'
  <2> SUFFICES ASSUME outcome' = "failed", NEW p \in Names, p >= item \/ p \notin movedNew
               PROVE  Unpublished(p)'
    OBVIOUS
  <2>1. outcome = "failed" /\ (item \in movedNew => rest = Absent)
    BY <1>1, <1>4
  <2>2. CASE p = item
    <3>1. CASE item \in movedNew
      BY <1>1, <1>7, <1>8, <2>1, <2>2, <3>1 DEF Unpublished, CustodyOf
    <3>2. CASE item \notin movedNew
      <4>1. Unpublished(item)
        BY <1>1, <1>2, <2>1, <3>2 DEF Progress
      <4> QED
        BY <1>1, <1>4, <1>7, <2>2, <3>2, <4>1 DEF Unpublished
    <3> QED
      BY <3>1, <3>2
  <2>3. CASE p # item
    <3>1. p > item \/ p \notin movedNew
      BY <1>2, <2>3 DEF Names
    <3>2. Unpublished(p)
      BY <1>1, <2>1, <3>1 DEF Progress
    <3> QED
      BY <1>1, <1>6, <2>3, <3>2 DEF Unpublished
  <2> QED
    BY <2>2, <2>3
<1>11. Progress'
  <2>1. CASE item > 1
    <3>1. \A p \in Names : p > item - 1 => p >= item
      BY <1>2 DEF Names
    <3> QED
      BY <1>1, <1>3, <1>10, <2>1, <3>1 DEF Progress
  <2>2. CASE item = 1
    <3>1. \A p \in Names : p >= item /\ ~ (p > N)
      BY <1>2, <2>2 DEF Names
    <3> QED
      BY <1>1, <1>3, <1>10, <2>2, <3>1 DEF Progress
  <2> QED
    BY <1>3, <2>1, <2>2
<1>12. Report'
  BY <1>1, <1>3, <1>4 DEF Report, Moves, Undoes, Ends
<1>13. \A n \in Names : output'[n].kind # "user"
  BY <1>1, <1>4, <1>6, <1>7, NotTheirs
<1>14. step' \in Loops /\ outcome' # "ok" /\ outcome # "ok"
  BY <1>1, <1>3, <1>4 DEF Loops, Undoes
<1> QED
  BY <1>1, <1>5, <1>9, <1>11, <1>12, <1>13, <1>14, LoopKeeps

LEMMA RestoreKeeps == IInv /\ Restore => IInv'
<1> SUFFICES ASSUME IInv, Restore PROVE IInv'
  OBVIOUS
<1> USE DEF IInv
<1>1. /\ step = "restore"
      /\ UNCHANGED <<marker, bundle, staged, markerCreated, movedOld, movedNew, run, selected, before>>
      /\ step \in Loops /\ outcome \in {"failed", "incomplete"}
  BY DEF Restore, ghosts, Loops, Undoes, Report
<1>2. /\ item \in Names /\ N \in Nat \ {0} /\ Absent \in Entries /\ Absent.kind = "absent"
      /\ output \in [Names -> Entries] /\ backup \in [Names -> Entries]
      /\ before.output \in [Names -> Entries]
  BY GuideAssumption, EntriesTyped DEF GuideTypeOK
<1>3. \/ item > 1 /\ step' = "restore" /\ item' = item - 1
      \/ item = 1 /\ step' = "cleanup" /\ item' = N
  BY <1>2 DEF Restore, Previous, Names
<1>4. \/ item \notin movedOld /\ UNCHANGED <<output, backup, outcome>>
      \/ /\ item \in movedOld /\ UNCHANGED outcome
         /\ output' = [output EXCEPT ![item] = backup[item]]
         /\ backup' = [backup EXCEPT ![item] = Absent]
      \/ item \in movedOld /\ outcome' = "incomplete" /\ UNCHANGED <<output, backup>>
  BY DEF Restore
<1>5. \A p \in Names : CustodyOf(p)
  BY <1>1 DEF Custody
<1>6. \A p \in Names : p # item => output'[p] = output[p] /\ backup'[p] = backup[p]
  BY <1>2, <1>4
<1>7. item \in movedOld => backup[item] = before.output[item]
  BY <1>2, <1>5 DEF CustodyOf, Names
<1>8. GuideTypeOK'
  <2>1. item' \in Names /\ step' \in {"restore", "cleanup"}
    BY <1>2, <1>3 DEF Names
  <2>2. output' \in [Names -> Entries] /\ backup' \in [Names -> Entries]
        /\ outcome' \in {"failed", "incomplete"}
    BY <1>1, <1>2, <1>4
  <2> QED
    BY <1>1, <2>1, <2>2 DEF GuideTypeOK
<1>9. /\ item \in movedOld => before.output[item] \in {output'[item], backup'[item]}
      /\ outcome' = "failed" => output'[item] = before.output[item]
  <2>1. outcome = "failed" => Unpublished(item)
    BY <1>1, <1>2 DEF Progress, Names
  <2> QED
    BY <1>1, <1>2, <1>4, <1>7, <2>1 DEF Unpublished
<1>10. outcome' = "failed" => outcome = "failed"
  BY <1>1, <1>4
<1>11. \A n \in Names : output'[n].kind # "user"
  <2>1. \A n \in Names : output[n].kind # "user" /\ before.output[n].kind # "user"
    BY <1>1, NotTheirs DEF Marked
  <2> QED
    BY <1>2, <1>4, <1>7, <2>1
<1>12. CASE item > 1
  <2>1. step' = "restore" /\ item' = item - 1 /\ step' \in Loops
    BY <1>2, <1>3, <1>12 DEF Loops, Undoes
  <2>2. \A p \in Names : CustodyOf(p)'
    <3> SUFFICES ASSUME NEW p \in Names PROVE CustodyOf(p)'
      OBVIOUS
    <3>1. CASE p = item
      <4>1. p > item'
        BY <1>2, <2>1, <3>1 DEF Names
      <4> QED
        BY <1>1, <1>4, <1>5, <1>9, <2>1, <3>1, <4>1 DEF CustodyOf
    <3>2. CASE p # item
      <4>1. p > item => p > item'
        BY <1>2, <2>1 DEF Names
      <4> QED
        BY <1>1, <1>5, <1>6, <2>1, <3>2, <4>1 DEF CustodyOf
    <3> QED
      BY <3>1, <3>2
  <2>3. Progress'
    <3> SUFFICES ASSUME outcome' = "failed", NEW p \in Names
                 PROVE  IF p > item - 1 THEN output'[p] = before.output[p] ELSE Unpublished(p)'
      BY <1>1, <2>1 DEF Progress
    <3>1. IF p > item THEN output[p] = before.output[p] ELSE Unpublished(p)
      BY <1>1, <1>10 DEF Progress
    <3>2. CASE p = item
      BY <1>2, <1>9, <3>2 DEF Names
    <3>3. CASE p # item
      <4>1. p > item - 1 <=> p > item
        BY <1>2, <3>3 DEF Names
      <4> QED
        BY <1>1, <1>6, <3>1, <3>3, <4>1 DEF Unpublished
    <3> QED
      BY <3>2, <3>3
  <2>4. Report'
    BY <1>1, <1>4, <2>1 DEF Report, Moves, Undoes, Ends
  <2>5. outcome' # "ok" /\ outcome # "ok"
    BY <1>1, <1>4
  <2> QED
    BY <1>1, <1>8, <1>11, <2>1, <2>2, <2>3, <2>4, <2>5, LoopKeeps
<1>13. CASE item = 1
  <2>1. step' = "cleanup"
    BY <1>3, <1>13
  <2>2. outcome' = "failed" => Left'
    <3> SUFFICES ASSUME outcome' = "failed" PROVE Left'
      OBVIOUS
    <3>1. \A p \in Names : output'[p] = before.output[p]
      <4> SUFFICES ASSUME NEW p \in Names PROVE output'[p] = before.output[p]
        OBVIOUS
      <4>1. CASE p = item
        BY <1>9, <4>1
      <4>2. CASE p # item
        <5>1. p > item
          BY <1>2, <1>13, <4>2 DEF Names
        <5> QED
          BY <1>1, <1>6, <1>10, <4>2, <5>1 DEF Progress
      <4> QED
        BY <4>1, <4>2
    <3>2. output' = before.output
      BY <1>2, <1>8, <3>1 DEF GuideTypeOK
    <3>3. bundle = before.bundle
      BY <1>1 DEF Custody
    <3> QED
      BY <1>1, <3>2, <3>3 DEF Left
  <2>3. marker = "valid" /\ \A n \in Names : before.output[n].kind # "user"
    BY <1>1 DEF Marked
  <2>4. outcome' \in {"failed", "incomplete"} /\ outcome # "ok"
    BY <1>1, <1>4
  <2>5. Marked'
    BY <1>1, <2>4 DEF Marked, Empty
  <2>6. NoUsers' /\ MarkerGuards'
    BY <1>1, <1>11, <2>3 DEF NoUsers, MarkerGuards
  <2>7. Report'
    BY <2>1, <2>2, <2>4 DEF Report, Moves, Undoes
  <2>8. Kept'
    <3>1. \A p \in Names : Theirs(p) \/ before.output[p] \in {output'[p], backup'[p]}
      <4> SUFFICES ASSUME NEW p \in Names, before.output[p] # Absent
                   PROVE  before.output[p] \in {output'[p], backup'[p]}
        BY EntriesTyped DEF Theirs
      <4>1. CASE p \in movedOld
        <5>1. CASE p = item
          BY <1>9, <4>1, <5>1
        <5>2. CASE p # item
          BY <1>5, <1>6, <4>1, <5>2 DEF CustodyOf
        <5> QED
          BY <5>1, <5>2
      <4>2. CASE p \notin movedOld
        <5>1. output[p] = before.output[p]
          BY <1>5, <4>2 DEF CustodyOf
        <5> QED
          BY <1>4, <1>6, <4>2, <5>1
      <4> QED
        BY <4>1, <4>2
    <3> QED
      BY <1>1, <2>3, <3>1 DEF Kept, SourcesKept, Theirs
  <2>9. Untouched' /\ Custody' /\ Progress' /\ SourcesReplaced'
    BY <2>1 DEF Untouched, Custody, Progress, SourcesReplaced, Checks, Loops, Moves, Undoes
  <2> QED
    BY <1>8, <2>5, <2>6, <2>7, <2>8, <2>9
<1> QED
  BY <1>3, <1>12, <1>13

-----------------------------------------------------------------------------
LEMMA CleanUpKeeps == IInv /\ CleanUp => IInv'
<1> SUFFICES ASSUME IInv, CleanUp PROVE IInv'
  OBVIOUS
<1> USE DEF IInv
<1>1. /\ step = "cleanup" /\ step' = "unmark"
      /\ UNCHANGED <<output, marker, bundle, staged, item, markerCreated, movedOld, movedNew, outcome, run,
                     selected, before>>
      /\ \/ outcome # "incomplete" /\ backup' = [n \in Names |-> Absent]
         \/ UNCHANGED backup
  BY DEF CleanUp, MayDropBackup, ghosts
<1>2. GuideTypeOK'
  BY <1>1, EntriesTyped DEF GuideTypeOK
<1>3. Marked' /\ NoUsers' /\ MarkerGuards'
  BY <1>1 DEF Marked, NoUsers, MarkerGuards, Empty, Ends
<1>4. Report'
  BY <1>1 DEF Report, Replaced, Left, Moves, Undoes, Ends
<1>5. SourcesKept
  BY IInvKeeps
<1>6. Kept'
  <2>1. CASE outcome = "incomplete"
    BY <1>1, <1>5, <2>1 DEF Kept, SourcesKept, Theirs
  <2>2. CASE outcome = "failed"
    BY <1>1, <1>5, <2>2 DEF Kept, SourcesKept, Report, Left, Ends
  <2>3. CASE outcome = "ok"
    BY <1>1, <1>5, <2>3 DEF Kept, SourcesKept, Report, Replaced, Ends
  <2> QED
    BY <1>1, <2>1, <2>2, <2>3 DEF Report, Ends
<1>7. Untouched' /\ Custody' /\ Progress' /\ SourcesReplaced'
  BY <1>1 DEF Untouched, Custody, Progress, SourcesReplaced, Checks, Loops, Moves, Undoes
<1> QED
  BY <1>2, <1>3, <1>4, <1>6, <1>7

LEMMA UnmarkKeeps == IInv /\ Unmark => IInv'
<1> SUFFICES ASSUME IInv, Unmark PROVE IInv'
  OBVIOUS
<1> USE DEF IInv
<1>1. /\ step = "unmark" /\ step' = "returned"
      /\ UNCHANGED <<output, bundle, staged, backup, item, markerCreated, movedOld, movedNew, outcome, run,
                     selected, before>>
      /\ \/ markerCreated /\ outcome # "incomplete" /\ marker' = "absent"
         \/ UNCHANGED marker
  BY DEF Unmark, KeepsMarker, ghosts
<1>2. GuideTypeOK'
  BY <1>1 DEF GuideTypeOK
<1>3. /\ marker = "valid" /\ \A n \in Names : before.output[n].kind # "user"
      /\ markerCreated => before.marker = "absent" /\ Empty
      /\ ~ markerCreated /\ outcome # "ok" => before.marker = "valid"
  BY <1>1 DEF Marked, Ends
<1>4. /\ outcome \in {"ok", "failed", "incomplete"}
      /\ outcome = "ok" => Replaced /\ ~ bundle /\ ~ markerCreated
      /\ outcome = "failed" => Left
  BY <1>1 DEF Report, Ends
<1>5. markerCreated /\ outcome # "incomplete" => Left /\ \A n \in Names : output[n] = Absent
  BY <1>3, <1>4 DEF Left, Empty
<1>6. NoUsers' /\ MarkerGuards'
  <2>1. CASE markerCreated /\ outcome # "incomplete"
    BY <1>1, <1>5, <2>1, EntriesTyped DEF NoUsers, MarkerGuards, Left
  <2>2. CASE UNCHANGED marker
    BY <1>1, <2>2 DEF NoUsers, MarkerGuards
  <2> QED
    BY <1>1, <2>1, <2>2
<1>7. SourcesReplaced'
  <2>1. CASE outcome = "ok"
    BY <1>1, <1>3, <1>4, <2>1 DEF SourcesReplaced, Replaced
  <2>2. CASE outcome = "failed"
    BY <1>1, <1>3, <1>4, <2>2 DEF SourcesReplaced, Left, Empty
  <2>3. CASE outcome = "incomplete"
    BY <1>1, <2>3 DEF SourcesReplaced
  <2> QED
    BY <1>4, <2>1, <2>2, <2>3
<1>8. Kept'
  BY <1>1, IInvKeeps DEF Kept, SourcesKept, Theirs
<1>9. Untouched' /\ Marked' /\ Custody' /\ Progress' /\ Report'
  BY <1>1 DEF Untouched, Marked, Custody, Progress, Report, Checks, Loops, Moves, Undoes, Ends
<1> QED
  BY <1>2, <1>6, <1>7, <1>8, <1>9

LEMMA KillKeeps == IInv /\ Kill => IInv'
<1> SUFFICES ASSUME IInv, Kill PROVE IInv'
  OBVIOUS
<1> USE DEF IInv
<1>1. /\ step' = "killed"
      /\ UNCHANGED <<output, marker, bundle, staged, backup, item, markerCreated, movedOld, movedNew, outcome,
                     run, selected, before>>
  BY DEF Kill, disk, ghosts
<1>2. GuideTypeOK'
  BY <1>1 DEF GuideTypeOK
<1>3. NoUsers' /\ MarkerGuards' /\ SourcesReplaced'
  BY <1>1 DEF NoUsers, MarkerGuards, SourcesReplaced
<1>4. Kept'
  BY <1>1, IInvKeeps DEF Kept, SourcesKept, Theirs
<1>5. Untouched' /\ Marked' /\ Custody' /\ Progress' /\ Report'
  BY <1>1 DEF Untouched, Marked, Custody, Progress, Report, Checks, Loops, Moves, Undoes, Ends
<1> QED
  BY <1>2, <1>3, <1>4, <1>5

LEMMA StutterKeeps == IInv /\ UNCHANGED vars => IInv'
<1> SUFFICES ASSUME IInv, UNCHANGED vars PROVE IInv'
  OBVIOUS
<1> USE DEF IInv, vars, disk, process, ghosts
<1>1. GuideTypeOK'
  BY DEF GuideTypeOK
<1>2. Untouched' /\ Marked' /\ NoUsers' /\ MarkerGuards' /\ SourcesReplaced' /\ Kept'
  BY DEF Untouched, Marked, NoUsers, MarkerGuards, SourcesReplaced, Kept, SourcesKept, Theirs, Left, Empty,
         MayReplace, Occupied
<1>3. Custody' /\ Report'
  BY DEF Custody, CustodyOf, Report, Replaced, Left
<1>4. Progress'
  BY DEF Progress, BackedUp, Published, Unpublished
<1> QED
  BY <1>1, <1>2, <1>3, <1>4

LEMMA NextKeeps == IInv /\ [Next]_vars => IInv'
  BY BeginKeeps, PrepareKeeps, CheckKeeps, MarkKeeps, ReserveKeeps, BackUpKeeps, PublishKeeps,
     InvalidateKeeps, UnpublishKeeps, RestoreKeeps, CleanUpKeeps, UnmarkKeeps, KillKeeps, StutterKeeps
     DEF Next, Sync

LEMMA Invariance == Spec => []IInv
  BY InitEstablishes, NextKeeps, PTL DEF Spec

(* Every state of a refresh is type-correct. *)
THEOREM GuideTypeCorrect == Spec => []GuideTypeOK
<1>1. IInv => GuideTypeOK
  BY DEF IInv
<1> QED
  BY <1>1, Invariance, PTL

(* A refresh that returns has replaced all of the canonical sources or     *)
(* none, or says that its roll back is incomplete (publish.go:90-215).      *)
THEOREM SourcesReplacedTogether == Spec => []SourcesReplaced
<1>1. IInv => SourcesReplaced
  BY DEF IInv
<1> QED
  BY <1>1, Invariance, PTL

(* The next refresh is never locked out of what this one left              *)
(* (publish.go:128-147).                                                   *)
THEOREM MarkerStands == Spec => []MarkerGuards
<1>1. IInv => MarkerGuards
  BY DEF IInv
<1> QED
  BY <1>1, Invariance, PTL

(* No accepted source is lost, whenever a call fails or the process is     *)
(* killed (publish.go:148-215).                                            *)
THEOREM NoSourceLost == Spec => []SourcesKept
<1>1. IInv => SourcesKept
  BY IInvKeeps
<1> QED
  BY <1>1, Invariance, PTL
=============================================================================
