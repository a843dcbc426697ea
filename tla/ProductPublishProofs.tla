------------------------- MODULE ProductPublishProofs -------------------------
(***************************************************************************)
(* Proofs about the replacement of the generated trees, for every number   *)
(* of products and of runs.                                                *)
(***************************************************************************)
EXTENDS ProductPublish, TLAPS

Checking == {"stage", "preflight"}
Undoing  == {"rollback", "restore"}
Working  == Checking \cup {"backup", "publish"} \cup Undoing

(* Where a product's accepted tree is: in the copy that backupOwned claims *)
(* or else under its output name, where nothing was published then.        *)
CustodyOf(p) ==
  /\ backupOwned[p] => backup[p] = before[p] /\ before[p] \notin Theirs
  /\ before[p] \notin Theirs /\ ~ backupOwned[p] => output[p] = before[p] /\ ~ published[p]
  /\ published[p] => Owned(output[p])
  /\ before[p] \in Theirs /\ ~ published[p] => output[p] \in Theirs
  /\ existed[p] => before[p] \notin Theirs
Custody == step \in Working => \A p \in Products : CustodyOf(p)

(* What the loops have not done yet. *)
NotYet ==
  /\ step \in Checking => \A p \in Products : ~ backupOwned[p]
  /\ step \in Checking \cup {"backup"} => \A p \in Products : ~ published[p]
  /\ step = "backup" => \A p \in Products : p >= item => ~ backupOwned[p]
  /\ step = "restore" => ~ published[item]

(* What the loops have done. *)
Progress ==
  /\ step = "stage" => \A p \in Products : p < item => staging[p] = Generated(run)
  /\ step = "preflight" => \A p \in Products : p <= item => staging[p] = Generated(run)
  /\ step = "backup" => \A p \in Products : staging[p] = Generated(run)
  /\ step = "publish" => \A p \in Products :
       IF p < item THEN output[p] = Generated(run) ELSE staging[p] = Generated(run)
  /\ step = "remove" => AllNew

(* What the result that the run will return says of the outputs. *)
Report ==
  /\ step \in Undoing => outcome \in {"failed", "incomplete"}
  /\ step \in Undoing /\ outcome = "failed" =>
       \A p \in Products : p > item => AsBefore(p)
  /\ step \in {"cleanup", "returned"} =>
       /\ outcome \in {"ok", "leftover"} => AllNew
       /\ outcome \in {"refused", "failed"} => \A p \in Products : AsBefore(p)

IInv == ProductTypeOK /\ Custody /\ NotYet /\ Progress /\ Report /\ AcceptedKept

-----------------------------------------------------------------------------
(* What a third party puts under a name never carries the marker.          *)
LEMMA TreesDistinct ==
  ASSUME NEW tree, tree \in Theirs
  PROVE  ~ Owned(tree) /\ tree # Generated(run)
  BY DEF Theirs, Absent, Foreign, Generated, Tree, Owned

LEMMA TreesTyped ==
  ASSUME NEW kind \in {"absent", "foreign", "generated", "torn"}, NEW of \in 0 .. MaxRuns
  PROVE  Tree(kind, of) \in Trees
  BY DEF Tree, Trees

(* A torn tree may still carry the marker.                                 *)
LEMMA RemainsTyped ==
  ASSUME NEW tree \in Trees, NEW rest \in Remains(tree)
  PROVE  rest \in Trees /\ (Owned(tree) => Owned(rest))
  BY DEF Remains, Tree, Trees, Owned

(* Nothing is moved before the first loop: a refusal leaves all as it was. *)
LEMMA RefusalLeaves ==
  ASSUME step \in Checking, IInv
  PROVE  \A p \in Products : AsBefore(p)
  BY DEF IInv, Custody, CustodyOf, NotYet, AsBefore, Theirs, Working, Checking

-----------------------------------------------------------------------------
(* Every action keeps the inductive invariant.                             *)
LEMMA InitInv ==
  ASSUME Init
  PROVE  IInv
<1>1. ProductTypeOK
  <2>1. Absent \in Trees /\ Foreign \in Trees /\ Generated(0) \in Trees
    BY ProductAssumption, TreesTyped DEF Absent, Foreign, Generated
  <2>2. 1 \in Products /\ 0 \in 0 .. MaxRuns
    BY ProductAssumption DEF Products
  <2>3. QED
    BY <2>1, <2>2 DEF Init, ProductTypeOK
<1>2. AcceptedKept
  BY DEF Init, AcceptedKept
<1>3. QED
  BY <1>1, <1>2 DEF Init, IInv, Custody, NotYet, Progress, Report, Working, Checking, Undoing

LEMMA BeginInv ==
  ASSUME IInv, Begin
  PROVE  IInv'
<1>1. ProductTypeOK'
  <2>1. Absent \in Trees
    BY ProductAssumption, TreesTyped DEF Absent
  <2>2. 1 \in Products /\ run + 1 \in 0 .. MaxRuns
    BY ProductAssumption DEF Products, IInv, ProductTypeOK, Begin
  <2>3. QED
    BY <2>1, <2>2 DEF Begin, IInv, ProductTypeOK
<1>2. Custody'
  BY DEF Begin, Custody, CustodyOf
<1>3. NotYet'
  BY DEF Begin, NotYet, Checking
<1>4. Progress'
  BY DEF Begin, Progress, Products, Checking
<1>5. Report'
  BY DEF Begin, Report, Undoing
<1>6. AcceptedKept'
  BY DEF Begin, AcceptedKept
<1>7. QED
  BY <1>1, <1>2, <1>3, <1>4, <1>5, <1>6 DEF IInv

LEMMA StageInv ==
  ASSUME IInv, Stage
  PROVE  IInv'
<1>1. ProductTypeOK'
  <2>1. Generated(run) \in Trees /\ Tree("torn", run) \in Trees
    BY TreesTyped DEF IInv, ProductTypeOK, Generated
  <2>2. staging' \in [Products -> Trees]
    BY <2>1 DEF Stage, Put, IInv, ProductTypeOK
  <2>3. QED
    BY <2>2 DEF Stage, Return, IInv, ProductTypeOK, flags
<1>2. Custody'
  BY DEF Stage, flags, IInv, Custody, CustodyOf, Working, Checking, Return, Undoing
<1>3. NotYet'
  BY DEF Stage, flags, IInv, NotYet, Checking, Return
<1>4. Progress'
  <2>1. CASE step' = "preflight"
    <3>1. staging' = Put(staging, Generated(run)) /\ item' = item /\ run' = run
      BY <2>1 DEF Stage, Return
    <3>2. \A p \in Products : p <= item => staging'[p] = Generated(run)
      BY <3>1 DEF Put, IInv, ProductTypeOK, Progress, Stage, Products
    <3>3. QED
      BY <2>1, <3>1, <3>2 DEF Progress, Generated
  <2>2. CASE step' # "preflight"
    BY <2>2 DEF Stage, Return, Progress
  <2>3. QED
    BY <2>1, <2>2
<1>5. Report'
  <2>1. CASE step' = "cleanup"
    <3>1. outcome' = "refused"
      BY <2>1 DEF Stage, Return
    <3>2. \A p \in Products : AsBefore(p)'
      BY RefusalLeaves DEF Stage, AsBefore, Checking, Theirs
    <3>3. QED
      BY <2>1, <3>1, <3>2 DEF Report, Undoing
  <2>2. CASE step' # "cleanup"
    BY <2>2 DEF Stage, Return, Report, Undoing
  <2>3. QED
    BY <2>1, <2>2
<1>6. AcceptedKept'
  BY DEF Stage, IInv, AcceptedKept, AllNew, Generated
<1>7. QED
  BY <1>1, <1>2, <1>3, <1>4, <1>5, <1>6 DEF IInv

LEMMA PreflightInv ==
  ASSUME IInv, Preflight
  PROVE  IInv'
<1>1. item \in 1 .. N
  BY DEF IInv, ProductTypeOK, Products
<1>2. \/ step' = "cleanup" /\ item' = item /\ outcome' = "refused"
      \/ step' = "stage" /\ item' = item + 1 /\ item < N /\ outcome' = outcome
      \/ step' = "backup" /\ item' = 1 /\ item = N /\ outcome' = outcome
  <2>1. Advance("stage", "backup") =>
          \/ step' = "stage" /\ item' = item + 1 /\ item < N
          \/ step' = "backup" /\ item' = 1 /\ item = N
    BY <1>1, ProductAssumption DEF Advance
  <2>2. QED
    BY <2>1 DEF Preflight, Return
<1>3. ProductTypeOK'
  <2>1. existed' \in [Products -> BOOLEAN]
    BY DEF Preflight, Put, IInv, ProductTypeOK
  <2>2. item' \in Products
    BY <1>1, <1>2, ProductAssumption DEF Products
  <2>3. step' \in {"stage", "backup", "cleanup"} /\ outcome' \in {outcome, "refused"}
    BY <1>2
  <2>4. QED
    BY <2>1, <2>2, <2>3 DEF Preflight, IInv, ProductTypeOK
<1>4. Custody'
  <2>1. ASSUME NEW p \in Products, existed'[p]
        PROVE  before[p] \notin Theirs
    <3>1. CASE existed[p]
      BY <3>1 DEF Preflight, IInv, Custody, CustodyOf, Working, Checking
    <3>2. CASE ~ existed[p]
      <4>1. p = item /\ Owned(output[p])
        BY <2>1, <3>2 DEF Preflight, Put, IInv, ProductTypeOK
      <4>2. output[p] \notin Theirs
        BY <4>1, TreesDistinct
      <4>3. QED
        BY <4>2 DEF Preflight, IInv, Custody, CustodyOf, NotYet, Working, Checking
    <3>3. QED
      BY <3>1, <3>2
  <2>2. QED
    BY <2>1 DEF Preflight, IInv, Custody, CustodyOf, Working, Checking, Theirs
<1>5. NotYet'
  BY <1>2 DEF Preflight, IInv, NotYet, Checking
<1>6. Progress'
  <2>1. \A p \in Products : p <= item => staging[p] = Generated(run)
    BY DEF Preflight, IInv, Progress
  <2>2. UNCHANGED <<staging, run>>
    BY DEF Preflight
  <2>3. QED
    BY <1>1, <1>2, <2>1, <2>2 DEF Progress, Generated, Products
<1>7. Report'
  <2>1. CASE step' = "cleanup"
    <3>1. outcome' = "refused"
      BY <1>2, <2>1
    <3>2. \A p \in Products : AsBefore(p)'
      BY RefusalLeaves DEF Preflight, AsBefore, Checking, Theirs
    <3>3. QED
      BY <2>1, <3>1, <3>2 DEF Report, Undoing
  <2>2. CASE step' # "cleanup"
    BY <1>2, <2>2 DEF Report, Undoing
  <2>3. QED
    BY <2>1, <2>2
<1>8. AcceptedKept'
  BY DEF Preflight, IInv, AcceptedKept, AllNew, Generated
<1>9. QED
  BY <1>3, <1>4, <1>5, <1>6, <1>7, <1>8 DEF IInv

LEMMA BackUpInv ==
  ASSUME IInv, BackUp
  PROVE  IInv'
<1>1. item \in 1 .. N
  BY DEF IInv, ProductTypeOK, Products
<1>2. \/ step' = "rollback" /\ item' = N /\ outcome' = "failed"
      \/ step' = "backup" /\ item' = item + 1 /\ item < N /\ outcome' = outcome
      \/ step' = "publish" /\ item' = 1 /\ item = N /\ outcome' = outcome
  <2>1. Advance("backup", "publish") =>
          \/ step' = "backup" /\ item' = item + 1 /\ item < N
          \/ step' = "publish" /\ item' = 1 /\ item = N
    BY <1>1, ProductAssumption DEF Advance
  <2>2. QED
    BY <2>1 DEF BackUp, RollBack
<1>3. \/ UNCHANGED <<output, backup, backupOwned>>
      \/ /\ existed[item]
         /\ output' = Put(output, Absent)
         /\ backup' = Put(backup, output[item])
         /\ backupOwned' = Put(backupOwned, TRUE)
  BY DEF BackUp
<1>4. \A p \in Products : CustodyOf(p)
  BY DEF IInv, Custody, BackUp, Working
<1>5. ProductTypeOK'
  <2>1. item' \in Products /\ step' \in {"backup", "publish", "rollback"}
        /\ outcome' \in {outcome, "failed"}
    BY <1>1, <1>2, ProductAssumption DEF Products
  <2>2. Absent \in Trees /\ output[item] \in Trees
    BY <1>1, ProductAssumption, TreesTyped DEF Absent, IInv, ProductTypeOK, Products
  <2>3. /\ output' \in [Products -> Trees]
        /\ backup' \in [Products -> Trees]
        /\ backupOwned' \in [Products -> BOOLEAN]
    BY <1>3, <2>2 DEF Put, IInv, ProductTypeOK
  <2>4. QED
    BY <2>1, <2>3 DEF BackUp, IInv, ProductTypeOK
<1>6. Custody'
  <2>1. ASSUME NEW p \in Products, UNCHANGED <<output[p], backup[p], backupOwned[p]>>
        PROVE  CustodyOf(p)'
    BY <1>4, <2>1 DEF BackUp, CustodyOf, Theirs, Owned
  <2>2. ASSUME NEW p \in Products, p = item, ~ UNCHANGED <<output, backup, backupOwned>>
        PROVE  CustodyOf(p)'
    <3>1. existed[p] /\ ~ backupOwned[p] /\ ~ published[p]
      <4>1. existed[p]
        BY <1>3, <2>2
      <4>2. p >= item
        BY <1>1, <2>2
      <4>3. QED
        BY <4>1, <4>2 DEF BackUp, IInv, NotYet
    <3>2. before[p] \notin Theirs /\ output[p] = before[p]
      BY <1>4, <3>1 DEF CustodyOf
    <3>3. backup'[p] = before[p] /\ backupOwned'[p]
      BY <1>3, <2>2, <3>2 DEF Put, IInv, ProductTypeOK
    <3>4. ~ published'[p] /\ UNCHANGED before
      BY <3>1 DEF BackUp
    <3>5. QED
      BY <3>2, <3>3, <3>4 DEF CustodyOf, Theirs
  <2>3. ASSUME NEW p \in Products
        PROVE  CustodyOf(p)'
    <3>1. CASE UNCHANGED <<output, backup, backupOwned>>
      BY <2>1, <3>1
    <3>2. CASE p # item /\ ~ UNCHANGED <<output, backup, backupOwned>>
      <4>1. UNCHANGED <<output[p], backup[p], backupOwned[p]>>
        BY <1>3, <3>2 DEF Put, IInv, ProductTypeOK
      <4>2. QED
        BY <2>1, <4>1
    <3>3. CASE p = item /\ ~ UNCHANGED <<output, backup, backupOwned>>
      BY <2>2, <3>3
    <3>4. QED
      BY <3>1, <3>2, <3>3
  <2>4. QED
    BY <2>3 DEF Custody
<1>7. NotYet'
  <2>1. \A p \in Products : ~ published[p] /\ (p > item => ~ backupOwned[p])
    BY <1>1 DEF BackUp, IInv, NotYet, Products
  <2>2. \A p \in Products : p # item => UNCHANGED backupOwned[p]
    BY <1>3 DEF Put, IInv, ProductTypeOK
  <2>3. UNCHANGED published
    BY DEF BackUp
  <2>4. QED
    BY <1>1, <1>2, <2>1, <2>2, <2>3 DEF NotYet, Checking, Products
<1>8. Progress'
  BY <1>1, <1>2 DEF BackUp, IInv, Progress, Generated, Products
<1>9. Report'
  BY <1>1, <1>2, ProductAssumption DEF Report, Undoing, Products
<1>10. AcceptedKept'
  <2>1. step' \in Working
    BY <1>2 DEF Working, Undoing
  <2>2. QED
    BY <1>6, <2>1 DEF Custody, CustodyOf, AcceptedKept
<1>11. QED
  BY <1>5, <1>6, <1>7, <1>8, <1>9, <1>10 DEF IInv

LEMMA PublishInv ==
  ASSUME IInv, Publish
  PROVE  IInv'
<1>1. item \in 1 .. N
  BY DEF IInv, ProductTypeOK, Products
<1>2. \/ /\ step' = "rollback" /\ item' = N /\ outcome' = "failed"
         /\ UNCHANGED <<output, staging, published>>
      \/ /\ output[item] = Absent
         /\ output' = Put(output, staging[item])
         /\ staging' = Put(staging, Absent)
         /\ published' = Put(published, TRUE)
         /\ outcome' = outcome
         /\ \/ step' = "publish" /\ item' = item + 1 /\ item < N
            \/ step' = "remove" /\ item' = 1 /\ item = N
  <2>1. Advance("publish", "remove") =>
          \/ step' = "publish" /\ item' = item + 1 /\ item < N
          \/ step' = "remove" /\ item' = 1 /\ item = N
    BY <1>1, ProductAssumption DEF Advance
  <2>2. QED
    BY <2>1 DEF Publish, PublishFails, RollBack
<1>3. UNCHANGED <<backup, existed, backupOwned, run, before>>
  BY DEF Publish
<1>4. \A p \in Products : CustodyOf(p)
  BY DEF IInv, Custody, Publish, Working
<1>5. \A p \in Products :
        IF p < item THEN output[p] = Generated(run) ELSE staging[p] = Generated(run)
  BY DEF IInv, Progress, Publish
<1>6. \A p \in Products : p # item => UNCHANGED <<output[p], staging[p], published[p]>>
  BY <1>2 DEF Put, IInv, ProductTypeOK
<1>7. ProductTypeOK'
  <2>1. item' \in Products /\ step' \in {"publish", "remove", "rollback"}
        /\ outcome' \in {outcome, "failed"}
    <3>1. item' \in {1, N} \/ (item' = item + 1 /\ item < N)
      BY <1>2
    <3>2. item' \in Products
      BY <1>1, <3>1, ProductAssumption DEF Products
    <3>3. QED
      BY <1>2, <3>2
  <2>2. Absent \in Trees /\ staging[item] \in Trees
    BY <1>1, ProductAssumption, TreesTyped DEF Absent, IInv, ProductTypeOK, Products
  <2>3. /\ output' \in [Products -> Trees]
        /\ staging' \in [Products -> Trees]
        /\ published' \in [Products -> BOOLEAN]
    BY <1>2, <2>2 DEF Put, IInv, ProductTypeOK
  <2>4. QED
    BY <1>3, <2>1, <2>3 DEF IInv, ProductTypeOK
<1>8. ASSUME NEW p \in Products
      PROVE  CustodyOf(p)'
  <2>1. CASE UNCHANGED <<output[p], published[p]>>
    BY <1>3, <1>4, <2>1 DEF CustodyOf, Theirs, Owned
  <2>2. CASE ~ UNCHANGED <<output[p], published[p]>>
    <3>1. p = item
      BY <1>6, <2>2
    <3>2. output[p] = Absent /\ output'[p] = Generated(run) /\ published'[p]
      BY <1>1, <1>2, <1>5, <2>2, <3>1 DEF Put, IInv, ProductTypeOK
    <3>3. Owned(output'[p]) /\ Absent \in Theirs
      BY <3>2 DEF Owned, Generated, Tree, Theirs
    <3>4. before[p] \notin Theirs => backupOwned[p]
      BY <1>4, <3>2, <3>3 DEF CustodyOf
    <3>5. QED
      BY <1>3, <1>4, <3>2, <3>3, <3>4 DEF CustodyOf, Theirs, Owned
  <2>3. QED
    BY <2>1, <2>2
<1>9. Custody'
  BY <1>8 DEF Custody
<1>10. NotYet'
  BY <1>2 DEF NotYet, Checking
<1>11. Progress'
  <2>1. CASE UNCHANGED <<output, staging, published>>
    BY <1>1, <1>2, <1>3, <1>5, <1>6, <2>1 DEF Progress, Checking, AllNew, Generated, Products, Put, IInv, ProductTypeOK
  <2>2. CASE ~ UNCHANGED <<output, staging, published>>
    <3>1. output'[item] = Generated(run)
      <4>1. item \in Products /\ staging[item] = Generated(run)
        BY <1>1, <1>5 DEF Products
      <4>2. output' = Put(output, staging[item])
        BY <1>2, <2>2
      <4>3. QED
        BY <4>1, <4>2 DEF Put, IInv, ProductTypeOK
    <3>2. \A p \in Products : IF p <= item THEN output'[p] = Generated(run)
                                           ELSE staging'[p] = Generated(run)
      BY <1>1, <1>5, <1>6, <3>1 DEF Products
    <3>3. CASE step' = "publish"
      BY <1>1, <1>2, <1>3, <2>2, <3>2, <3>3 DEF Progress, Generated, Products
    <3>4. CASE step' = "remove"
      BY <1>1, <1>2, <1>3, <2>2, <3>2, <3>4 DEF Progress, AllNew, Generated, Products
    <3>5. QED
      BY <1>2, <2>2, <3>3, <3>4
  <2>3. QED
    BY <2>1, <2>2
<1>12. Report'
  <2>1. \/ step' \in {"publish", "remove"}
        \/ step' = "rollback" /\ item' = N /\ outcome' = "failed"
    BY <1>2
  <2>2. QED
    BY <2>1, ProductAssumption DEF Report, Undoing, Products
<1>13. AcceptedKept'
  BY <1>8, <1>11, <1>2 DEF CustodyOf, AcceptedKept
<1>14. QED
  BY <1>7, <1>9, <1>10, <1>11, <1>12, <1>13 DEF IInv

LEMMA RemoveCopyInv ==
  ASSUME IInv, RemoveCopy
  PROVE  IInv'
<1>1. item \in 1 .. N
  BY DEF IInv, ProductTypeOK, Products
<1>2. \/ step' = "cleanup" /\ item' = item /\ outcome' \in {"ok", "leftover"}
      \/ step' = "remove" /\ item' = item + 1 /\ item < N /\ outcome' = outcome
  BY <1>1 DEF RemoveCopy, Return, Advance
<1>3. AllNew /\ AllNew'
  BY DEF RemoveCopy, IInv, Progress, AllNew, Generated
<1>4. ProductTypeOK'
  <2>1. item' \in Products /\ step' \in {"remove", "cleanup"}
        /\ outcome' \in {outcome, "ok", "leftover"}
    BY <1>1, <1>2, ProductAssumption DEF Products
  <2>2. Absent \in Trees /\ \A tree \in Remains(backup[item]) : tree \in Trees
    BY <1>1, ProductAssumption, TreesTyped, RemainsTyped
    DEF Absent, IInv, ProductTypeOK, Products
  <2>3. backup' \in [Products -> Trees] /\ backupOwned' \in [Products -> BOOLEAN]
    BY <2>2 DEF RemoveCopy, Put, IInv, ProductTypeOK
  <2>4. QED
    BY <2>1, <2>3 DEF RemoveCopy, IInv, ProductTypeOK
<1>5. QED
  BY <1>2, <1>3, <1>4
  DEF IInv, Custody, NotYet, Progress, Report, AcceptedKept, Working, Checking, Undoing

LEMMA RemovePublishedInv ==
  ASSUME IInv, RemovePublished
  PROVE  IInv'
<1>1. item \in 1 .. N
  BY DEF IInv, ProductTypeOK, Products
<1>2. \/ /\ step' = "restore" /\ item' = item /\ outcome' = outcome
         /\ \/ ~ published[item] /\ UNCHANGED <<output, published>>
            \/ /\ published[item]
               /\ output' = Put(output, Absent)
               /\ published' = Put(published, FALSE)
      \/ /\ outcome' = "incomplete"
         /\ \/ step' = "rollback" /\ item > 1 /\ item' = item - 1
            \/ step' = "cleanup" /\ item' = item
         /\ published[item]
         /\ \E tree \in Remains(output[item]) : output' = Put(output, tree)
         /\ UNCHANGED published
  BY <1>1 DEF RemovePublished, Previous
<1>3. UNCHANGED <<staging, backup, existed, backupOwned, run, before>>
  BY DEF RemovePublished
<1>4. \A p \in Products : CustodyOf(p)
  BY DEF IInv, Custody, RemovePublished, Working, Undoing
<1>5. \A p \in Products : p # item => UNCHANGED <<output[p], published[p]>>
  BY <1>2 DEF Put, IInv, ProductTypeOK
<1>6. ProductTypeOK'
  <2>1. item' \in Products /\ step' \in {"rollback", "restore", "cleanup"}
        /\ outcome' \in {outcome, "incomplete"}
    <3>1. item' = item \/ (item' = item - 1 /\ item > 1)
      BY <1>2
    <3>2. item' \in Products
      BY <1>1, <3>1, ProductAssumption DEF Products
    <3>3. QED
      BY <1>2, <3>2
  <2>2. Absent \in Trees /\ \A tree \in Remains(output[item]) : tree \in Trees
    BY <1>1, ProductAssumption, TreesTyped, RemainsTyped
    DEF Absent, IInv, ProductTypeOK, Products
  <2>3. output' \in [Products -> Trees] /\ published' \in [Products -> BOOLEAN]
    BY <1>2, <2>2 DEF Put, IInv, ProductTypeOK
  <2>4. QED
    BY <1>3, <2>1, <2>3 DEF IInv, ProductTypeOK
<1>7. ASSUME NEW p \in Products
      PROVE  CustodyOf(p)'
  <2>1. CASE UNCHANGED <<output[p], published[p]>>
    BY <1>3, <1>4, <2>1 DEF CustodyOf, Theirs, Owned
  <2>2. CASE ~ UNCHANGED <<output[p], published[p]>>
    <3>1. p = item /\ published[p]
      BY <1>2, <1>5, <2>2
    <3>2. \/ output'[p] = Absent /\ ~ published'[p]
          \/ output'[p] \in Remains(output[p]) /\ published'[p]
      BY <1>2, <2>2, <3>1 DEF Put, IInv, ProductTypeOK
    <3>3. Absent \in Theirs /\ (published'[p] => Owned(output'[p]))
      BY <1>4, <3>1, <3>2, RemainsTyped DEF CustodyOf, Theirs, IInv, ProductTypeOK
    <3>4. before[p] \notin Theirs => backupOwned[p]
      BY <1>4, <3>1 DEF CustodyOf
    <3>5. QED
      BY <1>3, <1>4, <3>1, <3>2, <3>3, <3>4 DEF CustodyOf, Theirs, Owned
  <2>3. QED
    BY <2>1, <2>2
<1>8. Custody'
  BY <1>7 DEF Custody
<1>9. NotYet'
  <2>1. step' = "restore" => ~ published'[item']
    BY <1>1, <1>2 DEF Put, IInv, ProductTypeOK, Products
  <2>2. QED
    BY <1>2, <2>1 DEF NotYet, Checking
<1>10. Progress'
  BY <1>2 DEF Progress, Checking
<1>11. Report'
  <2>1. outcome' \in {"failed", "incomplete"}
    BY <1>2 DEF RemovePublished, IInv, Report, Undoing
  <2>2. ASSUME outcome' = "failed"
        PROVE  /\ step' = "restore" /\ item' = item
               /\ \A p \in Products : p > item => AsBefore(p)'
    <3>1. step' = "restore" /\ item' = item /\ outcome' = outcome
      BY <1>2, <2>2
    <3>2. \A p \in Products : p > item => AsBefore(p) /\ UNCHANGED output[p]
      BY <1>1, <1>5, <2>2, <3>1 DEF RemovePublished, IInv, Report, Undoing, Products
    <3>3. QED
      BY <1>3, <3>1, <3>2 DEF AsBefore, Theirs
  <2>3. QED
    BY <2>1, <2>2 DEF Report, Undoing
<1>12. AcceptedKept'
  BY <1>7 DEF CustodyOf, AcceptedKept
<1>13. QED
  BY <1>6, <1>8, <1>9, <1>10, <1>11, <1>12 DEF IInv

LEMMA RestoreInv ==
  ASSUME IInv, Restore
  PROVE  IInv'
<1>1. item \in 1 .. N
  BY DEF IInv, ProductTypeOK, Products
<1>2. \/ step' = "rollback" /\ item > 1 /\ item' = item - 1
      \/ step' = "cleanup" /\ item = 1 /\ item' = item
  BY <1>1 DEF Restore, Previous
<1>3. \/ ~ backupOwned[item] /\ UNCHANGED <<output, backup, backupOwned, outcome>>
      \/ /\ backupOwned[item]
         /\ output[item] = Absent
         /\ output' = Put(output, backup[item])
         /\ backup' = Put(backup, Absent)
         /\ backupOwned' = Put(backupOwned, FALSE)
         /\ UNCHANGED outcome
      \/ outcome' = "incomplete" /\ UNCHANGED <<output, backup, backupOwned>>
  BY DEF Restore
<1>4. UNCHANGED <<staging, existed, published, run, before>>
  BY DEF Restore
<1>5. ~ published[item] /\ \A p \in Products : CustodyOf(p)
  BY DEF IInv, NotYet, Custody, Restore, Working, Undoing
<1>6. \A p \in Products : p # item => UNCHANGED <<output[p], backup[p], backupOwned[p]>>
  BY <1>3 DEF Put, IInv, ProductTypeOK
<1>7. ProductTypeOK'
  <2>1. item' \in Products /\ step' \in {"rollback", "cleanup"}
        /\ outcome' \in {outcome, "incomplete"}
    <3>1. item' \in Products
      BY <1>1, <1>2, ProductAssumption DEF Products
    <3>2. QED
      BY <1>2, <1>3, <3>1
  <2>2. Absent \in Trees /\ backup[item] \in Trees
    BY <1>1, ProductAssumption, TreesTyped DEF Absent, IInv, ProductTypeOK, Products
  <2>3. /\ output' \in [Products -> Trees]
        /\ backup' \in [Products -> Trees]
        /\ backupOwned' \in [Products -> BOOLEAN]
    BY <1>3, <2>2 DEF Put, IInv, ProductTypeOK
  <2>4. QED
    BY <1>4, <2>1, <2>3 DEF IInv, ProductTypeOK
<1>8. ASSUME NEW p \in Products
      PROVE  /\ CustodyOf(p)'
             /\ p = item => outcome' = "incomplete" \/ AsBefore(p)'
  <2>1. CASE UNCHANGED <<output[p], backup[p], backupOwned[p]>> /\ ~ (p = item /\ backupOwned[p])
    BY <1>4, <1>5, <2>1 DEF CustodyOf, Theirs, Owned, AsBefore
  <2>2. CASE p = item /\ backupOwned[p] /\ outcome' = "incomplete"
             /\ UNCHANGED <<output, backup, backupOwned>>
    BY <1>4, <1>5, <2>2 DEF CustodyOf, Theirs, Owned
  <2>3. CASE p = item /\ backupOwned[p]
             /\ ~ (outcome' = "incomplete" /\ UNCHANGED <<output, backup, backupOwned>>)
    <3>1. output'[p] = backup[p] /\ ~ backupOwned'[p]
      BY <1>3, <2>3 DEF Put, IInv, ProductTypeOK
    <3>2. backup[p] = before[p] /\ before[p] \notin Theirs /\ ~ published[p]
      BY <1>5, <2>3 DEF CustodyOf
    <3>3. QED
      BY <1>4, <3>1, <3>2 DEF CustodyOf, Theirs, AsBefore
  <2>4. QED
    BY <1>3, <1>6, <2>1, <2>2, <2>3
<1>9. Custody'
  BY <1>8 DEF Custody
<1>10. NotYet' /\ Progress'
  BY <1>2 DEF NotYet, Progress, Checking
<1>11. Report'
  <2>1. outcome' \in {"failed", "incomplete"}
    BY <1>3 DEF Restore, IInv, Report, Undoing
  <2>2. ASSUME outcome' = "failed", NEW p \in Products, p >= item
        PROVE  AsBefore(p)'
    <3>1. CASE p = item
      BY <1>8, <2>2, <3>1
    <3>2. CASE p # item
      <4>1. outcome = "failed" /\ p > item
        <5>1. outcome = "failed"
          BY <1>3, <2>2
        <5>2. p > item
          BY <1>1, <2>2, <3>2 DEF Products
        <5>3. QED
          BY <5>1, <5>2
      <4>2. AsBefore(p) /\ UNCHANGED output[p]
        BY <1>6, <3>2, <4>1 DEF Restore, IInv, Report, Undoing
      <4>3. QED
        BY <1>4, <4>2 DEF AsBefore, Theirs
    <3>3. QED
      BY <3>1, <3>2
  <2>3. QED
    BY <1>1, <1>2, <2>1, <2>2 DEF Report, Undoing, Products
<1>12. AcceptedKept'
  BY <1>8 DEF CustodyOf, AcceptedKept
<1>13. QED
  BY <1>7, <1>9, <1>10, <1>11, <1>12 DEF IInv

LEMMA CleanUpInv ==
  ASSUME IInv, CleanUp
  PROVE  IInv'
<1>1. backup' = backup /\ step' = "returned"
      /\ UNCHANGED <<output, item, existed, backupOwned, published, outcome, run, before>>
  BY DEF CleanUp, CopiesAfterCleanUp, flags
<1>2. ProductTypeOK'
  <2>1. Absent \in Trees
    BY ProductAssumption, TreesTyped DEF Absent
  <2>2. staging' \in [Products -> Trees]
    BY <2>1 DEF CleanUp, IInv, ProductTypeOK
  <2>3. QED
    BY <1>1, <2>2 DEF IInv, ProductTypeOK
<1>3. Report'
  BY <1>1 DEF CleanUp, IInv, Report, Undoing, AllNew, Generated, AsBefore, Theirs
<1>4. AcceptedKept'
  BY <1>1 DEF IInv, AcceptedKept, AllNew, Generated, Theirs
<1>5. QED
  BY <1>1, <1>2, <1>3, <1>4
  DEF IInv, Custody, NotYet, Progress, Working, Checking, Undoing

LEMMA KillInv ==
  ASSUME IInv, Kill
  PROVE  IInv'
<1>1. step' = "killed" /\ UNCHANGED <<output, staging, backup, item, existed, backupOwned,
                                      published, outcome, run, before>>
  BY DEF Kill, flags
<1>2. ProductTypeOK' /\ AcceptedKept'
  BY <1>1 DEF IInv, ProductTypeOK, AcceptedKept, AllNew, Generated, Theirs
<1>3. QED
  BY <1>1, <1>2
  DEF IInv, Custody, NotYet, Progress, Report, Working, Checking, Undoing

LEMMA InterfereInv ==
  ASSUME IInv, Interfere
  PROVE  IInv'
<1>1. UNCHANGED <<staging, backup, step, item, existed, backupOwned, published,
                  outcome, run, before>>
  BY DEF Interfere, flags
<1>2. \A p \in Products : UNCHANGED output[p] \/ {output[p], output'[p]} \subseteq Theirs
  BY DEF Interfere, IInv, ProductTypeOK, Theirs
<1>3. \A p \in Products : output[p] \notin Theirs => UNCHANGED output[p]
  BY <1>2
<1>4. ProductTypeOK'
  <2>1. Absent \in Trees /\ Foreign \in Trees
    BY ProductAssumption, TreesTyped DEF Absent, Foreign
  <2>2. output' \in [Products -> Trees]
    BY <2>1 DEF Interfere, IInv, ProductTypeOK
  <2>3. QED
    BY <1>1, <2>2 DEF IInv, ProductTypeOK
<1>5. \A p \in Products : Generated(run) # output[p] \/ UNCHANGED output[p]
  BY <1>3, TreesDistinct
<1>6. Custody'
  <2>1. ASSUME NEW p \in Products, CustodyOf(p)
        PROVE  CustodyOf(p)'
    <3>1. published[p] => UNCHANGED output[p]
      BY <1>3, <2>1, TreesDistinct DEF CustodyOf
    <3>2. QED
      BY <1>1, <1>2, <2>1, <3>1 DEF CustodyOf, Theirs, Owned
  <2>2. QED
    BY <1>1, <2>1 DEF IInv, Custody
<1>7. NotYet'
  BY <1>1 DEF IInv, NotYet
<1>8. AllNew => AllNew'
  BY <1>1, <1>5 DEF AllNew, Generated
<1>9. \A p \in Products : AsBefore(p) => AsBefore(p)'
  BY <1>1, <1>2 DEF AsBefore, Theirs
<1>10. Progress'
  BY <1>1, <1>5, <1>8 DEF IInv, Progress, Generated
<1>11. Report'
  BY <1>1, <1>8, <1>9 DEF IInv, Report
<1>12. AcceptedKept'
  BY <1>1, <1>3, <1>8 DEF IInv, AcceptedKept, Theirs
<1>13. QED
  BY <1>4, <1>6, <1>7, <1>10, <1>11, <1>12 DEF IInv

LEMMA StutterInv ==
  ASSUME IInv, UNCHANGED vars
  PROVE  IInv'
<1>1. UNCHANGED <<output, staging, backup, step, item, existed, backupOwned, published,
                  outcome, run, before>>
  BY DEF vars, flags
<1>2. Custody' /\ NotYet'
  BY <1>1 DEF IInv, Custody, CustodyOf, NotYet, Theirs, Owned
<1>3. Progress' /\ Report'
  BY <1>1 DEF IInv, Progress, Report, AllNew, AsBefore, Generated, Theirs
<1>4. ProductTypeOK' /\ AcceptedKept'
  BY <1>1 DEF IInv, ProductTypeOK, AcceptedKept, AllNew, Generated, Theirs
<1>5. QED
  BY <1>2, <1>3, <1>4 DEF IInv

LEMMA InductiveInvariant == Spec => []IInv
<1>1. Init => IInv
  BY InitInv
<1>2. IInv /\ [Next]_vars => IInv'
  BY BeginInv, StageInv, PreflightInv, BackUpInv, PublishInv, RemoveCopyInv,
     RemovePublishedInv, RestoreInv, CleanUpInv, KillInv, InterfereInv, StutterInv
  DEF Next, Command
<1>3. QED
  BY <1>1, <1>2, PTL DEF Spec

-----------------------------------------------------------------------------
(* Types, for every number of products and of runs.                        *)
THEOREM ProductTypeCorrect == Spec => []ProductTypeOK
<1>1. IInv => ProductTypeOK
  BY DEF IInv
<1>2. QED
  BY <1>1, InductiveInvariant, PTL

(* publishProducts and rollbackProducts lose no accepted tree: whenever    *)
(* the process is killed and whatever call fails, each tree that the run   *)
(* found is whole under its output name or in its rollback copy, until the *)
(* new trees are all in place.                                             *)
THEOREM AcceptedTreesKept == Spec => []AcceptedKept
<1>1. IInv => AcceptedKept
  BY DEF IInv
<1>2. QED
  BY <1>1, InductiveInvariant, PTL

(* A run that returns has replaced every product or none, and its result   *)
(* says which, unless it reports that its roll back was incomplete.        *)
THEOREM PairReplacedTogether == Spec => []PairReplaced
<1>1. IInv => PairReplaced
  BY DEF IInv, Report, PairReplaced
<1>2. QED
  BY <1>1, InductiveInvariant, PTL

(* No step of the command moves, removes or overwrites what another put    *)
(* under an output name.                                                   *)
THEOREM ForeignTreesUntouched == Spec => ForeignUntouched
<1>1. ASSUME IInv, Command, NEW p \in Products, output[p] = Foreign
      PROVE  output'[p] = Foreign
  <2>1. Foreign \in Theirs /\ Foreign # Absent
    BY DEF Theirs, Foreign, Absent, Tree
  <2>2. CASE UNCHANGED output
    BY <1>1, <2>2
  <2>3. CASE BackUp \/ RemovePublished
    <3>1. \A tree : p # item => Put(output, tree)[p] = output[p]
      BY <1>1 DEF Put, IInv, ProductTypeOK
    <3>2. CustodyOf(item)
      BY <1>1, <2>3 DEF BackUp, RemovePublished, IInv, ProductTypeOK, Custody, Working, Undoing
    <3>3. p = item => ~ published[item]
      BY <1>1, <2>1, <3>2, TreesDistinct DEF CustodyOf
    <3>4. CASE RemovePublished
      <4>1. UNCHANGED output \/ (published[item] /\ \E tree : output' = Put(output, tree))
        BY <3>4 DEF RemovePublished
      <4>2. QED
        BY <1>1, <3>1, <3>3, <4>1
    <3>5. CASE BackUp
      <4>1. item \in Int /\ item >= item
        BY <1>1 DEF IInv, ProductTypeOK, Products
      <4>2. ~ backupOwned[item] /\ ~ published[item]
        BY <1>1, <3>5, <4>1 DEF BackUp, IInv, NotYet, ProductTypeOK
      <4>3. p = item => ~ existed[item]
        BY <1>1, <2>1, <3>2, <4>2 DEF CustodyOf
      <4>4. QED
        BY <1>1, <3>1, <3>5, <4>3 DEF BackUp
    <3>6. QED
      BY <2>3, <3>4, <3>5
  <2>4. CASE Publish \/ Restore
    BY <1>1, <2>1, <2>4 DEF Publish, Restore, Put, IInv, ProductTypeOK
  <2>5. QED
    BY <1>1, <2>2, <2>3, <2>4
    DEF Command, Begin, Stage, Preflight, RemoveCopy, CleanUp
<1>2. IInv => [Command => \A p \in Products : output[p] = Foreign => output'[p] = Foreign]_vars
  BY <1>1
<1>3. QED
  BY <1>2, InductiveInvariant, PTL DEF ForeignUntouched
=============================================================================
