------------------------- MODULE LiveConformanceProofs -------------------------
(***************************************************************************)
(* For every specification, plan and behaviour of the service: the types   *)
(* and the budget of a live conformance run, that its coordinates come     *)
(* from listings read to the end, and that its report is true.             *)
(*                                                                         *)
(* The budget holds because a discovery never spends more than its share   *)
(* of it (SpendingOK).  ListingClosed speaks of the discoveries that are   *)
(* resolved; SoFar says of the one being read what makes it true in the    *)
(* end: every page asked for is read or lies beyond the last one, and all  *)
(* pages read of a listing agree.  ReportTrue speaks of the end of a run;  *)
(* until then the results are those of the first cases of the plan (Told). *)
(***************************************************************************)
EXTENDS LiveConformance, SequenceTheorems, FiniteSetTheorems, WellFoundedInduction, TLAPS

Discoveries == plan.discoveries

ResultType  == [id : STRING, operation : Nat, query : Partitions \cup {None},
                outcome : {"passed", "failed"}, evidence : {"valid", "invalid"}]
PageType    == [request : RequestType, total : 0 .. MaxPages, rows : SUBSET STRING]

(* The plan is one that Preflight accepted. *)
PlanOK == plan \in InputType /\ Preflight(plan)

(* Where execute is.  No case runs before every discovery is resolved. *)
CountersOK ==
  /\ pc \in {"start", "discover", "done"}
  /\ d \in 1 .. Len(Discoveries) + 1
  /\ r \in Nat \ {0} /\ (d <= Len(Discoveries) => r <= Len(Discovery.requests) + 1)
  /\ d > Len(Discoveries) => r = 1
  /\ c \in 1 .. Len(Cases) + 1
  /\ pc = "start" \/ d <= Len(Discoveries) => c = 1 /\ results = <<>>

(* What is spent: each discovery no more than the requests it has made. *)
SpendingOK ==
  /\ budget \in [used : Nat, discoveryUsed : Nat]
  /\ budget.used = budget.discoveryUsed + Len(results)
  /\ Len(results) <= Len(Cases)
  /\ budget.discoveryUsed <= DiscoveryBudget(plan)
  /\ pc # "done" /\ d <= Len(Discoveries) =>
       budget.discoveryUsed <= BudgetUpTo(plan)[d - 1] + (r - 1)

FindingOK ==
  /\ observed \in [Partitions -> -1 .. MaxPages]
  /\ coordinates \in [Ids(Cases) -> Partitions \cup {None}]
  /\ resolved \in [Ids(Cases) -> Partitions \cup {None}]
  /\ pages \in [DOMAIN Discoveries -> SUBSET PageType]
  /\ \A i \in DOMAIN Discoveries : i > d => pages[i] = {}

(* The last page of a listing of so many pages; an empty one has its first. *)
LastPage(total) == IF total = 0 THEN 1 ELSE total

(* A coordinate of the case was found on a page of the listing. *)
Found(i, id, partition) ==
  /\ \E j \in DOMAIN Discoveries[i].targets :
       /\ Discoveries[i].targets[j].case = id
       /\ partition[1] \in Discoveries[i].targets[j].types
  /\ \E page \in pages[i] : id \in page.rows /\ page.request.partition = partition

(* What is read of the listings of the discovery so far. *)
PagesAgree ==
  \A page \in pages[d] :
    /\ observed[page.request.partition] = page.total
    /\ page.request.page \in 1 .. LastPage(page.total)
NoneMissed ==
  \A j \in 1 .. r - 1 :
    LET request == Discovery.requests[j] IN
    /\ observed[request.partition] # Unread
    /\ request.page <= LastPage(observed[request.partition]) =>
         \E page \in pages[d] : page.request = request
WithinReach ==
  \A partition \in Partitions : observed[partition] # Unread =>
    /\ 1 .. LastPage(observed[partition]) \subseteq PagesOf(Discovery.requests, partition)
    /\ \E page \in pages[d] : page.request.partition = partition
CoordinatesFound ==
  \A id \in Ids(Cases) : coordinates[id] # None => Found(d, id, coordinates[id])
ReadSoFar == PagesAgree /\ NoneMissed /\ WithinReach /\ CoordinatesFound
SoFar ==
  pc # "done" /\ d <= Len(Discoveries) => ReadSoFar

(* The cases whose coordinate is there are the targets so far. *)
Supplied(id) ==
  \E i \in 1 .. d - 1 :
    \E j \in DOMAIN Discoveries[i].targets : Discoveries[i].targets[j].case = id
SuppliedOnly == \A id \in Ids(Cases) : resolved[id] # None <=> Supplied(id)

(* The results so far are those of the first cases of the plan. *)
Told ==
  /\ results \in Seq(ResultType)
  /\ \A i \in 1 .. Len(results) :
       /\ results[i].id = Cases[i].id /\ results[i].operation = Cases[i].operation
       /\ results[i].query = resolved[Cases[i].id]
       /\ pc # "done" => results[i].outcome = "passed"
  /\ pc # "done" => Len(results) = c - 1

Reported == (report = NoReport <=> pc # "done") /\ ReportTrue

CInv == /\ PlanOK /\ CountersOK /\ SpendingOK /\ FindingOK
        /\ SoFar /\ ListingClosed /\ SuppliedOnly /\ Told /\ Reported

-----------------------------------------------------------------------------
(* Numbers and sequences. *)

LEMMA LeastNumber ==
  ASSUME NEW S \in SUBSET Nat, S # {}
  PROVE  \E x \in S : \A y \in S : x <= y
<1>1. PICK x \in S : \A y \in S : <<y, x>> \notin OpToRel(<, Nat)
  BY NatLessThanWellFounded, WFMin
<1>2. \A y \in S : ~ (y < x)
  BY <1>1 DEF OpToRel
<1> QED
  BY <1>2

(* Induction, for a set of numbers. *)
LEMMA EveryNumber ==
  ASSUME NEW S \in SUBSET Nat, 0 \in S, \A n \in S : n + 1 \in S
  PROVE  \A n \in Nat : n \in S
<1> SUFFICES ASSUME Nat \ S # {} PROVE FALSE
  OBVIOUS
<1>1. PICK x \in Nat \ S : \A y \in Nat \ S : x <= y
  BY LeastNumber
<1>2. x # 0 /\ x - 1 \in Nat
  BY <1>1
<1>3. x - 1 \in S
  BY <1>1, <1>2
<1>4. (x - 1) + 1 = x
  BY <1>1
<1> QED
  BY <1>1, <1>3, <1>4

LEMMA GreatestIs ==
  ASSUME NEW S \in SUBSET Int, NEW m \in S, \A x \in S : x <= m
  PROVE  Max(S) = m
<1> DEFINE P(x) == \A y \in S : x >= y
<1>1. m \in S /\ P(m)
  OBVIOUS
<1>2. Max(S) \in S /\ P(Max(S))
  BY <1>1 DEF Max
<1> DEFINE most == Max(S)
<1>3. most \in Int /\ m \in Int /\ most >= m /\ most <= m
  BY <1>2
<1> HIDE DEF most
<1>4. most = m
  BY <1>3
<1> QED
  BY <1>4 DEF most

LEMMA GreatestNumber ==
  ASSUME NEW S \in SUBSET Nat, S # {}, NEW n \in Nat, \A x \in S : x <= n
  PROVE  Max(S) \in S /\ \A x \in S : x <= Max(S)
<1> DEFINE D == {n - x : x \in S}
<1>1. D \in SUBSET Nat /\ D # {}
  <2>1. \A x \in S : n - x \in Nat
    OBVIOUS
  <2> QED
    BY <2>1
<1> HIDE DEF D
<1>2. PICK least \in D : \A y \in D : least <= y
  BY <1>1, LeastNumber
<1>3. PICK m \in S : least = n - m
  BY DEF D
<1>4. \A x \in S : x <= m
  <2> SUFFICES ASSUME NEW x \in S PROVE x <= m
    OBVIOUS
  <2>1. n - x \in D
    BY DEF D
  <2>2. n - m <= n - x
    BY <1>2, <1>3, <2>1
  <2> QED
    BY <2>2
<1>5. Max(S) = m
  BY <1>4, GreatestIs
<1> QED
  BY <1>4, <1>5

(* What a plan's discoveries may spend, from one to the next. *)
LEMMA BudgetSteps ==
  ASSUME NEW p, NEW n \in Nat, Len(p.discoveries) = n
  PROVE  /\ BudgetUpTo(p)[0] = 0
         /\ \A i \in 1 .. n : BudgetUpTo(p)[i] = BudgetUpTo(p)[i - 1] + p.discoveries[i].max
<1> DEFINE m(i)    == p.discoveries[i].max
           Up(f, k) == f = [i \in 0 .. k |-> IF i = 0 THEN 0 ELSE f[i - 1] + m(i)]
           S       == {k \in Nat : \E f : Up(f, k)}
<1>1. 0 \in S
  <2>1. Up([i \in 0 .. 0 |-> 0], 0)
    OBVIOUS
  <2> QED
    BY <2>1
<1>2. ASSUME NEW k \in S PROVE k + 1 \in S
  <2>1. PICK f : Up(f, k)
    BY <1>2
  <2> DEFINE g == [i \in 0 .. k + 1 |-> IF i = k + 1 THEN f[k] + m(k + 1) ELSE f[i]]
  <2>2. k \in Nat
    OBVIOUS
  <2>3. Up(g, k + 1)
    <3>1. ASSUME NEW i \in 0 .. k + 1
          PROVE  g[i] = IF i = 0 THEN 0 ELSE g[i - 1] + m(i)
      <4>1. CASE i = k + 1
        <5>1. i # 0 /\ i - 1 = k /\ k \in 0 .. k + 1 /\ k # k + 1
          BY <2>2, <4>1
        <5> QED
          BY <4>1, <5>1
      <4>2. CASE i # k + 1
        <5>1. i \in 0 .. k /\ (i # 0 => i - 1 \in 0 .. k + 1 /\ i - 1 # k + 1)
          BY <2>2, <4>2
        <5>2. f[i] = IF i = 0 THEN 0 ELSE f[i - 1] + m(i)
          BY <2>1, <5>1
        <5> QED
          BY <4>2, <5>1, <5>2
      <4> QED
        BY <4>1, <4>2
    <3> HIDE DEF m
    <3> QED
      BY <3>1
  <2> HIDE DEF g, Up
  <2>4. k + 1 \in Nat /\ \E h : Up(h, k + 1)
    BY <2>2, <2>3
  <2> QED
    BY <2>4
<1>3. n \in S
  <2> HIDE DEF S
  <2>1. S \in SUBSET Nat
    BY DEF S
  <2> QED
    BY <1>1, <1>2, <2>1, EveryNumber
<1>4. PICK f : Up(f, n)
  BY <1>3
<1> HIDE DEF m
<1>5. Up(BudgetUpTo(p), n)
  BY <1>4 DEF BudgetUpTo, m
<1> QED
  BY <1>5 DEF m

-----------------------------------------------------------------------------
(* A plan that is run was prepared: Preflight sorts its cases, which      *)
(* changes nothing of what it has checked.                                 *)
LEMMA PlansPrepared ==
  ASSUME NEW p \in Plans
  PROVE  p \in InputType /\ Preflight(p)
<1>0. PICK q \in Inputs :
        /\ Preflight(q)
        /\ \E f \in Orders(q.cases) :
             p = [q EXCEPT !.cases = [i \in DOMAIN q.cases |-> q.cases[f[i]]]]
  BY DEF Plans
<1>1. PICK f \in Orders(q.cases) :
        /\ Preflight(q)
        /\ p = [q EXCEPT !.cases = [i \in DOMAIN q.cases |-> q.cases[f[i]]]]
  BY <1>0
<1> DEFINE n == Len(q.cases)
<1>2. /\ q \in InputType /\ q.cases \in Seq(CaseType) /\ n \in Nat /\ DOMAIN q.cases = 1 .. n
      /\ \A i \in 1 .. n : q.cases[i] \in CaseType
  <2>1. q \in InputType
    BY ConformanceAssumption
  <2>2. q.cases \in Seq(CaseType)
    BY <2>1 DEF InputType
  <2> QED
    BY <2>1, <2>2, LenProperties, ElementOfSeq
<1> HIDE DEF n
<1>3. /\ \A i \in 1 .. n : f[i] \in 1 .. n
      /\ \A k \in 1 .. n : \E i \in 1 .. n : f[i] = k
      /\ \A i, j \in 1 .. n : i < j => q.cases[f[i]].operation < q.cases[f[j]].operation
  BY <1>2 DEF Orders, Bijection, Surjection
<1> DEFINE sorted == [i \in 1 .. n |-> q.cases[f[i]]]
<1>4. sorted \in Seq(CaseType) /\ Len(sorted) = n /\ DOMAIN sorted = 1 .. n
  <2>1. sorted \in [1 .. n -> CaseType]
    BY <1>2, <1>3
  <2> HIDE DEF sorted
  <2>2. sorted \in Seq(CaseType)
    BY <1>2, <2>1
  <2> QED
    BY <1>2, <2>1, <2>2, LenProperties
<1>5. \A i \in 1 .. n : sorted[i] = q.cases[f[i]]
  OBVIOUS
<1> HIDE DEF sorted
<1>6. /\ p.cases = sorted /\ p.discoveries = q.discoveries /\ p \in InputType
  <2>1. p = [q EXCEPT !.cases = sorted]
    BY <1>1, <1>2 DEF sorted
  <2> QED
    BY <1>2, <1>4, <2>1 DEF InputType
<1>7. ASSUME NEW i \in 1 .. n, NEW j \in 1 .. n, i # j
      PROVE  sorted[i].operation # sorted[j].operation /\ f[i] # f[j]
  <2>1. sorted[i].operation \in Nat /\ sorted[j].operation \in Nat
    BY <1>2, <1>3, <1>5 DEF CaseType
  <2>2. sorted[i].operation < sorted[j].operation \/ sorted[j].operation < sorted[i].operation
    <3>1. sorted[i] = q.cases[f[i]] /\ sorted[j] = q.cases[f[j]]
      BY <1>5
    <3>2. i < j \/ j < i
      BY <1>2, <1>7
    <3> QED
      BY <1>3, <3>1, <3>2
  <2>3. sorted[i].operation # sorted[j].operation
    BY <2>1, <2>2
  <2> QED
    BY <1>5, <2>3
<1>8. \A i, j \in DOMAIN p.cases : i # j => p.cases[i].id # p.cases[j].id
  <2>1. \A i, j \in 1 .. n : i # j => q.cases[i].id # q.cases[j].id
    BY <1>1, <1>2 DEF Preflight
  <2> QED
    <3> SUFFICES ASSUME NEW i \in 1 .. n, NEW j \in 1 .. n, i # j
                 PROVE  sorted[i].id # sorted[j].id
      BY <1>4, <1>6
    <3>1. f[i] # f[j] /\ f[i] \in 1 .. n /\ f[j] \in 1 .. n
      BY <1>3, <1>7
    <3>2. q.cases[f[i]].id # q.cases[f[j]].id
      BY <2>1, <3>1
    <3> QED
      BY <1>5, <3>2
<1>9. Covered(p)
  <2>1. Operations = {q.cases[i].operation : i \in 1 .. n}
    BY <1>1, <1>2 DEF Preflight, Covered
  <2>2. {sorted[i].operation : i \in 1 .. n} = {q.cases[i].operation : i \in 1 .. n}
    BY <1>3, <1>5
  <2>3. Operations = {p.cases[i].operation : i \in DOMAIN p.cases}
    BY <1>4, <1>6, <2>1, <2>2
  <2>4. \A i, j \in DOMAIN p.cases : i # j => p.cases[i].operation # p.cases[j].operation
    BY <1>4, <1>6, <1>7
  <2> QED
    BY <2>3, <2>4 DEF Covered
<1>10. \A id, discovery :
         (\E k \in DOMAIN p.cases : p.cases[k].id = id /\ p.cases[k].discovery = discovery)
           <=> \E k \in DOMAIN q.cases : q.cases[k].id = id /\ q.cases[k].discovery = discovery
  <2> SUFFICES ASSUME NEW id, NEW discovery
               PROVE  (\E k \in DOMAIN p.cases : p.cases[k].id = id /\ p.cases[k].discovery = discovery)
                        <=> \E k \in DOMAIN q.cases : q.cases[k].id = id /\ q.cases[k].discovery = discovery
    OBVIOUS
  <2> DEFINE Has(case) == case.id = id /\ case.discovery = discovery
  <2>1. \A k \in 1 .. n : Has(sorted[k]) => \E j \in 1 .. n : Has(q.cases[j])
    BY <1>3, <1>5
  <2>2. \A k \in 1 .. n : Has(q.cases[k]) => \E j \in 1 .. n : Has(sorted[j])
    <3> SUFFICES ASSUME NEW k \in 1 .. n, Has(q.cases[k])
                 PROVE  \E j \in 1 .. n : Has(sorted[j])
      OBVIOUS
    <3>1. PICK j \in 1 .. n : f[j] = k
      BY <1>3
    <3>2. Has(sorted[j])
      BY <1>5, <3>1
    <3> QED
      BY <3>2
  <2>3. p.cases = sorted /\ DOMAIN p.cases = 1 .. n /\ DOMAIN q.cases = 1 .. n
    BY <1>2, <1>4, <1>6
  <2> HIDE DEF Has
  <2>4. (\E k \in DOMAIN p.cases : Has(p.cases[k])) <=> \E k \in DOMAIN q.cases : Has(q.cases[k])
    BY <2>1, <2>2, <2>3
  <2> QED
    BY <2>4 DEF Has
<1>11. PreparedDiscoveries(p)
  <2>1. PreparedDiscoveries(q)
    BY <1>1 DEF Preflight
  <2>2. AllTargets(p) = AllTargets(q) /\ \A a : Target(p, a) = Target(q, a)
    BY <1>6 DEF AllTargets, Target
  <2>3. \A k \in DOMAIN p.cases :
          (p.cases[k].discovery # None)
            <=> \E a \in AllTargets(p) : Target(p, a).case = p.cases[k].id
    <3> SUFFICES ASSUME NEW k \in 1 .. n
                 PROVE  (sorted[k].discovery # None)
                          <=> \E a \in AllTargets(q) : Target(q, a).case = sorted[k].id
      BY <1>4, <1>6, <2>2
    <3>1. f[k] \in DOMAIN q.cases /\ sorted[k] = q.cases[f[k]]
      BY <1>2, <1>3, <1>5
    <3> QED
      BY <2>1, <3>1 DEF PreparedDiscoveries
  <2>4. \A i \in DOMAIN p.discoveries :
          LET discovery == p.discoveries[i] IN
          /\ WithinMax(discovery) /\ Contiguous(discovery.requests)
          /\ discovery.targets # <<>>
          /\ \A j \in DOMAIN discovery.targets :
               LET target == discovery.targets[j] IN
               /\ \E k \in DOMAIN p.cases :
                    p.cases[k].id = target.case /\ p.cases[k].discovery = discovery.id
               /\ target.types # {}
               /\ target.types \subseteq {discovery.requests[k].partition[1]
                                            : k \in DOMAIN discovery.requests}
    <3> SUFFICES ASSUME NEW i \in DOMAIN q.discoveries
                 PROVE  LET discovery == q.discoveries[i] IN
                        /\ WithinMax(discovery) /\ Contiguous(discovery.requests)
                        /\ discovery.targets # <<>>
                        /\ \A j \in DOMAIN discovery.targets :
                             LET target == discovery.targets[j] IN
                             /\ \E k \in DOMAIN p.cases :
                                  p.cases[k].id = target.case /\ p.cases[k].discovery = discovery.id
                             /\ target.types # {}
                             /\ target.types \subseteq {discovery.requests[k].partition[1]
                                                          : k \in DOMAIN discovery.requests}
      BY <1>6
    <3>1. LET discovery == q.discoveries[i] IN
          /\ WithinMax(discovery) /\ Contiguous(discovery.requests)
          /\ discovery.targets # <<>>
          /\ \A j \in DOMAIN discovery.targets :
               LET target == discovery.targets[j] IN
               /\ \E k \in DOMAIN q.cases :
                    q.cases[k].id = target.case /\ q.cases[k].discovery = discovery.id
               /\ target.types # {}
               /\ target.types \subseteq {discovery.requests[k].partition[1]
                                            : k \in DOMAIN discovery.requests}
      BY <2>1 DEF PreparedDiscoveries
    <3> DEFINE disc == q.discoveries[i]
    <3>2. \A j \in DOMAIN disc.targets :
            \E k \in DOMAIN p.cases :
              p.cases[k].id = disc.targets[j].case /\ p.cases[k].discovery = disc.id
      <4> SUFFICES ASSUME NEW j \in DOMAIN disc.targets
                   PROVE  \E k \in DOMAIN p.cases :
                            p.cases[k].id = disc.targets[j].case /\ p.cases[k].discovery = disc.id
        OBVIOUS
      <4>1. \E k \in DOMAIN q.cases :
              q.cases[k].id = disc.targets[j].case /\ q.cases[k].discovery = disc.id
        BY <3>1
      <4> HIDE DEF disc
      <4> QED
        BY <1>10, <4>1, Zenon
    <3> QED
      BY <3>1, <3>2
  <2>5. /\ p.discoveries # <<>> => ListOperation \in Operations
        /\ \A i, j \in DOMAIN p.discoveries : i # j => p.discoveries[i].id # p.discoveries[j].id
        /\ \A a, b \in AllTargets(p) : a # b => Target(p, a).case # Target(p, b).case
    BY <1>6, <2>1, <2>2 DEF PreparedDiscoveries
  <2> QED
    BY <2>3, <2>4, <2>5 DEF PreparedDiscoveries
<1>12. RequestBudget(p) <= Limit
  <2>1. DiscoveryBudget(p) = DiscoveryBudget(q)
    BY <1>6 DEF DiscoveryBudget, BudgetUpTo
  <2> QED
    BY <1>1, <1>4, <1>6, <2>1 DEF Preflight, RequestBudget, n
<1> QED
  BY <1>6, <1>8, <1>9, <1>11, <1>12 DEF Preflight

LEMMA PlanParts ==
  ASSUME PlanOK
  PROVE  /\ Cases \in Seq(CaseType) /\ Len(Cases) \in Nat /\ DOMAIN Cases = 1 .. Len(Cases)
         /\ \A k \in 1 .. Len(Cases) : Cases[k] \in CaseType /\ Cases[k].id \in Ids(Cases)
         /\ \A k, l \in 1 .. Len(Cases) : k # l => Cases[k].id # Cases[l].id
         /\ Discoveries \in Seq(DiscoveryType) /\ Len(Discoveries) \in Nat
         /\ DOMAIN Discoveries = 1 .. Len(Discoveries)
         /\ \A i \in 1 .. Len(Discoveries) : Discoveries[i] \in DiscoveryType
<1>1. Cases \in Seq(CaseType) /\ Discoveries \in Seq(DiscoveryType)
  BY DEF PlanOK, InputType, Cases, Discoveries
<1>2. /\ Len(Cases) \in Nat /\ DOMAIN Cases = 1 .. Len(Cases)
      /\ Len(Discoveries) \in Nat /\ DOMAIN Discoveries = 1 .. Len(Discoveries)
      /\ \A k \in 1 .. Len(Cases) : Cases[k] \in CaseType
      /\ \A i \in 1 .. Len(Discoveries) : Discoveries[i] \in DiscoveryType
  BY <1>1, LenProperties, ElementOfSeq
<1>3. \A k, l \in 1 .. Len(Cases) : k # l => Cases[k].id # Cases[l].id
  BY <1>2 DEF PlanOK, Preflight, Cases
<1>4. \A k \in 1 .. Len(Cases) : Cases[k].id \in Ids(Cases)
  BY <1>2 DEF Ids
<1> QED
  BY <1>1, <1>2, <1>3, <1>4

LEMMA DiscoveryParts ==
  ASSUME PlanOK, NEW i \in 1 .. Len(Discoveries)
  PROVE  /\ Discoveries[i].requests \in Seq(RequestType)
         /\ Len(Discoveries[i].requests) \in Nat \ {0}
         /\ DOMAIN Discoveries[i].requests = 1 .. Len(Discoveries[i].requests)
         /\ \A j \in 1 .. Len(Discoveries[i].requests) :
              Discoveries[i].requests[j] \in RequestType
         /\ Contiguous(Discoveries[i].requests)
         /\ Discoveries[i].max \in Nat /\ Len(Discoveries[i].requests) <= Discoveries[i].max
         /\ Discoveries[i].id \in STRING \ {None}
<1>1. Discoveries[i] \in DiscoveryType /\ i \in DOMAIN plan.discoveries
  BY PlanParts DEF Discoveries
<1>2. WithinMax(Discoveries[i]) /\ Contiguous(Discoveries[i].requests)
  BY <1>1 DEF PlanOK, Preflight, PreparedDiscoveries, Discoveries
<1>3. /\ Discoveries[i].requests \in Seq(RequestType) /\ Discoveries[i].max \in Int
      /\ Discoveries[i].id \in STRING \ {None}
  BY <1>1 DEF DiscoveryType
<1> DEFINE requests == Discoveries[i].requests
<1>4. requests # <<>> /\ Len(requests) <= Discoveries[i].max
  BY <1>2 DEF WithinMax
<1>5. /\ Len(requests) \in Nat /\ DOMAIN requests = 1 .. Len(requests)
      /\ \A j \in 1 .. Len(requests) : requests[j] \in RequestType
  BY <1>3, LenProperties, ElementOfSeq
<1>6. Len(requests) # 0
  BY <1>3, <1>4, EmptySeq
<1> QED
  BY <1>2, <1>3, <1>4, <1>5, <1>6

LEMMA TargetParts ==
  ASSUME PlanOK, NEW i \in 1 .. Len(Discoveries), NEW j \in DOMAIN Discoveries[i].targets
  PROVE  /\ DOMAIN Discoveries[i].targets \in SUBSET Nat
         /\ Discoveries[i].targets[j].case \in Ids(Cases)
         /\ Discoveries[i].targets[j].case \in STRING
         /\ \A k \in 1 .. j - 1 : k \in DOMAIN Discoveries[i].targets
<1>1. Discoveries[i] \in DiscoveryType /\ i \in DOMAIN plan.discoveries
  BY PlanParts DEF Discoveries
<1> DEFINE targets == Discoveries[i].targets
<1>2. targets \in Seq(TargetType)
  BY <1>1 DEF DiscoveryType
<1>3. /\ Len(targets) \in Nat /\ DOMAIN targets = 1 .. Len(targets)
      /\ targets[j] \in TargetType
  BY <1>2, LenProperties, ElementOfSeq
<1>4. \E k \in DOMAIN Cases : Cases[k].id = targets[j].case
  BY <1>1 DEF PlanOK, Preflight, PreparedDiscoveries, Discoveries, Cases
<1> QED
  BY <1>3, <1>4 DEF Ids, TargetType

(* A case is the target of one discovery only, and of one target of it. *)
LEMMA OneTarget ==
  ASSUME PlanOK,
         NEW i \in 1 .. Len(Discoveries), NEW j \in DOMAIN Discoveries[i].targets,
         NEW k \in 1 .. Len(Discoveries), NEW l \in DOMAIN Discoveries[k].targets,
         Discoveries[i].targets[j].case = Discoveries[k].targets[l].case
  PROVE  i = k /\ j = l
<1>1. DOMAIN plan.discoveries = 1 .. Len(Discoveries)
  BY PlanParts DEF Discoveries
<1>2. <<i, j>> \in AllTargets(plan) /\ <<k, l>> \in AllTargets(plan)
  BY <1>1 DEF AllTargets, Discoveries
<1>3. Target(plan, <<i, j>>).case = Target(plan, <<k, l>>).case
  BY DEF Target, Discoveries
<1>4. <<i, j>> = <<k, l>>
  BY <1>2, <1>3 DEF PlanOK, Preflight, PreparedDiscoveries
<1> QED
  BY <1>4

(* A case needs a coordinate if and only if it is a target. *)
LEMMA TargetsNeedThem ==
  ASSUME PlanOK, NEW k \in 1 .. Len(Cases)
  PROVE  Cases[k].discovery # None
           <=> \E i \in 1 .. Len(Discoveries) :
                 \E j \in DOMAIN Discoveries[i].targets :
                   Discoveries[i].targets[j].case = Cases[k].id
<1>1. DOMAIN plan.discoveries = 1 .. Len(Discoveries) /\ k \in DOMAIN plan.cases
  BY PlanParts DEF Discoveries, Cases
<1>2. Cases[k].discovery # None <=> \E a \in AllTargets(plan) : Target(plan, a).case = Cases[k].id
  BY <1>1 DEF PlanOK, Preflight, PreparedDiscoveries, Cases
<1>3. (\E a \in AllTargets(plan) : Target(plan, a).case = Cases[k].id)
        <=> \E i \in 1 .. Len(Discoveries) :
              \E j \in DOMAIN Discoveries[i].targets :
                Discoveries[i].targets[j].case = Cases[k].id
  <2>1. ASSUME NEW a \in AllTargets(plan), Target(plan, a).case = Cases[k].id
        PROVE  \E i \in 1 .. Len(Discoveries) :
                 \E j \in DOMAIN Discoveries[i].targets :
                   Discoveries[i].targets[j].case = Cases[k].id
    <3>1. PICK i \in 1 .. Len(Discoveries) : \E j \in DOMAIN Discoveries[i].targets : a = <<i, j>>
      BY <1>1 DEF AllTargets, Discoveries
    <3>2. PICK j \in DOMAIN Discoveries[i].targets : a = <<i, j>>
      BY <3>1
    <3> QED
      BY <2>1, <3>2 DEF Target, Discoveries
  <2>2. ASSUME NEW i \in 1 .. Len(Discoveries), NEW j \in DOMAIN Discoveries[i].targets,
               Discoveries[i].targets[j].case = Cases[k].id
        PROVE  \E a \in AllTargets(plan) : Target(plan, a).case = Cases[k].id
    <3>1. <<i, j>> \in AllTargets(plan)
      BY <1>1 DEF AllTargets, Discoveries
    <3>2. Target(plan, <<i, j>>).case = Cases[k].id
      BY <2>2 DEF Target, Discoveries
    <3> QED
      BY <3>1, <3>2
  <2> QED
    BY <2>1, <2>2
<1> QED
  BY <1>2, <1>3

LEMMA BudgetParts ==
  ASSUME PlanOK
  PROVE  /\ \A i \in 0 .. Len(Discoveries) :
              BudgetUpTo(plan)[i] \in Nat /\ BudgetUpTo(plan)[i] <= DiscoveryBudget(plan)
         /\ BudgetUpTo(plan)[0] = 0
         /\ \A i \in 1 .. Len(Discoveries) :
              BudgetUpTo(plan)[i] = BudgetUpTo(plan)[i - 1] + Discoveries[i].max
         /\ DiscoveryBudget(plan) \in Nat
         /\ Draft.discoveryCeiling = DiscoveryBudget(plan)
         /\ Draft.ceiling = Len(Cases) + DiscoveryBudget(plan)
         /\ Draft.ceiling <= Limit
<1> DEFINE n    == Len(Discoveries)
           B(i) == BudgetUpTo(plan)[i]
<1>1. n \in Nat
  BY PlanParts
<1>2. B(0) = 0 /\ \A i \in 1 .. n : B(i) = B(i - 1) + Discoveries[i].max
  BY <1>1, BudgetSteps DEF Discoveries
<1>3. \A i \in 1 .. n : Discoveries[i].max \in Nat
  BY DiscoveryParts
<1>4. DiscoveryBudget(plan) = B(n)
  BY DEF DiscoveryBudget, Discoveries
<1> HIDE DEF n, B
<1>5. \A i \in 0 .. n : B(i) \in Nat
  <2> DEFINE S == {i \in Nat : i <= n => B(i) \in Nat}
  <2>1. 0 \in S
    BY <1>2
  <2>2. ASSUME NEW i \in S PROVE i + 1 \in S
    <3>1. i \in Nat /\ (i <= n => B(i) \in Nat)
      OBVIOUS
    <3>2. ASSUME i + 1 <= n PROVE B(i + 1) \in Nat
      <4>1. i <= n /\ i + 1 \in 1 .. n /\ (i + 1) - 1 = i
        BY <1>1, <3>1, <3>2
      <4> QED
        BY <1>2, <1>3, <3>1, <4>1
    <3> QED
      BY <3>1, <3>2
  <2>3. S \in SUBSET Nat
    OBVIOUS
  <2> HIDE DEF S
  <2>4. \A i \in Nat : i \in S
    BY <2>1, <2>2, <2>3, EveryNumber
  <2> QED
    BY <1>1, <2>4 DEF S
<1>6. \A i \in 0 .. n : B(i) <= B(n)
  <2> DEFINE S == {k \in Nat : k <= n => B(n - k) <= B(n)}
  <2>1. 0 \in S
    BY <1>1, <1>5
  <2>2. ASSUME NEW k \in S PROVE k + 1 \in S
    <3>1. k \in Nat /\ (k <= n => B(n - k) <= B(n))
      OBVIOUS
    <3>2. ASSUME k + 1 <= n PROVE B(n - (k + 1)) <= B(n)
      <4>1. k <= n /\ n - k \in 1 .. n /\ (n - k) - 1 = n - (k + 1) /\ n - (k + 1) \in 0 .. n
        BY <1>1, <3>1, <3>2
      <4>2. B(n - k) = B(n - (k + 1)) + Discoveries[n - k].max
        BY <1>2, <4>1
      <4>3. B(n - (k + 1)) \in Nat /\ B(n) \in Nat /\ Discoveries[n - k].max \in Nat
        BY <1>1, <1>3, <1>5, <4>1
      <4> QED
        BY <3>1, <4>1, <4>2, <4>3
    <3> QED
      BY <3>1, <3>2
  <2>3. S \in SUBSET Nat
    OBVIOUS
  <2> HIDE DEF S
  <2>4. \A k \in Nat : k \in S
    BY <2>1, <2>2, <2>3, EveryNumber
  <2> SUFFICES ASSUME NEW i \in 0 .. n PROVE B(i) <= B(n)
    OBVIOUS
  <2>5. n - i \in Nat /\ n - i <= n /\ n - (n - i) = i
    BY <1>1
  <2>6. B(n - (n - i)) <= B(n)
    BY <2>4, <2>5 DEF S
  <2> QED
    BY <2>5, <2>6
<1>7. Len(Cases) + DiscoveryBudget(plan) <= Limit
  BY DEF PlanOK, Preflight, RequestBudget, Cases
<1>8. DiscoveryBudget(plan) \in Nat
  BY <1>1, <1>4, <1>5
<1> QED
  BY <1>2, <1>4, <1>5, <1>6, <1>7, <1>8 DEF n, B, Draft, RequestBudget, Cases

-----------------------------------------------------------------------------
(* Reports. *)

(* Results that a report may have: those of the first cases, all counted. *)
Results(cases, spent) ==
  /\ cases \in Seq(ResultType) /\ Len(cases) <= Len(Cases)
  /\ \A i \in 1 .. Len(cases) : cases[i].id = Cases[i].id
  /\ spent \in [used : Nat, discoveryUsed : Nat]
  /\ spent.used = spent.discoveryUsed + Len(cases)
  /\ spent.discoveryUsed <= DiscoveryBudget(plan)

Sound(cases) == \A i \in 1 .. Len(cases) : cases[i].evidence = "valid"

LEMMA ReportCounts ==
  ASSUME PlanOK, NEW cases, NEW spent, Results(cases, spent)
  PROVE  LET primaryCeiling == Draft.ceiling - Draft.discoveryCeiling IN
         /\ Draft.ceiling \in 0 .. Limit /\ Draft.discoveryCeiling \in 0 .. Draft.ceiling
         /\ spent.used \in 0 .. Draft.ceiling /\ spent.discoveryUsed \in 0 .. Draft.discoveryCeiling
         /\ Len(cases) = spent.used - spent.discoveryUsed /\ Len(cases) <= primaryCeiling
         /\ primaryCeiling = Len(Cases)
         /\ DOMAIN cases = 1 .. Len(cases) /\ Len(cases) \in Nat
         /\ \A i, j \in DOMAIN cases : i # j => cases[i].id # cases[j].id
<1>1. /\ Len(cases) \in Nat /\ DOMAIN cases = 1 .. Len(cases) /\ Len(cases) <= Len(Cases)
      /\ spent.used \in Nat /\ spent.discoveryUsed \in Nat
      /\ spent.used = spent.discoveryUsed + Len(cases)
      /\ spent.discoveryUsed <= DiscoveryBudget(plan)
  BY LenProperties DEF Results
<1>2. /\ Len(Cases) \in Nat /\ DiscoveryBudget(plan) \in Nat /\ Limit \in Nat
      /\ Draft.discoveryCeiling = DiscoveryBudget(plan)
      /\ Draft.ceiling = Len(Cases) + DiscoveryBudget(plan)
      /\ Draft.ceiling <= Limit
  BY PlanParts, BudgetParts, ConformanceAssumption
<1>3. \A i, j \in DOMAIN cases : i # j => cases[i].id # cases[j].id
  <2> SUFFICES ASSUME NEW i \in 1 .. Len(cases), NEW j \in 1 .. Len(cases), i # j
               PROVE  cases[i].id # cases[j].id
    BY <1>1
  <2>1. i \in 1 .. Len(Cases) /\ j \in 1 .. Len(Cases)
    BY <1>1, <1>2
  <2>2. Cases[i].id # Cases[j].id
    BY <2>1, PlanParts
  <2> QED
    BY <2>2 DEF Results
<1> QED
  BY <1>1, <1>2, <1>3

(* A failed report is emptied for unsound evidence only. *)
LEMMA FailedIsValid ==
  ASSUME PlanOK, NEW failure, NEW cases, NEW spent, Results(cases, spent),
         cases # <<>> /\ failure.case # None => failure.case = cases[Len(cases)].id,
         cases = <<>> => failure.case = None
  PROVE  ValidReport(Report("failed", failure, spent, cases)) <=> Sound(cases)
<1> DEFINE rep == Report("failed", failure, spent, cases)
<1>1. /\ rep.outcome = "failed" /\ rep.failure = failure /\ rep.cases = cases
      /\ rep.ceiling = Draft.ceiling /\ rep.discoveryCeiling = Draft.discoveryCeiling
      /\ rep.used = spent.used /\ rep.discoveryUsed = spent.discoveryUsed
  BY DEF Report
<1> HIDE DEF rep
<1>2. /\ rep.ceiling \in 0 .. Limit /\ rep.discoveryCeiling \in 0 .. rep.ceiling
      /\ rep.used \in 0 .. rep.ceiling /\ rep.discoveryUsed \in 0 .. rep.discoveryCeiling
      /\ Len(rep.cases) = rep.used - rep.discoveryUsed
      /\ Len(rep.cases) <= rep.ceiling - rep.discoveryCeiling
      /\ \A i, j \in DOMAIN rep.cases : i # j => rep.cases[i].id # rep.cases[j].id
  BY <1>1, ReportCounts
<1>3. DOMAIN cases = 1 .. Len(cases) /\ Len(cases) \in Nat
  BY ReportCounts
<1>4. /\ cases # <<>> /\ failure.case # None => Last(cases).id = failure.case
      /\ failure.case # None => failure.case \in Ids(cases)
  <2>1. ASSUME failure.case # None PROVE cases # <<>> /\ Len(cases) \in DOMAIN cases
    <3>1. cases \in Seq(ResultType) /\ cases # <<>>
      BY <2>1 DEF Results
    <3>2. Len(cases) # 0
      BY <3>1, EmptySeq
    <3> QED
      BY <1>3, <3>1, <3>2
  <2>2. Last(cases) = cases[Len(cases)]
    BY DEF Last
  <2> QED
    BY <2>1, <2>2 DEF Ids
<1>5. (\A i \in DOMAIN rep.cases : rep.cases[i].evidence = "valid") <=> Sound(cases)
  BY <1>1, <1>3 DEF Sound
<1>6. ValidReport(rep) <=> Sound(cases)
  BY <1>1, <1>2, <1>4, <1>5 DEF ValidReport
<1> QED
  BY <1>6 DEF rep

LEMMA PassedIsValid ==
  ASSUME PlanOK, NEW cases, NEW spent, Results(cases, spent), Len(cases) = Len(Cases),
         \A i \in 1 .. Len(cases) : cases[i].outcome = "passed"
  PROVE  ValidReport(Report("passed", NoFailure, spent, cases)) <=> Sound(cases)
<1> DEFINE rep == Report("passed", NoFailure, spent, cases)
<1>1. /\ rep.outcome = "passed" /\ rep.failure = NoFailure /\ rep.cases = cases
      /\ rep.ceiling = Draft.ceiling /\ rep.discoveryCeiling = Draft.discoveryCeiling
      /\ rep.used = spent.used /\ rep.discoveryUsed = spent.discoveryUsed
  BY DEF Report
<1> HIDE DEF rep
<1>2. /\ rep.ceiling \in 0 .. Limit /\ rep.discoveryCeiling \in 0 .. rep.ceiling
      /\ rep.used \in 0 .. rep.ceiling /\ rep.discoveryUsed \in 0 .. rep.discoveryCeiling
      /\ Len(rep.cases) = rep.used - rep.discoveryUsed
      /\ Len(rep.cases) = rep.ceiling - rep.discoveryCeiling
      /\ Len(rep.cases) <= rep.ceiling - rep.discoveryCeiling
      /\ \A i, j \in DOMAIN rep.cases : i # j => rep.cases[i].id # rep.cases[j].id
  BY <1>1, ReportCounts
<1>3. DOMAIN cases = 1 .. Len(cases)
  BY ReportCounts
<1>4. (\A i \in DOMAIN rep.cases : rep.cases[i].evidence = "valid") <=> Sound(cases)
  BY <1>1, <1>3 DEF Sound
<1>5. \A i \in DOMAIN rep.cases : rep.cases[i].outcome = "passed"
  BY <1>1, <1>3
<1>6. ValidReport(rep) <=> Sound(cases)
  BY <1>1, <1>2, <1>4, <1>5 DEF ValidReport
<1> QED
  BY <1>6 DEF rep

(* A run that fails tells what befell it. *)
LEMMA FailTells ==
  ASSUME PlanOK, NEW failure, NEW cases, NEW spent, Results(cases, spent),
         failure.case = None <=> cases = <<>>, cases = <<>> => c' = 1,
         failure.case # None => failure.case = cases[Len(cases)].id,
         failure.code \notin {"report-sanitization", "request-budget", "discovery-budget"},
         failure.code \in Codes => cases[Len(cases)].outcome = "failed",
         FailReport(failure, spent, cases), results' = cases
  PROVE  Reported' /\ pc' = "done"
<1> DEFINE rep == Report("failed", failure, spent, cases)
<1>1. pc' = "done" /\ report' = IF ValidReport(rep) THEN rep ELSE Sanitized
  BY DEF FailReport
<1>2. ValidReport(rep) <=> Sound(cases)
  BY FailedIsValid
<1>3. /\ rep.outcome = "failed" /\ rep.failure = failure /\ rep.cases = cases
      /\ rep.used = spent.used /\ rep.discoveryUsed = spent.discoveryUsed
  BY DEF Report
<1> HIDE DEF rep
<1>4. DOMAIN cases = 1 .. Len(cases) /\ \A i \in 1 .. Len(cases) : cases[i].evidence \in {"valid", "invalid"}
  <2>1. cases \in Seq(ResultType)
    BY DEF Results
  <2>2. \A i \in 1 .. Len(cases) : cases[i] \in ResultType
    BY <2>1, ElementOfSeq
  <2> QED
    BY <2>1, <2>2, LenProperties DEF ResultType
<1>5. report'.outcome = "failed" /\ report' # NoReport
  <2>1. report'.outcome = "failed"
    BY <1>1, <1>3 DEF Sanitized
  <2> QED
    BY <2>1 DEF NoReport, None
<1>6. PassedMeansAll'
  BY <1>5 DEF PassedMeansAll
<1>7. FailureTold'
  <2>1. CASE Sound(cases)
    <3>1. ~ \E i \in DOMAIN results' : results'[i].evidence = "invalid"
      BY <1>4, <2>1 DEF Sound
    <3>2. report' = rep
      BY <1>1, <1>2, <2>1
    <3>3. Last(results') = cases[Len(cases)]
      BY DEF Last
    <3>4. spent.used = Len(cases) + spent.discoveryUsed
      <4>1. Len(cases) \in Nat /\ spent.discoveryUsed \in Nat
        BY LenProperties DEF Results
      <4> QED
        BY <4>1 DEF Results
    <3> QED
      BY <1>3, <3>1, <3>2, <3>3, <3>4 DEF FailureTold
  <2>2. CASE ~ Sound(cases)
    <3>1. \E i \in DOMAIN results' : results'[i].evidence = "invalid"
      BY <1>4, <2>2 DEF Sound
    <3>2. report' = Sanitized
      BY <1>1, <1>2, <2>2
    <3> QED
      BY <3>1, <3>2 DEF FailureTold
  <2> QED
    BY <2>1, <2>2
<1> QED
  BY <1>1, <1>5, <1>6, <1>7 DEF Reported, ReportTrue

LEMMA NothingToldYet ==
  ASSUME Reported, pc # "done", pc' # "done", UNCHANGED report
  PROVE  Reported'
  BY DEF Reported, ReportTrue, PassedMeansAll, FailureTold

-----------------------------------------------------------------------------
(* The steps of a run. *)

(* A discovery is closed by the pages read for it and the coordinates      *)
(* found.                                                                  *)
ClosedBy(discovery, all, found) ==
  /\ \A request \in {discovery.requests[j] : j \in DOMAIN discovery.requests} :
       LET read == {page \in all : page.request.partition = request.partition}
       IN \E total \in 0 .. MaxPages :
            /\ \A page \in read : page.total = total
            /\ {page.request.page : page \in read} = 1 .. Max({1, total})
  /\ \A j \in DOMAIN discovery.targets :
       LET target == discovery.targets[j] IN
       /\ found[target.case] # None
       /\ found[target.case][1] \in target.types
       /\ \E page \in all : target.case \in page.rows
                         /\ page.request.partition = found[target.case]

LEMMA ClosedOneByOne ==
  ListingClosed <=> \A i \in 1 .. d - 1 : ClosedBy(plan.discoveries[i], pages[i], resolved)
  BY DEF ListingClosed, ClosedBy

LEMMA StaysClosed ==
  ASSUME ListingClosed, UNCHANGED <<plan, d, resolved>>, \A i \in 1 .. d - 1 : pages'[i] = pages[i]
  PROVE  ListingClosed'
<1>1. \A i \in 1 .. d - 1 : ClosedBy(plan'.discoveries[i], pages'[i], resolved')
  BY ClosedOneByOne
<1>2. (\A i \in 1 .. d - 1 : ClosedBy(plan.discoveries[i], pages[i], resolved))'
  BY <1>1
<1>3. ListingClosed' <=> (\A i \in 1 .. d - 1 : ClosedBy(plan.discoveries[i], pages[i], resolved))'
  BY ClosedOneByOne, PTL
<1> QED
  BY <1>2, <1>3

LEMMA StaysSupplied ==
  ASSUME SuppliedOnly, UNCHANGED <<plan, d, resolved>>
  PROVE  SuppliedOnly'
<1>1. UNCHANGED Ids(Cases) /\ \A id : Supplied(id)' = Supplied(id)
  BY DEF Ids, Cases, Supplied, Discoveries
<1> QED
  BY <1>1 DEF SuppliedOnly

LEMMA StaysPlanned ==
  ASSUME PlanOK, UNCHANGED plan
  PROVE  /\ PlanOK' /\ UNCHANGED <<Cases, Discoveries, Draft>>
         /\ UNCHANGED <<BudgetUpTo(plan), DiscoveryBudget(plan), Ids(Cases)>>
  BY DEF PlanOK, Cases, Discoveries, Draft, BudgetUpTo, DiscoveryBudget, RequestBudget, Ids

LEMMA StaysFinding ==
  ASSUME FindingOK, UNCHANGED <<plan, d, finding>>
  PROVE  FindingOK'
  BY DEF FindingOK, finding, Ids, Cases, Discoveries

(* A failure before the first case. *)
LEMMA FailsBefore ==
  ASSUME CInv, pc # "done", results = <<>>, c = 1,
         NEW code, NEW discovery, NEW spent \in [used : Nat, discoveryUsed : Nat],
         code \notin {"report-sanitization", "request-budget", "discovery-budget"} \cup Codes,
         spent.used = spent.discoveryUsed, spent.discoveryUsed <= DiscoveryBudget(plan),
         FailReport(Failure(code, None, discovery), spent, results), budget' = spent,
         UNCHANGED <<plan, counters, resolved, results>>, FindingOK', ListingClosed'
  PROVE  CInv'
<1>1. UNCHANGED <<d, r, c>> /\ Len(results) = 0 /\ PlanOK
  BY DEF counters, CInv
<1>2. /\ PlanOK' /\ UNCHANGED <<Cases, Discoveries>> /\ UNCHANGED DiscoveryBudget(plan)
  BY <1>1, StaysPlanned
<1>3. Results(results, spent)
  BY <1>1, PlanParts DEF Results, CInv, Told
<1>4. Reported' /\ pc' = "done"
  <2> DEFINE failure == Failure(code, None, discovery)
  <2>1. failure.case = None /\ failure.code = code
    BY DEF Failure
  <2> HIDE DEF failure
  <2>2. FailReport(failure, spent, results)
    BY DEF failure
  <2> QED
    BY <1>1, <1>3, <2>1, <2>2, FailTells
<1>5. CountersOK'
  <2>1. UNCHANGED Discovery
    BY <1>1 DEF Discovery
  <2> QED
    BY <1>1, <1>2, <1>4, <2>1 DEF CInv, CountersOK
<1>6. SpendingOK'
  BY <1>1, <1>2, <1>4, PlanParts DEF SpendingOK
<1>7. SoFar'
  BY <1>4 DEF SoFar
<1>8. SuppliedOnly'
  BY <1>1, StaysSupplied DEF CInv
<1>9. Told'
  BY <1>1, <1>4 DEF CInv, Told
<1> QED
  BY <1>2, <1>4, <1>5, <1>6, <1>7, <1>8, <1>9 DEF CInv

LEMMA InitConformance == Init => CInv
<1> SUFFICES ASSUME Init PROVE CInv
  OBVIOUS
<1>1. PlanOK
  BY PlansPrepared DEF Init, PlanOK
<1>2. /\ pc = "start" /\ d = 1 /\ r = 1 /\ c = 1 /\ results = <<>> /\ report = NoReport
      /\ budget = [used |-> 0, discoveryUsed |-> 0]
      /\ observed = NothingRead /\ coordinates = NotFound /\ resolved = NotFound
      /\ pages = [i \in DOMAIN Discoveries |-> {}] /\ Len(results) = 0
  BY DEF Init, Discoveries
<1>3. /\ Len(Cases) \in Nat /\ Len(Discoveries) \in Nat
      /\ DOMAIN Discoveries = 1 .. Len(Discoveries) /\ MaxPages \in Nat
  BY <1>1, PlanParts, ConformanceAssumption
<1>4. CountersOK
  <2>1. 1 <= Len(Discoveries) => Len(Discovery.requests) \in Nat
    <3>1. Discovery = Discoveries[1]
      BY <1>2 DEF Discovery, Discoveries
    <3> QED
      BY <1>1, <1>3, <3>1, DiscoveryParts
  <2> QED
    BY <1>2, <1>3, <2>1 DEF CountersOK
<1>5. SpendingOK
  <2>1. /\ BudgetUpTo(plan)[0] = 0 /\ DiscoveryBudget(plan) \in Nat
    BY <1>1, BudgetParts
  <2> QED
    BY <1>2, <1>3, <2>1 DEF SpendingOK
<1>6. FindingOK
  BY <1>2, <1>3 DEF FindingOK, NothingRead, NotFound, Unread
<1>7. SoFar
  <2> SUFFICES ASSUME d <= Len(Discoveries) PROVE ReadSoFar
    BY DEF SoFar
  <2>1. pages[d] = {}
    BY <1>2, <1>3
  <2>2. PagesAgree /\ NoneMissed
    BY <1>2, <2>1 DEF PagesAgree, NoneMissed
  <2>3. WithinReach
    BY <1>2 DEF WithinReach, NothingRead
  <2>4. CoordinatesFound
    BY <1>2 DEF CoordinatesFound, NotFound
  <2> QED
    BY <2>2, <2>3, <2>4 DEF ReadSoFar
<1>8. ListingClosed
  BY <1>2 DEF ListingClosed
<1>9. SuppliedOnly
  BY <1>2 DEF SuppliedOnly, Supplied, NotFound
<1>10. Told
  BY <1>2, EmptySeq DEF Told
<1>11. Reported
  BY <1>2 DEF Reported, ReportTrue, PassedMeansAll, FailureTold
<1> QED
  BY <1>1, <1>4, <1>5, <1>6, <1>7, <1>8, <1>9, <1>10, <1>11 DEF CInv

LEMMA StartConforms == CInv /\ Start => CInv'
<1> SUFFICES ASSUME CInv, Start PROVE CInv'
  OBVIOUS
<1>1. /\ pc = "start" /\ c = 1 /\ results = <<>> /\ Len(results) = 0
      /\ UNCHANGED <<plan, counters, finding, budget, results>>
  BY DEF Start, CInv, CountersOK
<1>2. /\ UNCHANGED <<d, r, c, observed, coordinates, resolved, pages>>
      /\ FindingOK' /\ ListingClosed' /\ SuppliedOnly'
  BY <1>1, StaysFinding, StaysClosed, StaysSupplied DEF CInv, counters, finding
<1>3. PlanOK /\ PlanOK' /\ UNCHANGED <<Cases, Discoveries, Discovery, DiscoveryBudget(plan), BudgetUpTo(plan), Ids(Cases)>>
  BY <1>1, <1>2, StaysPlanned DEF CInv, Discovery
<1>4. CASE FailReport(Failure("credential", None, None), budget, results)
  <2>1. /\ budget \in [used : Nat, discoveryUsed : Nat] /\ budget.used = budget.discoveryUsed
        /\ budget.discoveryUsed <= DiscoveryBudget(plan)
    BY <1>1 DEF CInv, SpendingOK
  <2> QED
    BY <1>1, <1>2, <1>4, <2>1, FailsBefore DEF Codes
<1>5. CASE pc' = "discover" /\ UNCHANGED report
  <2>1. CountersOK'
    BY <1>1, <1>2, <1>3, <1>5 DEF CInv, CountersOK
  <2>2. SpendingOK'
    BY <1>1, <1>2, <1>3, <1>5 DEF CInv, SpendingOK
  <2>3. SoFar'
    BY <1>1, <1>2, <1>3, <1>5
       DEF CInv, SoFar, ReadSoFar, PagesAgree, NoneMissed, WithinReach, CoordinatesFound, Found
  <2>4. Told'
    BY <1>1, <1>2, <1>3, <1>5 DEF CInv, Told
  <2>5. Reported'
    BY <1>1, <1>5, NothingToldYet DEF CInv
  <2> QED
    BY <1>2, <1>3, <2>1, <2>2, <2>3, <2>4, <2>5 DEF CInv
<1> QED
  BY <1>4, <1>5 DEF Start

LEMMA AskingParts ==
  ASSUME CInv, Asking
  PROVE  /\ pc = "discover" /\ d \in 1 .. Len(Discoveries) /\ Discovery = Discoveries[d]
         /\ r \in 1 .. Len(Discovery.requests) /\ Len(Discovery.requests) \in Nat
         /\ DOMAIN Discovery.requests = 1 .. Len(Discovery.requests)
         /\ \A j \in 1 .. Len(Discovery.requests) : Discovery.requests[j] \in RequestType
         /\ Request = Discovery.requests[r] /\ Request \in RequestType
         /\ Request.partition \in Partitions /\ Request.page \in Nat \ {0}
         /\ Contiguous(Discovery.requests)
         /\ c = 1 /\ results = <<>> /\ Len(results) = 0 /\ ReadSoFar /\ PlanOK
<1>1. /\ pc = "discover" /\ d <= Len(Discoveries) /\ r <= Len(Discovery.requests)
      /\ PlanOK /\ CountersOK /\ ReadSoFar
  BY DEF Asking, CInv, SoFar, Discoveries
<1>2. Len(Discoveries) \in Nat
  BY <1>1, PlanParts
<1>3. d \in 1 .. Len(Discoveries) /\ Discovery = Discoveries[d]
  BY <1>1, <1>2 DEF CountersOK, Discovery, Discoveries
<1>4. /\ Len(Discovery.requests) \in Nat
      /\ DOMAIN Discovery.requests = 1 .. Len(Discovery.requests)
      /\ \A j \in 1 .. Len(Discovery.requests) : Discovery.requests[j] \in RequestType
      /\ Contiguous(Discovery.requests)
  BY <1>1, <1>3, DiscoveryParts
<1>5. r \in 1 .. Len(Discovery.requests) /\ Request = Discovery.requests[r]
  BY <1>1, <1>4 DEF CountersOK, Request
<1>6. Request \in RequestType /\ Request.page >= 1
  BY <1>4, <1>5 DEF Contiguous
<1>7. Request.partition \in Partitions /\ Request.page \in Nat \ {0}
  BY <1>6 DEF RequestType
<1>8. c = 1 /\ results = <<>> /\ Len(results) = 0
  BY <1>1 DEF CountersOK
<1> QED
  BY <1>1, <1>3, <1>4, <1>5, <1>6, <1>7, <1>8

(* A discovery has a request left for each page it asks for. *)
LEMMA AskingSpends ==
  ASSUME CInv, Asking
  PROVE  /\ budget.used \in Nat /\ budget.discoveryUsed = budget.used
         /\ BudgetUpTo(plan)[d - 1] \in Nat
         /\ budget.discoveryUsed + 1 <= BudgetUpTo(plan)[d - 1] + r
         /\ budget.discoveryUsed + 1 <= DiscoveryBudget(plan)
         /\ ~ Exhausted
         /\ Spend \in [used : Nat, discoveryUsed : Nat] /\ Spend.used = budget.used + 1
         /\ Spend.discoveryUsed = budget.discoveryUsed + 1
<1>1. /\ pc # "done" /\ d \in 1 .. Len(Discoveries) /\ Discovery = Discoveries[d]
      /\ r \in 1 .. Len(Discovery.requests) /\ Len(results) = 0 /\ PlanOK
  BY AskingParts
<1>2. /\ budget.used \in Nat /\ budget.discoveryUsed \in Nat
      /\ budget.used = budget.discoveryUsed
      /\ budget.discoveryUsed <= BudgetUpTo(plan)[d - 1] + (r - 1)
  <2>1. d <= Len(Discoveries)
    BY <1>1, PlanParts
  <2> QED
    BY <1>1, <2>1 DEF CInv, SpendingOK
<1>3. /\ BudgetUpTo(plan)[d] = BudgetUpTo(plan)[d - 1] + Discovery.max
      /\ Len(Discovery.requests) \in Nat /\ Discovery.max \in Nat
      /\ Len(Discovery.requests) <= Discovery.max
  BY <1>1, BudgetParts, DiscoveryParts
<1>4. /\ BudgetUpTo(plan)[d - 1] \in Nat /\ BudgetUpTo(plan)[d] \in Nat
      /\ BudgetUpTo(plan)[d] <= DiscoveryBudget(plan)
  <2>1. d - 1 \in 0 .. Len(Discoveries) /\ d \in 0 .. Len(Discoveries)
    BY <1>1, PlanParts
  <2> QED
    BY <1>1, <2>1, BudgetParts
<1>5. /\ DiscoveryBudget(plan) \in Nat /\ Len(Cases) \in Nat
      /\ Draft.ceiling = Len(Cases) + DiscoveryBudget(plan)
  BY <1>1, BudgetParts, PlanParts
<1>6. budget.discoveryUsed + 1 <= BudgetUpTo(plan)[d - 1] + r
  BY <1>1, <1>2, <1>3, <1>4
<1>7. budget.discoveryUsed + 1 <= DiscoveryBudget(plan)
  <2> DEFINE before == BudgetUpTo(plan)[d - 1]
             after  == BudgetUpTo(plan)[d]
             length == Len(Discovery.requests)
             whole  == DiscoveryBudget(plan)
             spent  == budget.discoveryUsed
             most   == Discovery.max
  <2>1. /\ before \in Nat /\ after \in Nat /\ spent \in Nat /\ length \in Nat /\ most \in Nat
        /\ whole \in Nat /\ r \in 1 .. length /\ spent + 1 <= before + r /\ length <= most
        /\ after = before + most /\ after <= whole
    BY <1>1, <1>2, <1>3, <1>4, <1>5, <1>6
  <2> HIDE DEF before, after, length, whole, spent, most
  <2>2. spent + 1 <= whole
    BY <2>1
  <2> QED
    BY <2>2 DEF spent, whole
<1>8. ~ Exhausted
  BY <1>2, <1>5, <1>7 DEF Exhausted
<1>9. /\ Spend \in [used : Nat, discoveryUsed : Nat] /\ Spend.used = budget.used + 1
      /\ Spend.discoveryUsed = budget.discoveryUsed + 1
  BY <1>2 DEF Spend
<1> QED
  BY <1>2, <1>4, <1>6, <1>7, <1>8, <1>9

LEMMA SkipPageConforms == CInv /\ SkipPage => CInv'
<1> SUFFICES ASSUME CInv, SkipPage PROVE CInv'
  OBVIOUS
<1>1. /\ Asking /\ Beyond /\ r' = r + 1
      /\ UNCHANGED <<plan, pc, d, c, finding, budget, results, report>>
      /\ UNCHANGED <<observed, coordinates, resolved, pages>>
  BY DEF SkipPage, finding
<1>2. /\ FindingOK' /\ ListingClosed' /\ SuppliedOnly'
  BY <1>1, StaysFinding, StaysClosed, StaysSupplied DEF CInv
<1>3. /\ PlanOK' /\ UNCHANGED <<Cases, Discoveries, Discovery, DiscoveryBudget(plan), BudgetUpTo(plan), Ids(Cases)>>
  BY <1>1, StaysPlanned DEF CInv, Discovery
<1>4. CountersOK'
  BY <1>1, <1>3, AskingParts DEF CInv, CountersOK
<1>5. SpendingOK'
  <2>1. budget.discoveryUsed <= BudgetUpTo(plan)[d - 1] + (r' - 1)
    <3> DEFINE before == BudgetUpTo(plan)[d - 1]
    <3>1. r \in Nat /\ r' = r + 1
      BY <1>1, AskingParts
    <3>2. /\ budget.discoveryUsed \in Nat /\ before \in Nat
          /\ budget.discoveryUsed + 1 <= before + r
      BY <1>1, AskingSpends
    <3> HIDE DEF before
    <3>3. budget.discoveryUsed <= before + (r' - 1)
      BY <3>1, <3>2
    <3> QED
      BY <3>3 DEF before
  <2> QED
    BY <1>1, <1>3, <2>1 DEF CInv, SpendingOK
<1>6. NoneMissed'
  <2> SUFFICES ASSUME NEW j \in 1 .. r
               PROVE  LET request == Discovery.requests[j] IN
                      /\ observed[request.partition] # Unread
                      /\ request.page <= LastPage(observed[request.partition]) =>
                           \E page \in pages[d] : page.request = request
    <3>1. r' - 1 = r
      BY <1>1, AskingParts
    <3> QED
      BY <1>1, <1>3, <3>1 DEF NoneMissed
  <2>1. CASE j \in 1 .. r - 1
    BY <1>1, <2>1, AskingParts DEF ReadSoFar, NoneMissed
  <2>2. CASE j = r
    <3>1. /\ Request = Discovery.requests[j] /\ Request.partition \in Partitions
          /\ observed[Request.partition] # Unread /\ Request.page > observed[Request.partition]
          /\ Request \in RequestType /\ Request.page \in Nat \ {0}
      BY <1>1, <2>2, AskingParts DEF Beyond
    <3>2. observed[Request.partition] \in Nat
      <4>1. observed[Request.partition] \in -1 .. MaxPages
        BY <3>1 DEF CInv, FindingOK
      <4> QED
        BY <3>1, <4>1, ConformanceAssumption DEF Unread
    <3>3. ASSUME Request.page <= LastPage(observed[Request.partition])
          PROVE  \E page \in pages[d] : page.request = Request
      <4>1. observed[Request.partition] = 0 /\ Request.page = 1
        BY <3>1, <3>2, <3>3 DEF LastPage
      <4>2. PICK page \in pages[d] : page.request.partition = Request.partition
        BY <1>1, <3>1, AskingParts DEF ReadSoFar, WithinReach
      <4>3. page.request.page = 1
        <5>1. page.total = 0 /\ page.request.page \in 1 .. LastPage(page.total)
          BY <1>1, <4>1, <4>2, AskingParts DEF ReadSoFar, PagesAgree
        <5> QED
          BY <5>1 DEF LastPage
      <4>4. page.request \in RequestType
        <5>1. pages[d] \in SUBSET PageType
          BY <1>1, AskingParts, PlanParts DEF CInv, FindingOK
        <5> QED
          BY <5>1 DEF PageType
      <4>5. page.request = Request
        BY <3>1, <4>1, <4>2, <4>3, <4>4 DEF RequestType
      <4> QED
        BY <4>5
    <3> QED
      BY <3>1, <3>3
  <2>3. j \in 1 .. r - 1 \/ j = r
    BY <1>1, AskingParts
  <2> QED
    BY <2>1, <2>2, <2>3
<1>7. SoFar'
  <2>1. PagesAgree' /\ WithinReach' /\ CoordinatesFound'
    BY <1>1, <1>3, AskingParts DEF ReadSoFar, PagesAgree, WithinReach, CoordinatesFound, Found
  <2> QED
    BY <1>6, <2>1 DEF SoFar, ReadSoFar
<1>8. Told'
  BY <1>1, <1>3 DEF CInv, Told
<1>9. Reported'
  BY <1>1, AskingParts, NothingToldYet DEF CInv
<1> QED
  BY <1>2, <1>3, <1>4, <1>5, <1>7, <1>8, <1>9 DEF CInv

LEMMA AskFailsConforms == CInv /\ AskFails => CInv'
<1> SUFFICES ASSUME CInv, AskFails PROVE CInv'
  OBVIOUS
<1>1. /\ Asking /\ UNCHANGED <<plan, counters, finding, results>> /\ ~ Exhausted
      /\ budget' = Spend /\ DiscoveryFails("discovery-request", Spend)
  BY AskingSpends DEF AskFails
<1>2. UNCHANGED <<d, observed, coordinates, resolved, pages>>
  BY <1>1 DEF counters, finding
<1>3. FindingOK' /\ ListingClosed'
  BY <1>1, <1>2, StaysFinding, StaysClosed DEF CInv
<1>4. FailReport(Failure("discovery-request", None, Discovery.id), Spend, results)
  BY <1>1 DEF DiscoveryFails
<1>5. /\ pc # "done" /\ results = <<>> /\ c = 1
  BY <1>1, AskingParts
<1>6. /\ Spend \in [used : Nat, discoveryUsed : Nat] /\ Spend.used = Spend.discoveryUsed
      /\ Spend.discoveryUsed <= DiscoveryBudget(plan)
  BY <1>1, AskingSpends
<1> QED
  BY <1>1, <1>2, <1>3, <1>4, <1>5, <1>6, FailsBefore DEF Codes

LEMMA PagesBounded ==
  ASSUME NEW requests, NEW n \in Nat, \A j \in 1 .. n : requests[j].page \in Nat
  PROVE  \E m \in Nat : \A j \in 1 .. n : requests[j].page <= m
<1> DEFINE Bound(k, m) == \A j \in 1 .. k : requests[j].page <= m
           S == {k \in Nat : k <= n => \E m \in Nat : Bound(k, m)}
<1>1. 0 \in S
  <2>1. Bound(0, 0)
    OBVIOUS
  <2> HIDE DEF Bound
  <2> QED
    BY <2>1
<1>2. ASSUME NEW k \in S PROVE k + 1 \in S
  <2>1. k \in Nat /\ (k <= n => \E m \in Nat : Bound(k, m))
    OBVIOUS
  <2>2. ASSUME k + 1 <= n PROVE \E m \in Nat : Bound(k + 1, m)
    <3>1. k <= n
      BY <2>1, <2>2
    <3>2. PICK m \in Nat : Bound(k, m)
      BY <2>1, <3>1, Zenon
    <3>3. requests[k + 1].page \in Nat
      BY <2>1, <2>2
    <3> DEFINE more == IF requests[k + 1].page <= m THEN m ELSE requests[k + 1].page
    <3>4. more \in Nat /\ requests[k + 1].page <= more /\ m <= more
      BY <3>3
    <3> HIDE DEF more
    <3>5. ASSUME NEW j \in 1 .. k + 1 PROVE requests[j].page <= more
      <4>1. CASE j = k + 1
        BY <3>4, <4>1
      <4>2. CASE j # k + 1
        <5>1. j \in 1 .. k /\ j \in 1 .. n
          BY <2>1, <2>2, <4>2
        <5>2. requests[j].page <= m /\ requests[j].page \in Nat
          BY <3>2, <5>1
        <5> QED
          BY <3>4, <5>2
      <4> QED
        BY <4>1, <4>2
    <3> QED
      BY <3>4, <3>5
  <2> HIDE DEF Bound
  <2> QED
    BY <2>1, <2>2
<1>3. S \in SUBSET Nat
  OBVIOUS
<1> HIDE DEF S
<1>4. n \in S
  BY <1>1, <1>2, <1>3, EveryNumber
<1> QED
  BY <1>4 DEF S

(* No answer that is read claims more pages than the plan asks for. *)
LEMMA AnswerRead ==
  ASSUME CInv, Asking, NEW answer \in Answers, PagesClosed(answer)
  PROVE  /\ answer.total \in 0 .. MaxPages
         /\ Request.page \in 1 .. LastPage(answer.total)
         /\ observed[Request.partition] \in {Unread, answer.total}
         /\ 1 .. LastPage(answer.total) \subseteq PagesOf(Discovery.requests, Request.partition)
<1> DEFINE S == PagesOf(Discovery.requests, Request.partition)
           n == Len(Discovery.requests)
<1>1. answer.total \in 0 .. MaxPages /\ answer.total \in Nat
  <2>1. CASE answer \in [empty : {FALSE}, page : 1 .. MaxPages, total : 0 .. MaxPages]
    BY <2>1
  <2>2. CASE answer \in [empty : {TRUE}, page : {1}, total : {0}]
    <3>1. answer.total = 0
      BY <2>2
    <3> QED
      BY <3>1, ConformanceAssumption
  <2> QED
    BY <2>1, <2>2 DEF Answers
<1>2. /\ n \in Nat /\ DOMAIN Discovery.requests = 1 .. n /\ Contiguous(Discovery.requests)
      /\ r \in 1 .. n /\ Request = Discovery.requests[r] /\ Request.page \in Nat \ {0}
      /\ \A j \in 1 .. n : Discovery.requests[j] \in RequestType
  BY AskingParts
<1> HIDE DEF n
<1>3. /\ \A j \in 1 .. n : Discovery.requests[j].page \in Nat
      /\ \A j \in 1 .. n :
           1 .. Discovery.requests[j].page \subseteq
             PagesOf(Discovery.requests, Discovery.requests[j].partition)
  <2> DEFINE requests == Discovery.requests
  <2>1. \A j \in 1 .. n : requests[j].page \in Int /\ requests[j].page >= 1
    BY <1>2 DEF Contiguous, RequestType
  <2>2. \A j \in 1 .. n : 1 .. requests[j].page \subseteq PagesOf(requests, requests[j].partition)
    BY <1>2 DEF Contiguous
  <2> HIDE DEF requests
  <2>3. \A j \in 1 .. n : requests[j].page \in Nat
    BY <2>1
  <2> QED
    BY <2>2, <2>3 DEF requests
<1>4. \A page \in S : page \in Nat /\ 1 .. page \subseteq S
  <2> SUFFICES ASSUME NEW page \in S PROVE page \in Nat /\ 1 .. page \subseteq S
    OBVIOUS
  <2>1. PICK j \in 1 .. n : page = Discovery.requests[j].page
                            /\ Discovery.requests[j].partition = Request.partition
    BY <1>2 DEF PagesOf
  <2> QED
    BY <1>3, <2>1
<1>5. Request.page \in S
  BY <1>2 DEF PagesOf
<1>6. CASE answer.empty
  <2>1. Request.page = 1 /\ observed[Request.partition] = Unread /\ answer.total = 0
    BY <1>6 DEF PagesClosed, Answers
  <2>2. LastPage(answer.total) = 1
    BY <2>1 DEF LastPage
  <2> QED
    BY <1>1, <1>4, <1>5, <2>1, <2>2
<1>7. CASE ~ answer.empty
  <2>1. /\ Request.page <= answer.total /\ answer.total <= Max(S)
        /\ observed[Request.partition] \in {Unread, answer.total}
    BY <1>7 DEF PagesClosed, DeclaredCeiling, SameTotal
  <2>2. Max(S) \in S
    <3>1. PICK m \in Nat : \A j \in 1 .. n : Discovery.requests[j].page <= m
      BY <1>2, <1>3, PagesBounded
    <3>2. \A page \in S : page <= m
      BY <1>2, <3>1 DEF PagesOf
    <3>3. S \in SUBSET Nat
      BY <1>4
    <3> HIDE DEF S
    <3> QED
      BY <1>5, <3>2, <3>3, GreatestNumber
  <2> DEFINE ceiling == Max(S)
  <2>3. ceiling \in Nat /\ 1 .. ceiling \subseteq S /\ answer.total <= ceiling
    BY <1>4, <2>1, <2>2
  <2> HIDE DEF ceiling
  <2>4. LastPage(answer.total) = answer.total
    BY <1>1, <1>2, <2>1 DEF LastPage
  <2>5. 1 .. answer.total \subseteq S
    BY <1>1, <2>3
  <2> QED
    BY <1>1, <1>2, <2>1, <2>4, <2>5
<1> QED
  BY <1>6, <1>7

(* A page was read. *)
PageRead(answer, rows) ==
  /\ PagesClosed(answer)
  /\ observed' = [observed EXCEPT ![Request.partition] = answer.total]
  /\ coordinates' = Collected(rows)
  /\ pages' = [pages EXCEPT ![d] = @ \cup {[request |-> Request,
                                           total |-> answer.total, rows |-> rows]}]
  /\ UNCHANGED resolved

LEMMA PageReadParts ==
  ASSUME CInv, Asking, NEW answer \in Answers, NEW rows \in SUBSET Eligible,
         PageRead(answer, rows), UNCHANGED <<plan, d>>
  PROVE  /\ FindingOK' /\ ListingClosed'
         /\ \A page \in pages'[d] :
              page \in pages[d] \/ page = [request |-> Request, total |-> answer.total, rows |-> rows]
         /\ \A page \in pages[d] : page \in pages'[d]
         /\ [request |-> Request, total |-> answer.total, rows |-> rows] \in pages'[d]
         /\ observed'[Request.partition] = answer.total
         /\ \A partition \in Partitions : observed[partition] # Unread =>
              observed'[partition] = observed[partition]
         /\ \A partition \in Partitions : partition # Request.partition =>
              observed'[partition] = observed[partition]
<1> DEFINE new == [request |-> Request, total |-> answer.total, rows |-> rows]
<1>1. /\ answer.total \in 0 .. MaxPages /\ observed[Request.partition] \in {Unread, answer.total}
  BY AnswerRead DEF PageRead
<1>2. /\ Request.partition \in Partitions /\ Request \in RequestType /\ PlanOK
      /\ d \in 1 .. Len(Discoveries) /\ d \in DOMAIN Discoveries /\ Discovery = Discoveries[d]
  BY AskingParts, PlanParts
<1>3. UNCHANGED <<Cases, Discoveries, Ids(Cases)>>
  BY <1>2, StaysPlanned
<1>4. Eligible \in SUBSET STRING
  BY <1>2, TargetParts DEF Eligible
<1>5. new \in PageType
  BY <1>1, <1>2, <1>4 DEF PageType
<1>6. pages' \in [DOMAIN Discoveries -> SUBSET PageType] /\ pages'[d] = pages[d] \cup {new}
  BY <1>2, <1>5 DEF PageRead, CInv, FindingOK
<1>7. \A i \in DOMAIN Discoveries : i # d => pages'[i] = pages[i]
  BY <1>2 DEF PageRead, CInv, FindingOK
<1>8. /\ observed' \in [Partitions -> -1 .. MaxPages]
      /\ observed'[Request.partition] = answer.total
      /\ \A partition \in Partitions : partition # Request.partition =>
           observed'[partition] = observed[partition]
  <2>1. observed \in [Partitions -> -1 .. MaxPages] /\ answer.total \in -1 .. MaxPages
    BY <1>1, ConformanceAssumption DEF CInv, FindingOK
  <2> QED
    BY <1>2, <2>1 DEF PageRead
<1>9. coordinates' \in [Ids(Cases) -> Partitions \cup {None}]
  BY <1>2 DEF PageRead, Collected, CInv, FindingOK
<1>10. FindingOK'
  <2>1. \A i \in DOMAIN Discoveries : i > d => pages'[i] = {}
    BY <1>2, <1>7, PlanParts DEF CInv, FindingOK
  <2> QED
    BY <1>3, <1>6, <1>8, <1>9, <2>1 DEF CInv, FindingOK, PageRead
<1>11. ListingClosed'
  <2>1. \A i \in 1 .. d - 1 : pages'[i] = pages[i]
    BY <1>2, <1>7, PlanParts
  <2> QED
    BY <2>1, StaysClosed DEF CInv, PageRead
<1> QED
  BY <1>1, <1>6, <1>8, <1>10, <1>11

LEMMA PageReadSoFar ==
  ASSUME CInv, Asking, NEW answer \in Answers, NEW rows \in SUBSET Eligible,
         PageRead(answer, rows), UNCHANGED <<plan, d>>, r' = r + 1
  PROVE  ReadSoFar'
<1> DEFINE new == [request |-> Request, total |-> answer.total, rows |-> rows]
<1>1. /\ \A page \in pages'[d] : page \in pages[d] \/ page = new
      /\ \A page \in pages[d] : page \in pages'[d]
      /\ new \in pages'[d]
      /\ observed'[Request.partition] = answer.total
      /\ \A partition \in Partitions : observed[partition] # Unread =>
           observed'[partition] = observed[partition]
      /\ \A partition \in Partitions : partition # Request.partition =>
           observed'[partition] = observed[partition]
  BY PageReadParts
<1>2. /\ answer.total \in 0 .. MaxPages /\ Request.page \in 1 .. LastPage(answer.total)
      /\ 1 .. LastPage(answer.total) \subseteq PagesOf(Discovery.requests, Request.partition)
  BY AnswerRead DEF PageRead
<1>3. /\ Request.partition \in Partitions /\ PlanOK /\ Discovery = Discoveries[d]
      /\ Request = Discovery.requests[r] /\ r \in Nat \ {0}
      /\ \A j \in 1 .. r : Discovery.requests[j].partition \in Partitions
      /\ d \in DOMAIN Discoveries
  BY AskingParts, PlanParts DEF RequestType
<1>4. /\ new.request = Request /\ new.total = answer.total /\ new.rows = rows
      /\ answer.total # Unread
  BY <1>2 DEF Unread
<1> HIDE DEF new
<1>5. UNCHANGED <<Cases, Discoveries, Discovery, Ids(Cases), d>>
  BY <1>3, StaysPlanned DEF Discovery
<1>6. PagesAgree'
  <2> SUFFICES ASSUME NEW page \in pages'[d]
               PROVE  /\ observed'[page.request.partition] = page.total
                      /\ page.request.page \in 1 .. LastPage(page.total)
    BY <1>5 DEF PagesAgree
  <2>1. CASE page = new
    BY <1>1, <1>2, <1>4, <2>1
  <2>2. CASE page \in pages[d]
    <3>1. page.total # Unread /\ page.request.partition \in Partitions
      <4>1. page \in PageType
        BY <1>3, <2>2 DEF CInv, FindingOK
      <4> QED
        BY <4>1 DEF PageType, RequestType, Unread
    <3>2. /\ observed[page.request.partition] = page.total
          /\ page.request.page \in 1 .. LastPage(page.total)
      BY <2>2, AskingParts DEF ReadSoFar, PagesAgree
    <3> QED
      BY <1>1, <3>1, <3>2
  <2> QED
    BY <1>1, <2>1, <2>2
<1>7. NoneMissed'
  <2> SUFFICES ASSUME NEW j \in 1 .. r
               PROVE  LET request == Discovery.requests[j] IN
                      /\ observed'[request.partition] # Unread
                      /\ request.page <= LastPage(observed'[request.partition]) =>
                           \E page \in pages'[d] : page.request = request
    <3>1. r' - 1 = r
      BY <1>3
    <3> QED
      BY <1>5, <3>1 DEF NoneMissed
  <2>1. CASE j = r
    BY <1>1, <1>3, <1>4, <2>1
  <2>2. CASE j \in 1 .. r - 1
    <3> DEFINE request == Discovery.requests[j]
    <3>1. /\ observed[request.partition] # Unread
          /\ request.page <= LastPage(observed[request.partition]) =>
               \E page \in pages[d] : page.request = request
      BY <2>2, AskingParts DEF ReadSoFar, NoneMissed
    <3>2. request.partition \in Partitions
      BY <1>3
    <3>3. observed'[request.partition] = observed[request.partition]
      BY <1>1, <3>1, <3>2
    <3> QED
      BY <1>1, <3>1, <3>3
  <2> QED
    BY <1>3, <2>1, <2>2
<1>8. WithinReach'
  <2> SUFFICES ASSUME NEW partition \in Partitions, observed'[partition] # Unread
               PROVE  /\ 1 .. LastPage(observed'[partition])
                           \subseteq PagesOf(Discovery.requests, partition)
                      /\ \E page \in pages'[d] : page.request.partition = partition
    BY <1>5 DEF WithinReach
  <2>1. CASE partition = Request.partition
    BY <1>1, <1>2, <1>4, <2>1
  <2>2. CASE partition # Request.partition
    <3>1. observed'[partition] = observed[partition] /\ observed[partition] # Unread
      BY <1>1, <2>2
    <3>2. /\ 1 .. LastPage(observed[partition]) \subseteq PagesOf(Discovery.requests, partition)
          /\ \E page \in pages[d] : page.request.partition = partition
      BY <3>1, AskingParts DEF ReadSoFar, WithinReach
    <3> QED
      BY <1>1, <3>1, <3>2
  <2> QED
    BY <2>1, <2>2
<1>9. CoordinatesFound'
  <2> SUFFICES ASSUME NEW id \in Ids(Cases), coordinates'[id] # None
               PROVE  /\ \E j \in DOMAIN Discoveries[d].targets :
                           /\ Discoveries[d].targets[j].case = id
                           /\ coordinates'[id][1] \in Discoveries[d].targets[j].types
                      /\ \E page \in pages'[d] :
                           id \in page.rows /\ page.request.partition = coordinates'[id]
    BY <1>5 DEF CoordinatesFound, Found
  <2>1. coordinates'[id] = IF coordinates[id] = None /\ id \in rows \cap Eligible
                           THEN Request.partition ELSE coordinates[id]
    BY DEF PageRead, Collected
  <2>2. CASE coordinates[id] = None /\ id \in rows \cap Eligible
    <3>1. coordinates'[id] = Request.partition
      BY <2>1, <2>2
    <3>2. \E j \in DOMAIN Discoveries[d].targets :
            /\ Discoveries[d].targets[j].case = id
            /\ Request.partition[1] \in Discoveries[d].targets[j].types
      BY <1>3, <2>2 DEF Eligible
    <3> QED
      BY <1>1, <1>4, <2>2, <3>1, <3>2
  <2>3. CASE ~ (coordinates[id] = None /\ id \in rows \cap Eligible)
    <3>1. coordinates'[id] = coordinates[id] /\ coordinates[id] # None
      BY <2>1, <2>3
    <3>2. Found(d, id, coordinates[id])
      BY <3>1, AskingParts DEF ReadSoFar, CoordinatesFound
    <3> QED
      BY <1>1, <3>1, <3>2 DEF Found
  <2> QED
    BY <2>2, <2>3
<1> QED
  BY <1>6, <1>7, <1>8, <1>9 DEF ReadSoFar

LEMMA AskConforms == CInv /\ Ask => CInv'
<1> SUFFICES ASSUME CInv, Ask PROVE CInv'
  OBVIOUS
<1>1. /\ Asking /\ budget' = Spend /\ UNCHANGED <<plan, d, c, results>>
  BY DEF Ask
<1>2. /\ pc = "discover" /\ pc # "done" /\ results = <<>> /\ Len(results) = 0 /\ c = 1 /\ PlanOK
      /\ r \in 1 .. Len(Discovery.requests) /\ Len(Discovery.requests) \in Nat
      /\ d \in 1 .. Len(Discoveries)
  BY <1>1, AskingParts
<1>3. /\ Spend \in [used : Nat, discoveryUsed : Nat] /\ Spend.used = Spend.discoveryUsed
      /\ Spend.discoveryUsed <= DiscoveryBudget(plan)
      /\ Spend.discoveryUsed <= BudgetUpTo(plan)[d - 1] + r
  BY <1>1, AskingSpends
<1>4. PICK answer \in Answers, rows \in SUBSET Eligible :
        IF ~ PagesClosed(answer)
        THEN DiscoveryFails("discovery-open", Spend) /\ UNCHANGED <<r, finding>>
        ELSE /\ observed' = [observed EXCEPT ![Request.partition] = answer.total]
             /\ coordinates' = Collected(rows)
             /\ pages' = [pages EXCEPT ![d] = @ \cup {[request |-> Request,
                                             total |-> answer.total, rows |-> rows]}]
             /\ UNCHANGED resolved
             /\ \/ r' = r + 1 /\ UNCHANGED <<pc, report>>
                \/ DiscoveryFails("discovery-pacing", Spend) /\ UNCHANGED r
  BY DEF Ask
<1>5. CASE ~ PagesClosed(answer)
  <2>1. /\ FailReport(Failure("discovery-open", None, Discovery.id), Spend, results)
        /\ UNCHANGED <<r, finding>>
    BY <1>4, <1>5 DEF DiscoveryFails
  <2>2. UNCHANGED <<counters, resolved, pages>>
    BY <1>1, <2>1 DEF counters, finding
  <2>3. FindingOK' /\ ListingClosed'
    BY <1>1, <2>1, <2>2, StaysFinding, StaysClosed DEF CInv
  <2> QED
    BY <1>1, <1>2, <1>3, <2>1, <2>2, <2>3, FailsBefore DEF Codes
<1>6. CASE PagesClosed(answer)
  <2>1. /\ PageRead(answer, rows)
        /\ \/ r' = r + 1 /\ UNCHANGED <<pc, report>>
           \/ DiscoveryFails("discovery-pacing", Spend) /\ UNCHANGED r
    BY <1>4, <1>6 DEF PageRead
  <2>2. FindingOK' /\ ListingClosed' /\ UNCHANGED resolved
    BY <1>1, <2>1, PageReadParts DEF PageRead
  <2>3. CASE DiscoveryFails("discovery-pacing", Spend) /\ UNCHANGED r
    <3>1. /\ FailReport(Failure("discovery-pacing", None, Discovery.id), Spend, results)
          /\ UNCHANGED counters
      BY <1>1, <2>3 DEF DiscoveryFails, counters
    <3> QED
      BY <1>1, <1>2, <1>3, <2>2, <3>1, FailsBefore DEF Codes
  <2>4. CASE r' = r + 1 /\ UNCHANGED <<pc, report>>
    <3>1. /\ PlanOK' /\ UNCHANGED <<Cases, Discoveries, Discovery>>
          /\ UNCHANGED <<DiscoveryBudget(plan), BudgetUpTo(plan), Ids(Cases)>>
      BY <1>1, <1>2, StaysPlanned DEF Discovery
    <3>2. CountersOK'
      BY <1>1, <1>2, <2>4, <3>1 DEF CInv, CountersOK
    <3>3. SpendingOK'
      <4>1. r' - 1 = r
        BY <1>2, <2>4
      <4>2. Len(results) <= Len(Cases) /\ Spend.used = Spend.discoveryUsed + Len(results)
        BY <1>2, <1>3, PlanParts
      <4> QED
        BY <1>1, <1>3, <3>1, <4>1, <4>2 DEF SpendingOK
    <3>4. SoFar'
      BY <1>1, <2>1, <2>4, PageReadSoFar DEF SoFar
    <3>5. SuppliedOnly'
      BY <1>1, <2>2, StaysSupplied DEF CInv
    <3>6. Told'
      BY <1>1, <1>2, <2>4, <3>1 DEF CInv, Told
    <3>7. Reported'
      BY <1>2, <2>4, NothingToldYet DEF CInv
    <3> QED
      BY <2>2, <3>1, <3>2, <3>3, <3>4, <3>5, <3>6, <3>7 DEF CInv
  <2> QED
    BY <2>1, <2>3, <2>4
<1> QED
  BY <1>5, <1>6

Resolving == pc = "discover" /\ d <= Len(plan.discoveries) /\ r > Len(Discovery.requests)

LEMMA ResolvingParts ==
  ASSUME CInv, Resolving
  PROVE  /\ pc # "done" /\ d \in 1 .. Len(Discoveries) /\ Discovery = Discoveries[d]
         /\ r = Len(Discovery.requests) + 1 /\ Len(Discovery.requests) \in Nat \ {0}
         /\ DOMAIN Discovery.requests = 1 .. Len(Discovery.requests)
         /\ \A j \in 1 .. Len(Discovery.requests) : Discovery.requests[j].partition \in Partitions
         /\ c = 1 /\ results = <<>> /\ Len(results) = 0 /\ ReadSoFar /\ PlanOK
<1>1. /\ pc = "discover" /\ d <= Len(Discoveries) /\ r > Len(Discovery.requests)
      /\ PlanOK /\ CountersOK /\ ReadSoFar
  BY DEF Resolving, CInv, SoFar, Discoveries
<1>2. Len(Discoveries) \in Nat
  BY <1>1, PlanParts
<1>3. d \in 1 .. Len(Discoveries) /\ Discovery = Discoveries[d]
  BY <1>1, <1>2 DEF CountersOK, Discovery, Discoveries
<1>4. /\ Len(Discovery.requests) \in Nat \ {0}
      /\ DOMAIN Discovery.requests = 1 .. Len(Discovery.requests)
      /\ \A j \in 1 .. Len(Discovery.requests) : Discovery.requests[j] \in RequestType
  BY <1>1, <1>3, DiscoveryParts
<1>5. r = Len(Discovery.requests) + 1
  BY <1>1, <1>4 DEF CountersOK
<1>6. c = 1 /\ results = <<>> /\ Len(results) = 0
  BY <1>1 DEF CountersOK
<1> QED
  BY <1>1, <1>3, <1>4, <1>5, <1>6 DEF RequestType

(* A listing of which every page was asked for was read to the end. *)
LEMMA ReadToTheEnd ==
  ASSUME CInv, Resolving, NEW j \in DOMAIN Discovery.requests
  PROVE  LET read == {page \in pages[d] :
                        page.request.partition = Discovery.requests[j].partition}
         IN \E total \in 0 .. MaxPages :
              /\ \A page \in read : page.total = total
              /\ {page.request.page : page \in read} = 1 .. Max({1, total})
<1> DEFINE requests  == Discovery.requests
           partition == requests[j].partition
           read      == {page \in pages[d] : page.request.partition = partition}
           total     == observed[partition]
<1>1. /\ ReadSoFar /\ DOMAIN requests = 1 .. r - 1 /\ partition \in Partitions
      /\ j \in 1 .. r - 1
  <2>1. r = Len(requests) + 1 /\ Len(requests) \in Nat /\ DOMAIN requests = 1 .. Len(requests)
    BY ResolvingParts
  <2>2. r - 1 = Len(requests)
    BY <2>1
  <2> QED
    BY <2>1, <2>2, ResolvingParts
<1>2. total \in 0 .. MaxPages /\ total \in Nat /\ total # Unread
  <2>1. total # Unread
    BY <1>1 DEF ReadSoFar, NoneMissed
  <2>2. total \in -1 .. MaxPages
    BY <1>1 DEF CInv, FindingOK
  <2> QED
    BY <2>1, <2>2, ConformanceAssumption DEF Unread
<1>3. \A page \in read : page.total = total /\ page.request.page \in 1 .. LastPage(total)
  BY <1>1 DEF ReadSoFar, PagesAgree
<1>4. \A x \in 1 .. LastPage(total) : \E page \in read : page.request.page = x
  <2> SUFFICES ASSUME NEW x \in 1 .. LastPage(total)
               PROVE  \E page \in pages[d] :
                        page.request.partition = partition /\ page.request.page = x
    OBVIOUS
  <2>1. x \in PagesOf(requests, partition)
    BY <1>1, <1>2 DEF ReadSoFar, WithinReach
  <2>2. PICK k \in 1 .. r - 1 : requests[k].partition = partition /\ requests[k].page = x
    BY <1>1, <2>1 DEF PagesOf
  <2>3. requests[k].page <= LastPage(observed[requests[k].partition])
    BY <2>2
  <2>4. \E page \in pages[d] : page.request = requests[k]
    BY <1>1, <2>3 DEF ReadSoFar, NoneMissed
  <2> QED
    BY <2>2, <2>4
<1> DEFINE S == {1, total}
<1>5. Max(S) = LastPage(total)
  <2>1. S \in SUBSET Int /\ LastPage(total) \in S /\ \A x \in S : x <= LastPage(total)
    BY <1>2 DEF LastPage
  <2> HIDE DEF S
  <2> QED
    BY <2>1, GreatestIs
<1>6. {page.request.page : page \in read} = 1 .. LastPage(total)
  <2> HIDE DEF read, total
  <2> QED
    BY <1>3, <1>4
<1> HIDE DEF read, total
<1>7. /\ total \in 0 .. MaxPages /\ \A page \in read : page.total = total
      /\ {page.request.page : page \in read} = 1 .. Max({1, total})
  BY <1>2, <1>3, <1>5, <1>6 DEF S
<1>8. \E most \in 0 .. MaxPages :
        /\ \A page \in read : page.total = most
        /\ {page.request.page : page \in read} = 1 .. Max({1, most})
  BY <1>7
<1> QED
  BY <1>8 DEF read

(* The discovery is resolved. *)
Resolved ==
  /\ Resolving
  /\ \A j \in DOMAIN Discovery.targets : coordinates[Discovery.targets[j].case] # None
  /\ resolved' = [id \in Ids(Cases) |->
                    IF \E j \in DOMAIN Discovery.targets : id = Discovery.targets[j].case
                    THEN coordinates[id] ELSE resolved[id]]
  /\ d' = d + 1 /\ r' = 1
  /\ observed' = NothingRead /\ coordinates' = NotFound
  /\ UNCHANGED <<plan, pc, c, budget, results, report, pages>>

LEMMA ResolvedCloses == CInv /\ Resolved => ListingClosed'
<1> SUFFICES ASSUME CInv, Resolved PROVE ListingClosed'
  OBVIOUS
<1>1. /\ d \in 1 .. Len(Discoveries) /\ Len(Discoveries) \in Nat
      /\ Discovery = Discoveries[d] /\ PlanOK /\ ReadSoFar
  BY ResolvingParts, PlanParts DEF Resolved
<1>2. \A i \in 1 .. d - 1 : ClosedBy(Discoveries[i], pages[i], resolved)
  BY ClosedOneByOne DEF CInv, Discoveries
<1>3. ASSUME NEW i \in 1 .. d - 1
      PROVE  ClosedBy(Discoveries[i], pages[i], resolved')
  <2>1. ClosedBy(Discoveries[i], pages[i], resolved) /\ i \in 1 .. Len(Discoveries)
    BY <1>1, <1>2
  <2>2. ASSUME NEW j \in DOMAIN Discoveries[i].targets
        PROVE  resolved'[Discoveries[i].targets[j].case] = resolved[Discoveries[i].targets[j].case]
    <3>1. Discoveries[i].targets[j].case \in Ids(Cases)
      BY <1>1, <2>1, TargetParts
    <3>2. \A l \in DOMAIN Discoveries[d].targets :
            Discoveries[i].targets[j].case # Discoveries[d].targets[l].case
      <4>1. i # d
        BY <1>1
      <4> QED
        BY <1>1, <2>1, <4>1, OneTarget
    <3> QED
      BY <1>1, <3>1, <3>2 DEF Resolved
  <2> QED
    BY <2>1, <2>2 DEF ClosedBy
<1>4. ClosedBy(Discoveries[d], pages[d], resolved')
  <2>1. ASSUME NEW j \in DOMAIN Discoveries[d].targets
        PROVE  LET target == Discoveries[d].targets[j] IN
               /\ resolved'[target.case] # None
               /\ resolved'[target.case][1] \in target.types
               /\ \E page \in pages[d] : target.case \in page.rows
                                      /\ page.request.partition = resolved'[target.case]
    <3> DEFINE id == Discoveries[d].targets[j].case
    <3>1. id \in Ids(Cases)
      BY <1>1, TargetParts
    <3>2. coordinates[id] # None /\ resolved'[id] = coordinates[id]
      BY <1>1, <3>1 DEF Resolved
    <3>3. Found(d, id, coordinates[id])
      BY <1>1, <3>1, <3>2 DEF ReadSoFar, CoordinatesFound
    <3>4. PICK l \in DOMAIN Discoveries[d].targets :
            /\ Discoveries[d].targets[l].case = id
            /\ coordinates[id][1] \in Discoveries[d].targets[l].types
      BY <3>3 DEF Found
    <3>5. j = l
      BY <1>1, <3>4, OneTarget
    <3> QED
      BY <3>2, <3>3, <3>4, <3>5 DEF Found
  <2>2. ASSUME NEW request \in {Discoveries[d].requests[j] : j \in DOMAIN Discoveries[d].requests}
        PROVE  LET read == {page \in pages[d] : page.request.partition = request.partition}
               IN \E total \in 0 .. MaxPages :
                    /\ \A page \in read : page.total = total
                    /\ {page.request.page : page \in read} = 1 .. Max({1, total})
    <3>1. PICK j \in DOMAIN Discovery.requests : request = Discovery.requests[j]
      BY <1>1
    <3> QED
      BY <3>1, ReadToTheEnd DEF Resolved
  <2> QED
    BY <2>1, <2>2 DEF ClosedBy
<1>5. \A i \in 1 .. d : ClosedBy(Discoveries[i], pages[i], resolved')
  BY <1>1, <1>3, <1>4
<1>6. d' - 1 = d /\ Discoveries = plan.discoveries
  BY <1>1 DEF Resolved, Discoveries
<1>7. \A i \in 1 .. d' - 1 : ClosedBy(plan'.discoveries[i], pages'[i], resolved')
  BY <1>5, <1>6 DEF Resolved
<1>8. (\A i \in 1 .. d - 1 : ClosedBy(plan.discoveries[i], pages[i], resolved))'
  BY <1>7
<1>9. ListingClosed' <=> (\A i \in 1 .. d - 1 : ClosedBy(plan.discoveries[i], pages[i], resolved))'
  BY ClosedOneByOne, PTL
<1> QED
  BY <1>8, <1>9

LEMMA ResolvedSupplies == CInv /\ Resolved => SuppliedOnly'
<1> SUFFICES ASSUME CInv, Resolved PROVE SuppliedOnly'
  OBVIOUS
<1>1. /\ d \in 1 .. Len(Discoveries) /\ Len(Discoveries) \in Nat
      /\ Discovery = Discoveries[d] /\ PlanOK /\ d' - 1 = d
  BY ResolvingParts, PlanParts DEF Resolved
<1>2. UNCHANGED <<Cases, Discoveries, Ids(Cases)>>
  BY <1>1, StaysPlanned DEF Resolved
<1> SUFFICES ASSUME NEW id \in Ids(Cases)
             PROVE  resolved'[id] # None <=> Supplied(id)'
  BY <1>2 DEF SuppliedOnly
<1> DEFINE Here == \E j \in DOMAIN Discoveries[d].targets : Discoveries[d].targets[j].case = id
<1>3. Supplied(id)' <=> Supplied(id) \/ Here
  <2> DEFINE By(i) == \E j \in DOMAIN Discoveries[i].targets : Discoveries[i].targets[j].case = id
  <2>1. Supplied(id)' <=> \E i \in 1 .. d : By(i)
    BY <1>1, <1>2 DEF Supplied
  <2>2. Supplied(id) <=> \E i \in 1 .. d - 1 : By(i)
    BY DEF Supplied
  <2>3. Here <=> By(d)
    OBVIOUS
  <2> HIDE DEF By, Here
  <2>4. \A i : i \in 1 .. d <=> (i \in 1 .. d - 1 \/ i = d)
    BY <1>1
  <2> QED
    BY <2>1, <2>2, <2>3, <2>4
<1>4. resolved'[id] = IF Here THEN coordinates[id] ELSE resolved[id]
  BY <1>1 DEF Resolved
<1>5. Here => coordinates[id] # None
  BY <1>1 DEF Resolved
<1>6. resolved[id] # None <=> Supplied(id)
  BY DEF CInv, SuppliedOnly
<1> QED
  BY <1>3, <1>4, <1>5, <1>6

LEMMA ResolveConforms == CInv /\ Resolve => CInv'
<1> SUFFICES ASSUME CInv, Resolve PROVE CInv'
  OBVIOUS
<1>1. /\ Resolving /\ UNCHANGED <<plan, c, budget, results>>
      /\ \/ /\ \E j \in DOMAIN Discovery.targets :
                 DiscoveryFails(IF coordinates[Discovery.targets[j].case] = None
                                THEN "discovery-incomplete" ELSE "discovery-coordinate", budget)
            /\ UNCHANGED <<d, r, finding>>
         \/ Resolved
  BY DEF Resolve, Resolving, Resolved
<1>2. /\ pc # "done" /\ results = <<>> /\ Len(results) = 0 /\ c = 1 /\ PlanOK
      /\ d \in 1 .. Len(Discoveries) /\ Discovery = Discoveries[d]
      /\ r = Len(Discovery.requests) + 1 /\ Len(Discovery.requests) \in Nat
      /\ Len(Discoveries) \in Nat /\ d <= Len(Discoveries)
  BY <1>1, ResolvingParts, PlanParts
<1>3. /\ budget \in [used : Nat, discoveryUsed : Nat] /\ budget.used = budget.discoveryUsed
      /\ budget.discoveryUsed <= DiscoveryBudget(plan)
      /\ budget.discoveryUsed <= BudgetUpTo(plan)[d - 1] + (r - 1)
  BY <1>2 DEF CInv, SpendingOK
<1>4. ASSUME NEW code \in {"discovery-incomplete", "discovery-coordinate"},
             DiscoveryFails(code, budget), UNCHANGED <<d, r, finding>>
      PROVE  CInv'
  <2>1. FailReport(Failure(code, None, Discovery.id), budget, results)
    BY <1>4 DEF DiscoveryFails
  <2>2. UNCHANGED <<counters, resolved, pages>>
    BY <1>1, <1>4 DEF counters, finding
  <2>3. FindingOK' /\ ListingClosed'
    BY <1>1, <1>4, <2>2, StaysFinding, StaysClosed DEF CInv
  <2>4. code \notin {"report-sanitization", "request-budget", "discovery-budget"} \cup Codes
    BY <1>4 DEF Codes
  <2> QED
    BY <1>1, <1>2, <1>3, <2>1, <2>2, <2>3, <2>4, FailsBefore
<1>5. CASE Resolved
  <2>1. /\ PlanOK' /\ UNCHANGED <<Cases, Discoveries>>
        /\ UNCHANGED <<DiscoveryBudget(plan), BudgetUpTo(plan), Ids(Cases)>>
    BY <1>1, <1>2, StaysPlanned
  <2>2. /\ d' = d + 1 /\ r' = 1 /\ UNCHANGED <<pc, report, pages>>
        /\ observed' = NothingRead /\ coordinates' = NotFound
    BY <1>5 DEF Resolved
  <2>3. CountersOK'
    <3>1. d' \in 1 .. Len(Discoveries) + 1 /\ r' \in Nat \ {0}
      BY <1>2, <2>2
    <3>2. d' <= Len(Discoveries) => r' <= Len(Discovery'.requests) + 1
      <4> SUFFICES ASSUME d' <= Len(Discoveries) PROVE r' <= Len(Discovery'.requests) + 1
        OBVIOUS
      <4>1. d' \in 1 .. Len(Discoveries) /\ Discovery' = Discoveries[d']
        BY <2>1, <3>1 DEF Discovery, Discoveries
      <4>2. Len(Discoveries[d'].requests) \in Nat
        BY <1>2, <4>1, DiscoveryParts
      <4> QED
        BY <2>2, <4>1, <4>2
    <3> QED
      BY <1>1, <1>2, <2>1, <2>2, <3>1, <3>2 DEF CInv, CountersOK
  <2>4. SpendingOK'
    <3> DEFINE before == BudgetUpTo(plan)[d - 1]
               after  == BudgetUpTo(plan)[d]
               length == Len(Discovery.requests)
               most   == Discovery.max
               spent  == budget.discoveryUsed
    <3>1. /\ after = before + most /\ most \in Nat /\ length <= most
      BY <1>2, BudgetParts, DiscoveryParts
    <3>2. before \in Nat /\ after \in Nat
      <4>1. d - 1 \in 0 .. Len(Discoveries) /\ d \in 0 .. Len(Discoveries)
        BY <1>2
      <4> QED
        BY <1>2, <4>1, BudgetParts
    <3>3. /\ spent \in Nat /\ length \in Nat /\ r = length + 1 /\ spent <= before + (r - 1)
      BY <1>2, <1>3
    <3> HIDE DEF before, after, length, most, spent
    <3>4. spent <= after + (1 - 1)
      BY <3>1, <3>2, <3>3
    <3>5. d' - 1 = d
      BY <1>2, <2>2
    <3>6. budget.discoveryUsed <= BudgetUpTo(plan)[d' - 1] + (r' - 1)
      BY <2>2, <3>4, <3>5 DEF after, spent
    <3> QED
      BY <1>1, <2>1, <2>2, <3>6 DEF CInv, SpendingOK
  <2>5. FindingOK'
    <3>1. observed' \in [Partitions -> -1 .. MaxPages]
      BY <2>2, ConformanceAssumption DEF NothingRead, Unread
    <3>2. coordinates' \in [Ids(Cases) -> Partitions \cup {None}]
      BY <2>2 DEF NotFound
    <3>3. resolved' \in [Ids(Cases) -> Partitions \cup {None}]
      BY <1>5 DEF Resolved, CInv, FindingOK
    <3>4. \A i \in DOMAIN Discoveries : i > d' => pages[i] = {}
      <4>1. \A i \in DOMAIN Discoveries : i > d' => i > d
        BY <1>2, <2>2, PlanParts
      <4> QED
        BY <4>1 DEF CInv, FindingOK
    <3> QED
      BY <2>1, <2>2, <3>1, <3>2, <3>3, <3>4 DEF CInv, FindingOK
  <2>6. SoFar'
    <3> SUFFICES ASSUME d' <= Len(Discoveries) PROVE ReadSoFar'
      BY <2>1 DEF SoFar
    <3>1. d' \in DOMAIN Discoveries /\ d' > d
      BY <1>2, <2>2, PlanParts
    <3>2. pages'[d'] = {}
      BY <2>2, <3>1 DEF CInv, FindingOK
    <3>3. PagesAgree' /\ NoneMissed'
      BY <2>2, <3>2 DEF PagesAgree, NoneMissed
    <3>4. WithinReach'
      BY <2>2 DEF WithinReach, NothingRead
    <3>5. CoordinatesFound'
      BY <2>1, <2>2 DEF CoordinatesFound, NotFound
    <3> QED
      BY <3>3, <3>4, <3>5 DEF ReadSoFar
  <2>7. Told'
    BY <1>1, <1>2, <2>2 DEF CInv, Told
  <2>8. Reported'
    BY <1>2, <2>2, NothingToldYet DEF CInv
  <2> QED
    BY <1>5, <2>1, <2>3, <2>4, <2>5, <2>6, <2>7, <2>8, ResolvedCloses, ResolvedSupplies DEF CInv
<1> QED
  BY <1>1, <1>4, <1>5

Running == pc = "discover" /\ d > Len(plan.discoveries) /\ c <= Len(Cases)
Counted == [budget EXCEPT !.used = @ + 1]

LEMMA RunningParts ==
  ASSUME CInv, Running
  PROVE  /\ pc # "done" /\ PlanOK /\ Len(Cases) \in Nat /\ c \in 1 .. Len(Cases)
         /\ Len(results) = c - 1 /\ results \in Seq(ResultType)
         /\ d > Len(Discoveries) /\ ~ (d <= Len(Discoveries)) /\ ~ Exhausted
         /\ Counted \in [used : Nat, discoveryUsed : Nat]
         /\ Counted.used = Counted.discoveryUsed + c
         /\ Counted.discoveryUsed <= DiscoveryBudget(plan)
<1>1. /\ pc # "done" /\ PlanOK /\ d > Len(Discoveries) /\ c <= Len(Cases)
      /\ Len(results) = c - 1 /\ results \in Seq(ResultType)
  BY DEF Running, CInv, Told, Discoveries
<1>2. Len(Cases) \in Nat /\ Len(Discoveries) \in Nat /\ c \in 1 .. Len(Cases) + 1 /\ d \in Nat
  BY <1>1, PlanParts DEF CInv, CountersOK
<1>3. c \in 1 .. Len(Cases) /\ ~ (d <= Len(Discoveries))
  BY <1>1, <1>2
<1>4. /\ budget \in [used : Nat, discoveryUsed : Nat]
      /\ budget.used = budget.discoveryUsed + (c - 1)
      /\ budget.discoveryUsed <= DiscoveryBudget(plan)
  BY <1>1 DEF CInv, SpendingOK
<1>5. DiscoveryBudget(plan) \in Nat /\ Draft.ceiling = Len(Cases) + DiscoveryBudget(plan)
  BY <1>1, BudgetParts
<1>6. ~ Exhausted
  BY <1>2, <1>3, <1>4, <1>5 DEF Exhausted
<1>7. /\ Counted \in [used : Nat, discoveryUsed : Nat]
      /\ Counted.used = budget.used + 1 /\ Counted.discoveryUsed = budget.discoveryUsed
  BY <1>4 DEF Counted
<1>8. Counted.used = Counted.discoveryUsed + c
  BY <1>3, <1>4, <1>7
<1> QED
  BY <1>1, <1>2, <1>3, <1>4, <1>6, <1>7, <1>8

(* The result of a case is added to those of the cases before it. *)
LEMMA RecordedParts ==
  ASSUME CInv, Running,
         NEW outcome \in {"passed", "failed"}, NEW evidence \in {"valid", "invalid"},
         NEW cases, cases = Recorded(Result(outcome, evidence))
  PROVE  /\ Results(cases, Counted) /\ Len(cases) = c /\ cases # <<>> /\ cases \in Seq(ResultType)
         /\ cases[Len(cases)].id = Cases[c].id /\ cases[Len(cases)].outcome = outcome
         /\ Cases[c].id # None
         /\ \A i \in 1 .. Len(cases) :
              /\ cases[i].id = Cases[i].id /\ cases[i].operation = Cases[i].operation
              /\ cases[i].query = resolved[Cases[i].id]
              /\ cases[i].outcome = IF i = c THEN outcome ELSE "passed"
<1>1. /\ PlanOK /\ c \in 1 .. Len(Cases) /\ Len(results) = c - 1 /\ results \in Seq(ResultType)
      /\ pc # "done" /\ Len(Cases) \in Nat
  BY RunningParts
<1>2. Cases[c] \in CaseType /\ Cases[c].id \in Ids(Cases)
  BY <1>1, PlanParts
<1> DEFINE result == Result(outcome, evidence)
<1>3. /\ result.id = Cases[c].id /\ result.operation = Cases[c].operation
      /\ result.query = resolved[Cases[c].id] /\ result.outcome = outcome
  BY DEF Result
<1>4. result \in ResultType /\ Cases[c].id # None
  BY <1>2 DEF Result, ResultType, CaseType, CInv, FindingOK
<1> HIDE DEF result
<1>5. /\ cases \in Seq(ResultType) /\ Len(cases) = c /\ cases[c] = result
      /\ \A i \in 1 .. c - 1 : cases[i] = results[i]
  <2>1. cases = Append(results, result)
    BY DEF Recorded, result
  <2>2. (c - 1) + 1 = c
    BY <1>1
  <2> QED
    BY <1>1, <1>4, <2>1, <2>2, AppendProperties
<1>6. cases # <<>>
  BY <1>1, <1>5, EmptySeq
<1>7. ASSUME NEW i \in 1 .. c
      PROVE  /\ cases[i].id = Cases[i].id /\ cases[i].operation = Cases[i].operation
             /\ cases[i].query = resolved[Cases[i].id]
             /\ cases[i].outcome = IF i = c THEN outcome ELSE "passed"
  <2>1. CASE i = c
    BY <1>3, <1>5, <2>1
  <2>2. CASE i # c
    <3>1. i \in 1 .. c - 1
      BY <1>1, <2>2
    <3> QED
      BY <1>1, <1>5, <2>2, <3>1 DEF CInv, Told
  <2> QED
    BY <2>1, <2>2
<1>8. Results(cases, Counted)
  BY <1>1, <1>5, <1>7, RunningParts DEF Results
<1> QED
  BY <1>3, <1>4, <1>5, <1>6, <1>7, <1>8

LEMMA RunCaseConforms == CInv /\ RunCase => CInv'
<1> SUFFICES ASSUME CInv, RunCase PROVE CInv'
  OBVIOUS
<1>1. /\ Running /\ Execute /\ UNCHANGED <<plan, d, r, finding>>
  <2>1. Running /\ UNCHANGED <<plan, d, r, finding>>
    BY DEF RunCase, Running
  <2> QED
    BY <2>1, RunningParts DEF RunCase
<1>2. /\ pc # "done" /\ PlanOK /\ Len(Cases) \in Nat /\ c \in 1 .. Len(Cases)
      /\ d > Len(Discoveries) /\ ~ (d <= Len(Discoveries))
      /\ Counted \in [used : Nat, discoveryUsed : Nat]
      /\ Counted.used = Counted.discoveryUsed + c
      /\ Counted.discoveryUsed <= DiscoveryBudget(plan)
  BY <1>1, RunningParts
<1>3. UNCHANGED <<observed, coordinates, resolved, pages>>
  BY <1>1 DEF finding
<1>4. FindingOK' /\ ListingClosed' /\ SuppliedOnly'
  BY <1>1, <1>3, StaysFinding, StaysClosed, StaysSupplied DEF CInv
<1>5. /\ PlanOK' /\ UNCHANGED <<Cases, Discoveries>> /\ UNCHANGED DiscoveryBudget(plan)
  BY <1>1, <1>2, StaysPlanned
<1>6. SoFar' /\ ~ (d' <= Len(Discoveries'))
  BY <1>1, <1>2, <1>5 DEF SoFar
<1>7. budget' = Counted
  BY <1>1 DEF Execute, Counted
<1>8. PICK evidence \in {"valid", "invalid"} :
        \/ /\ results' = Recorded(Result("passed", evidence))
           /\ \/ c' = c + 1 /\ UNCHANGED <<pc, report>>
              \/ /\ UNCHANGED c
                 /\ FailReport(Failure("pacing", Cases[c].id, None), Counted, results')
        \/ /\ results' = Recorded(Result("failed", evidence))
           /\ \E code \in Codes :
                FailReport(Failure(code, Cases[c].id, None), Counted, results')
           /\ UNCHANGED c
  BY <1>1, Zenon DEF Execute, Counted
<1>9. ASSUME NEW outcome \in {"passed", "failed"}, results' = Recorded(Result(outcome, evidence))
      PROVE  /\ Results(results', Counted) /\ Len(results') = c /\ results' # <<>>
             /\ results' \in Seq(ResultType)
             /\ results'[Len(results')].id = Cases[c].id /\ Cases[c].id # None
             /\ results'[Len(results')].outcome = outcome
             /\ \A i \in 1 .. Len(results') :
                  /\ results'[i].id = Cases[i].id /\ results'[i].operation = Cases[i].operation
                  /\ results'[i].query = resolved[Cases[i].id]
                  /\ results'[i].outcome = IF i = c THEN outcome ELSE "passed"
  BY <1>1, <1>9, RecordedParts
<1>10. ASSUME NEW outcome \in {"passed", "failed"}, results' = Recorded(Result(outcome, evidence)),
              pc' = "done" \/ (outcome = "passed" /\ c' = c + 1)
       PROVE  SpendingOK' /\ Told'
  <2>1. SpendingOK'
    BY <1>2, <1>5, <1>6, <1>7, <1>9, <1>10 DEF SpendingOK
  <2>2. \A i \in 1 .. Len(results') :
          /\ results'[i].id = Cases'[i].id /\ results'[i].operation = Cases'[i].operation
          /\ results'[i].query = resolved'[Cases'[i].id]
          /\ pc' # "done" => results'[i].outcome = "passed"
    BY <1>3, <1>5, <1>9, <1>10
  <2>3. pc' # "done" => Len(results') = c' - 1
    BY <1>2, <1>9, <1>10
  <2>4. results' \in Seq(ResultType)
    BY <1>9, <1>10
  <2> QED
    BY <2>1, <2>2, <2>3, <2>4 DEF Told
<1>11. ASSUME c' \in {c, c + 1}, pc' \in {"discover", "done"} PROVE CountersOK'
  <2>1. c' \in 1 .. Len(Cases) + 1
    BY <1>2, <1>11
  <2> QED
    BY <1>1, <1>5, <1>6, <1>11, <2>1 DEF CInv, CountersOK, Running
<1>12. ASSUME NEW outcome \in {"passed", "failed"}, results' = Recorded(Result(outcome, evidence)),
              NEW code \in {"pacing"} \cup Codes, code \in Codes => outcome = "failed",
              FailReport(Failure(code, Cases[c].id, None), Counted, results'), UNCHANGED c
       PROVE  CInv'
  <2> DEFINE failure == Failure(code, Cases[c].id, None)
  <2>1. failure.case = Cases[c].id /\ failure.code = code
    BY DEF Failure
  <2>2. FailReport(failure, Counted, results')
    BY <1>12
  <2>3. code \notin {"report-sanitization", "request-budget", "discovery-budget"}
    BY DEF Codes
  <2> HIDE DEF failure
  <2>4. Reported' /\ pc' = "done"
    <3> DEFINE cases == results'
    <3>1. /\ Results(cases, Counted) /\ cases # <<>> /\ cases[Len(cases)].id = Cases[c].id
          /\ Cases[c].id # None /\ cases[Len(cases)].outcome = outcome
      BY <1>9, <1>12
    <3>2. FailReport(failure, Counted, cases) /\ results' = cases
      BY <2>2
    <3> HIDE DEF cases
    <3> QED
      BY <1>2, <1>12, <2>1, <2>3, <3>1, <3>2, FailTells
  <2>5. CountersOK' /\ SpendingOK' /\ Told'
    BY <1>10, <1>11, <1>12, <2>4
  <2> QED
    BY <1>4, <1>5, <1>6, <2>4, <2>5 DEF CInv
<1>13. CASE /\ results' = Recorded(Result("passed", evidence))
            /\ c' = c + 1 /\ UNCHANGED <<pc, report>>
  <2>1. Reported'
    BY <1>2, <1>13, NothingToldYet DEF CInv
  <2>2. pc' = "discover"
    BY <1>1, <1>13 DEF Running
  <2>3. CountersOK' /\ SpendingOK' /\ Told'
    BY <1>10, <1>11, <1>13, <2>2
  <2> QED
    BY <1>4, <1>5, <1>6, <2>1, <2>3 DEF CInv
<1>14. CASE /\ results' = Recorded(Result("passed", evidence))
            /\ UNCHANGED c
            /\ FailReport(Failure("pacing", Cases[c].id, None), Counted, results')
  BY <1>12, <1>14 DEF Codes
<1>15. CASE /\ results' = Recorded(Result("failed", evidence))
            /\ \E code \in Codes :
                 FailReport(Failure(code, Cases[c].id, None), Counted, results')
            /\ UNCHANGED c
  BY <1>12, <1>15
<1> QED
  BY <1>8, <1>13, <1>14, <1>15

(* A case ran with a coordinate if and only if the plan says it needs one. *)
LEMMA SuppliedWhenNeeded ==
  ASSUME CInv, d > Len(Discoveries), NEW k \in 1 .. Len(Cases)
  PROVE  resolved[Cases[k].id] = None <=> Cases[k].discovery = None
<1>1. PlanOK /\ d \in 1 .. Len(Discoveries) + 1
  BY DEF CInv, CountersOK
<1>2. Cases[k].id \in Ids(Cases) /\ Len(Discoveries) \in Nat
  BY <1>1, PlanParts
<1>3. d - 1 = Len(Discoveries)
  BY <1>1, <1>2
<1>4. resolved[Cases[k].id] # None <=> Supplied(Cases[k].id)
  BY <1>2 DEF CInv, SuppliedOnly
<1>5. Supplied(Cases[k].id) <=> Cases[k].discovery # None
  BY <1>1, <1>3, TargetsNeedThem DEF Supplied
<1> QED
  BY <1>4, <1>5

LEMMA FinishConforms == CInv /\ Finish => CInv'
<1> SUFFICES ASSUME CInv, Finish PROVE CInv'
  OBVIOUS
<1>1. /\ pc = "discover" /\ d > Len(Discoveries) /\ c > Len(Cases)
      /\ UNCHANGED <<plan, counters, finding, budget, results>>
  BY DEF Finish, Discoveries
<1>2. /\ UNCHANGED <<d, r, c, observed, coordinates, resolved, pages>>
      /\ FindingOK' /\ ListingClosed' /\ SuppliedOnly'
  BY <1>1, StaysFinding, StaysClosed, StaysSupplied DEF CInv, counters, finding
<1>3. /\ PlanOK /\ PlanOK'
      /\ UNCHANGED <<Cases, Discoveries, DiscoveryBudget(plan), BudgetUpTo(plan), Ids(Cases)>>
  BY <1>1, StaysPlanned DEF CInv
<1>4. /\ Len(results) = Len(Cases) /\ Len(Cases) \in Nat /\ DOMAIN Cases = 1 .. Len(Cases)
      /\ results \in Seq(ResultType) /\ DOMAIN results = 1 .. Len(results)
      /\ \A i \in 1 .. Len(results) :
           /\ results[i].id = Cases[i].id /\ results[i].operation = Cases[i].operation
           /\ results[i].query = resolved[Cases[i].id] /\ results[i].outcome = "passed"
           /\ results[i].evidence \in {"valid", "invalid"}
  <2>1. Len(Cases) \in Nat /\ c \in 1 .. Len(Cases) + 1 /\ DOMAIN Cases = 1 .. Len(Cases)
    BY <1>3, PlanParts DEF CInv, CountersOK
  <2>2. results \in Seq(ResultType) /\ Len(results) = c - 1
    BY <1>1 DEF CInv, Told
  <2>3. Len(results) = Len(Cases)
    BY <1>1, <2>1, <2>2
  <2>4. DOMAIN results = 1 .. Len(results)
    BY <2>2, LenProperties
  <2>5. \A i \in 1 .. Len(results) : results[i].evidence \in {"valid", "invalid"}
    <3>1. \A i \in 1 .. Len(results) : results[i] \in ResultType
      BY <2>2, ElementOfSeq
    <3> QED
      BY <3>1 DEF ResultType
  <2> QED
    BY <1>1, <2>1, <2>2, <2>3, <2>4, <2>5 DEF CInv, Told
<1>5. Results(results, budget)
  BY <1>4 DEF Results, CInv, SpendingOK
<1> DEFINE passed == Report("passed", NoFailure, budget, results)
           failed == Report("failed", Failure("report-sanitization", None, None), budget, results)
<1>6. (ValidReport(passed) <=> Sound(results)) /\ (ValidReport(failed) <=> Sound(results))
  <2>1. Failure("report-sanitization", None, None).case = None
    BY DEF Failure
  <2>2. ValidReport(failed) <=> Sound(results)
    BY <1>3, <1>5, <2>1, FailedIsValid
  <2> QED
    BY <1>3, <1>4, <1>5, <2>2, PassedIsValid
<1>7. pc' = "done" /\ report' = IF Sound(results) THEN passed ELSE Sanitized
  BY <1>6 DEF Finish, FailReport
<1>8. Reported'
  <2>1. CASE Sound(results)
    <3>1. report' = passed
      BY <1>7, <2>1
    <3>2. /\ report'.outcome = "passed" /\ report'.failure = NoFailure /\ report'.cases = results
          /\ report'.used = budget.used /\ report'.discoveryUsed = budget.discoveryUsed
      BY <3>1 DEF Report
    <3>3. report' # NoReport /\ FailureTold'
      BY <3>2 DEF NoReport, None, FailureTold
    <3>4. {results[i].operation : i \in DOMAIN results} = Operations
      <4>1. Operations = {Cases[i].operation : i \in DOMAIN Cases}
        BY <1>3 DEF PlanOK, Preflight, Covered, Cases
      <4> QED
        BY <1>4, <4>1
    <3>5. \A i \in DOMAIN results :
            /\ results[i].id = Cases[i].id
            /\ results[i].outcome = "passed" /\ results[i].evidence = "valid"
            /\ (results[i].query = None) <=> (Cases[i].discovery = None)
      BY <1>1, <1>4, <2>1, SuppliedWhenNeeded DEF Sound
    <3>6. budget.used = Len(Cases) + budget.discoveryUsed
      BY <1>4 DEF CInv, SpendingOK
    <3>7. PassedMeansAll'
      BY <1>1, <1>3, <1>4, <3>2, <3>4, <3>5, <3>6 DEF PassedMeansAll
    <3> QED
      BY <1>7, <3>3, <3>7 DEF Reported, ReportTrue
  <2>2. CASE ~ Sound(results)
    <3>1. report' = Sanitized /\ report'.outcome = "failed"
      BY <1>7, <2>2 DEF Sanitized
    <3>2. report' # NoReport /\ PassedMeansAll'
      BY <3>1 DEF NoReport, None, PassedMeansAll
    <3>3. \E i \in DOMAIN results' : results'[i].evidence = "invalid"
      BY <1>1, <1>4, <2>2 DEF Sound
    <3>4. FailureTold'
      BY <3>1, <3>3 DEF FailureTold
    <3> QED
      BY <1>7, <3>2, <3>4 DEF Reported, ReportTrue
  <2> QED
    BY <2>1, <2>2
<1>9. CountersOK'
  <2>1. UNCHANGED Discovery
    BY <1>1, <1>2 DEF Discovery
  <2> QED
    BY <1>1, <1>2, <1>3, <1>7, <2>1 DEF CInv, CountersOK
<1>10. SpendingOK' /\ Told'
  BY <1>1, <1>2, <1>3, <1>7 DEF CInv, SpendingOK, Told
<1>11. SoFar'
  BY <1>7 DEF SoFar
<1> QED
  BY <1>2, <1>3, <1>8, <1>9, <1>10, <1>11 DEF CInv

-----------------------------------------------------------------------------
(* The theorems. *)

LEMMA NextConforms == CInv /\ [Next]_vars => CInv'
<1> SUFFICES ASSUME CInv, [Next]_vars PROVE CInv'
  OBVIOUS
<1>1. CASE UNCHANGED vars
  <2>1. /\ UNCHANGED <<plan, pc, d, r, c, observed, coordinates, resolved, pages>>
        /\ UNCHANGED <<budget, results, report, finding>>
    BY <1>1 DEF vars, counters, finding
  <2>2. /\ PlanOK' /\ UNCHANGED <<Cases, Discoveries, Discovery>>
        /\ UNCHANGED <<DiscoveryBudget(plan), BudgetUpTo(plan), Ids(Cases)>>
    BY <2>1, StaysPlanned DEF CInv, Discovery
  <2>3. CountersOK' /\ SpendingOK' /\ Told'
    BY <2>1, <2>2 DEF CInv, CountersOK, SpendingOK, Told
  <2>4. FindingOK' /\ ListingClosed' /\ SuppliedOnly'
    BY <2>1, StaysFinding, StaysClosed, StaysSupplied DEF CInv
  <2>5. SoFar'
    BY <2>1, <2>2
       DEF CInv, SoFar, ReadSoFar, PagesAgree, NoneMissed, WithinReach, CoordinatesFound, Found
  <2>6. Reported'
    BY <2>1, <2>2 DEF CInv, Reported, ReportTrue, PassedMeansAll, FailureTold
  <2> QED
    BY <2>2, <2>3, <2>4, <2>5, <2>6 DEF CInv
<1>2. CASE Next
  BY <1>2, StartConforms, SkipPageConforms, AskFailsConforms, AskConforms, ResolveConforms,
     RunCaseConforms, FinishConforms DEF Next
<1> QED
  BY <1>1, <1>2

LEMMA Conforms == Spec => []CInv
<1> QED
  BY InitConformance, NextConforms, PTL DEF Spec

LEMMA ConformanceTyped == CInv => ConformanceTypeOK
<1> SUFFICES ASSUME CInv PROVE ConformanceTypeOK
  OBVIOUS
<1>1. /\ PlanOK /\ CountersOK /\ SpendingOK /\ FindingOK /\ Len(Discoveries) \in Nat
      /\ Len(Cases) \in Nat
  BY PlanParts DEF CInv
<1>2. /\ Draft.discoveryCeiling = DiscoveryBudget(plan) /\ DiscoveryBudget(plan) \in Nat
      /\ Draft.ceiling = Len(Cases) + DiscoveryBudget(plan) /\ Draft.ceiling <= Limit
  BY <1>1, BudgetParts
<1>3. r \in 1 .. Limit + 1
  <2>1. CASE d <= Len(Discoveries)
    <3> DEFINE before == BudgetUpTo(plan)[d - 1]
               after  == BudgetUpTo(plan)[d]
               length == Len(Discovery.requests)
               most   == Discovery.max
               whole  == DiscoveryBudget(plan)
               cases  == Len(Cases)
    <3>1. d \in 1 .. Len(Discoveries) /\ d \in 0 .. Len(Discoveries) /\ d - 1 \in 0 .. Len(Discoveries)
      BY <1>1, <2>1 DEF CountersOK
    <3>2. Discovery = Discoveries[d]
      BY DEF Discovery, Discoveries
    <3>3. before \in Nat /\ after \in Nat /\ after <= whole /\ after = before + most
      BY <1>1, <3>1, <3>2, BudgetParts
    <3>4. length \in Nat /\ most \in Nat /\ length <= most
      BY <1>1, <3>1, <3>2, DiscoveryParts
    <3>5. r \in Nat \ {0} /\ r <= length + 1
      BY <1>1, <2>1 DEF CountersOK
    <3>6. cases \in Nat /\ whole \in Nat /\ cases + whole <= Limit /\ Limit \in Nat
      BY <1>1, <1>2, ConformanceAssumption
    <3> HIDE DEF before, after, length, most, whole, cases
    <3> QED
      BY <3>3, <3>4, <3>5, <3>6
  <2>2. CASE ~ (d <= Len(Discoveries))
    <3>1. r = 1
      BY <1>1, <2>2 DEF CountersOK
    <3> QED
      BY <3>1, ConformanceAssumption
  <2> QED
    BY <2>1, <2>2
<1>4. /\ budget.used \in 0 .. Draft.ceiling
      /\ budget.discoveryUsed \in 0 .. Draft.discoveryCeiling
      /\ budget.used - budget.discoveryUsed \in 0 .. Draft.ceiling - Draft.discoveryCeiling
  <2> DEFINE own == Len(results)
             whole == DiscoveryBudget(plan)
             cases == Len(Cases)
  <2>1. own \in Nat
    BY LenProperties DEF CInv, Told
  <2>2. /\ budget.used \in Nat /\ budget.discoveryUsed \in Nat
        /\ budget.used = budget.discoveryUsed + own
        /\ own <= cases /\ budget.discoveryUsed <= whole
    BY <1>1 DEF SpendingOK
  <2>3. Draft.ceiling = cases + whole /\ Draft.discoveryCeiling = whole /\ cases \in Nat /\ whole \in Nat
    BY <1>1, <1>2
  <2> HIDE DEF own, whole, cases
  <2> QED
    BY <2>1, <2>2, <2>3
<1>5. report = NoReport <=> pc # "done"
  BY DEF CInv, Reported
<1> QED
  BY <1>1, <1>2, <1>3, <1>4, <1>5 DEF ConformanceTypeOK, CountersOK, FindingOK, Discoveries

(* The state of a run keeps its type, and its budget is overspent neither  *)
(* by the listings nor by the cases: whatever the service answers, no plan *)
(* that Preflight accepts sends more requests than the limit.              *)
THEOREM ConformanceTypeCorrect == Spec => []ConformanceTypeOK
<1> QED
  BY Conforms, ConformanceTyped, PTL

(* A discovery supplies coordinates only from listings of the right type   *)
(* that were read to the end, in whatever order the plan asks for pages    *)
(* and however the listing changes under it.                               *)
THEOREM ListingsClosed == Spec => []ListingClosed
<1>1. CInv => ListingClosed
  BY DEF CInv
<1> QED
  BY <1>1, Conforms, PTL

(* A report that passed stands for every operation of the specification,   *)
(* and one that failed says what befell the run: it is emptied only for    *)
(* evidence that it may not hold.                                          *)
THEOREM ReportAlwaysTrue == Spec => []ReportTrue
<1>1. CInv => ReportTrue
  BY DEF CInv, Reported
<1> QED
  BY <1>1, Conforms, PTL

-----------------------------------------------------------------------------
(* The end of a run. *)

(* The steps that a run may still take: the requests that its discoveries  *)
(* may still make, their ends, the cases, the start and the report.        *)
Left ==
  (DiscoveryBudget(plan) - BudgetUpTo(plan)[d - 1] - (r - 1))
    + (Len(Discoveries) + 1 - d) + (Len(Cases) + 1 - c)
    + (IF pc = "start" THEN 2 ELSE IF pc = "done" THEN 0 ELSE 1)

(* What Left is made of. *)
LeftOK ==
  /\ BudgetUpTo(plan)[d - 1] \in Nat /\ DiscoveryBudget(plan) \in Nat
  /\ Len(Discoveries) \in Nat /\ Len(Cases) \in Nat
  /\ d \in 1 .. Len(Discoveries) + 1 /\ r \in Nat \ {0} /\ c \in 1 .. Len(Cases) + 1
  /\ BudgetUpTo(plan)[d - 1] + (r - 1) <= DiscoveryBudget(plan)
  /\ DiscoveryBudget(plan) + Len(Cases) <= Limit
  /\ pc \in {"start", "discover", "done"}

LEMMA LeftParts == CInv => LeftOK
<1> SUFFICES ASSUME CInv PROVE LeftOK
  OBVIOUS
<1>1. /\ PlanOK /\ CountersOK /\ DiscoveryBudget(plan) \in Nat
      /\ Len(Discoveries) \in Nat /\ Len(Cases) \in Nat
  BY PlanParts, BudgetParts DEF CInv
<1>2. /\ d \in 1 .. Len(Discoveries) + 1 /\ d - 1 \in 0 .. Len(Discoveries)
  BY <1>1 DEF CountersOK
<1>3. BudgetUpTo(plan)[d - 1] \in Nat /\ BudgetUpTo(plan)[d - 1] <= DiscoveryBudget(plan)
  BY <1>1, <1>2, BudgetParts
<1>4. BudgetUpTo(plan)[d - 1] + (r - 1) <= DiscoveryBudget(plan)
  <2> DEFINE before == BudgetUpTo(plan)[d - 1]
             whole  == DiscoveryBudget(plan)
  <2>1. CASE d <= Len(Discoveries)
    <3> DEFINE after  == BudgetUpTo(plan)[d]
               length == Len(Discovery.requests)
               most   == Discovery.max
    <3>1. d \in 1 .. Len(Discoveries) /\ d \in 0 .. Len(Discoveries) /\ Discovery = Discoveries[d]
      BY <1>1, <1>2, <2>1 DEF Discovery, Discoveries
    <3>2. /\ after \in Nat /\ after <= whole /\ after = before + most
          /\ length \in Nat /\ most \in Nat /\ length <= most
      BY <1>1, <3>1, BudgetParts, DiscoveryParts
    <3>3. r \in Nat \ {0} /\ r <= length + 1 /\ before \in Nat /\ whole \in Nat
      BY <1>1, <1>3, <2>1 DEF CountersOK
    <3> HIDE DEF before, whole, after, length, most
    <3>4. before + (r - 1) <= whole
      BY <3>2, <3>3
    <3> QED
      BY <3>4 DEF before, whole
  <2>2. CASE ~ (d <= Len(Discoveries))
    <3>1. r = 1 /\ before \in Nat /\ before <= whole
      BY <1>1, <1>2, <1>3, <2>2 DEF CountersOK
    <3> HIDE DEF before, whole
    <3>2. before + (r - 1) <= whole
      BY <3>1
    <3> QED
      BY <3>2 DEF before, whole
  <2> QED
    BY <2>1, <2>2
<1>5. DiscoveryBudget(plan) + Len(Cases) <= Limit
  BY <1>1, BudgetParts
<1> QED
  BY <1>1, <1>2, <1>3, <1>4, <1>5 DEF CountersOK, LeftOK

(* A step begins, makes a request, ends a discovery or a case, or reports. *)
Advances ==
  /\ UNCHANGED plan
  /\ \/ pc' = "done" /\ pc # "done" /\ UNCHANGED <<d, r, c>>
     \/ pc = "start" /\ pc' = "discover" /\ UNCHANGED <<d, r, c>>
     \/ pc = "discover" /\ r' = r + 1 /\ UNCHANGED <<pc, d, c>>
     \/ pc = "discover" /\ Resolving /\ d' = d + 1 /\ r' = 1 /\ UNCHANGED <<pc, c>>
     \/ pc = "discover" /\ c' = c + 1 /\ UNCHANGED <<pc, d, r>>

LEMMA NextAdvances == CInv /\ Next => Advances
<1> SUFFICES ASSUME CInv, Next PROVE Advances
  OBVIOUS
<1>1. CASE Start
  BY <1>1 DEF Start, FailReport, counters, Advances
<1>2. CASE SkipPage
  BY <1>2 DEF SkipPage, Asking, Advances
<1>3. CASE AskFails
  BY <1>3 DEF AskFails, Asking, DiscoveryFails, FailReport, counters, Advances
<1>4. CASE Ask
  BY <1>4, Zenon DEF Ask, Asking, DiscoveryFails, FailReport, Advances
<1>5. CASE Resolve
  BY <1>5 DEF Resolve, Resolving, DiscoveryFails, FailReport, Advances
<1>6. CASE RunCase
  <2>1. pc = "discover" /\ UNCHANGED <<plan, d, r>>
    BY <1>6 DEF RunCase
  <2>2. \/ pc' = "done" /\ UNCHANGED c
        \/ c' = c + 1 /\ UNCHANGED pc
    BY <1>6 DEF RunCase, Execute, FailReport
  <2> QED
    BY <2>1, <2>2 DEF Advances
<1>7. CASE Finish
  BY <1>7 DEF Finish, FailReport, counters, Advances
<1> QED
  BY <1>1, <1>2, <1>3, <1>4, <1>5, <1>6, <1>7 DEF Next

(* A run ends: each of its steps leaves fewer to take, whatever the        *)
(* service answers, and there are never more than the limit of requests    *)
(* and the number of discoveries allow.                                    *)
THEOREM RunAdvances ==
  Spec => /\ [](Left \in 0 .. Limit + Len(Discoveries) + 2)
          /\ [][Left' \in 0 .. Left - 1]_vars
<1>1. CInv => Left \in 0 .. Limit + Len(Discoveries) + 2
  <2> SUFFICES ASSUME CInv PROVE Left \in 0 .. Limit + Len(Discoveries) + 2
    OBVIOUS
  <2> DEFINE before == BudgetUpTo(plan)[d - 1]
             whole  == DiscoveryBudget(plan)
             discoveries == Len(Discoveries)
             cases  == Len(Cases)
             place  == IF pc = "start" THEN 2 ELSE IF pc = "done" THEN 0 ELSE 1
  <2>1. /\ before \in Nat /\ whole \in Nat /\ discoveries \in Nat /\ cases \in Nat
        /\ d \in 1 .. discoveries + 1 /\ r \in Nat \ {0} /\ c \in 1 .. cases + 1
        /\ before + (r - 1) <= whole /\ whole + cases <= Limit
    BY LeftParts DEF LeftOK
  <2>2. Left = (whole - before - (r - 1)) + (discoveries + 1 - d) + (cases + 1 - c) + place
    BY DEF Left
  <2>3. place \in 0 .. 2
    OBVIOUS
  <2> HIDE DEF before, whole, discoveries, cases, place
  <2>4. Left \in 0 .. Limit + discoveries + 2
    BY <2>1, <2>2, <2>3, ConformanceAssumption
  <2> QED
    BY <2>4 DEF discoveries
<1>2. CInv /\ CInv' /\ [Next]_vars => [Left' \in 0 .. Left - 1]_vars
  <2> SUFFICES ASSUME CInv, CInv', Next PROVE Left' \in 0 .. Left - 1
    OBVIOUS
  <2> DEFINE before == BudgetUpTo(plan)[d - 1]
             after  == BudgetUpTo(plan)[d' - 1]
             whole  == DiscoveryBudget(plan)
             discoveries == Len(Discoveries)
             cases  == Len(Cases)
             place  == IF pc = "start" THEN 2 ELSE IF pc = "done" THEN 0 ELSE 1
             next   == IF pc' = "start" THEN 2 ELSE IF pc' = "done" THEN 0 ELSE 1
  <2>1. /\ Advances
        /\ UNCHANGED <<BudgetUpTo(plan), DiscoveryBudget(plan), Discoveries, Cases>>
    BY NextAdvances, StaysPlanned DEF Advances, CInv
  <2>2. /\ before \in Nat /\ whole \in Nat /\ discoveries \in Nat /\ cases \in Nat
        /\ d \in 1 .. discoveries + 1 /\ r \in Nat \ {0} /\ c \in 1 .. cases + 1
        /\ before + (r - 1) <= whole
    BY LeftParts DEF LeftOK
  <2>3. LeftOK'
    BY LeftParts, PTL
  <2>4. /\ after \in Nat /\ d' \in 1 .. discoveries + 1 /\ r' \in Nat \ {0}
        /\ c' \in 1 .. cases + 1 /\ after + (r' - 1) <= whole
    BY <2>1, <2>3 DEF LeftOK
  <2>5. /\ Left = (whole - before - (r - 1)) + (discoveries + 1 - d) + (cases + 1 - c) + place
        /\ Left' = (whole - after - (r' - 1)) + (discoveries + 1 - d') + (cases + 1 - c') + next
    BY <2>1 DEF Left
  <2>6. d' = d => after = before
    OBVIOUS
  <2>7. place \in 0 .. 2 /\ next \in 0 .. 2
    OBVIOUS
  <2>8. CASE pc' = "done" /\ pc # "done" /\ UNCHANGED <<d, r, c>>
    <3>1. next = 0 /\ place >= 1
      BY <2>8, LeftParts DEF LeftOK
    <3> HIDE DEF before, after, whole, discoveries, cases, place, next
    <3> QED
      BY <2>2, <2>4, <2>5, <2>6, <2>7, <2>8, <3>1
  <2>9. CASE pc = "start" /\ pc' = "discover" /\ UNCHANGED <<d, r, c>>
    <3>1. next = 1 /\ place = 2
      BY <2>9
    <3> HIDE DEF before, after, whole, discoveries, cases, place, next
    <3> QED
      BY <2>2, <2>4, <2>5, <2>6, <2>9, <3>1
  <2>10. CASE r' = r + 1 /\ UNCHANGED <<pc, d, c>>
    <3>1. next = place
      BY <2>10
    <3> HIDE DEF before, after, whole, discoveries, cases, place, next
    <3> QED
      BY <2>2, <2>4, <2>5, <2>6, <2>7, <2>10, <3>1
  <2>11. CASE Resolving /\ d' = d + 1 /\ r' = 1 /\ UNCHANGED <<pc, c>>
    <3> DEFINE length == Len(Discovery.requests)
               most   == Discovery.max
    <3>1. next = place /\ d' - 1 = d
      BY <2>2, <2>11
    <3>2. /\ r = length + 1 /\ length \in Nat /\ PlanOK
          /\ d \in 1 .. Len(Discoveries) /\ Discovery = Discoveries[d]
      BY <2>11, ResolvingParts
    <3>3. after = before + most /\ most \in Nat /\ length <= most
      BY <3>1, <3>2, BudgetParts, DiscoveryParts
    <3> HIDE DEF before, after, whole, discoveries, cases, place, next, length, most
    <3> QED
      BY <2>2, <2>4, <2>5, <2>7, <2>11, <3>1, <3>2, <3>3
  <2>12. CASE c' = c + 1 /\ UNCHANGED <<pc, d, r>>
    <3>1. next = place
      BY <2>12
    <3> HIDE DEF before, after, whole, discoveries, cases, place, next
    <3> QED
      BY <2>2, <2>4, <2>5, <2>6, <2>7, <2>12, <3>1
  <2> QED
    BY <2>1, <2>8, <2>9, <2>10, <2>11, <2>12 DEF Advances
<1> QED
  BY <1>1, <1>2, Conforms, PTL DEF Spec
=============================================================================
