-------------------------- MODULE GuideAcquireProofs --------------------------
(***************************************************************************)
(* Proofs about the reading of the guide, for every number of workers, of  *)
(* groups, of endpoints and of attempts and every absolute limit: what it  *)
(* returns is whole, the budget holds, and nobody waits for ever.          *)
(***************************************************************************)
EXTENDS GuideAcquire, FiniteSets, FiniteSetTheorems, TLAPS

In(place) == {w \in Workers : worker[w] = place}
Busy(w)   == worker[w] \in {"reserve", "ask", "answer", "delay"}

(* Who is there while mapConcurrent runs and after it.                     *)
Running ==
  /\ phase # "returned" => outcome = "none"
  /\ phase = "returned" => sender = "wait" /\ \A w \in Workers : worker[w] = "gone"
  /\ sender = "wait" => ~ MoreItems \/ Done \/ phase = "returned"
  /\ \A w \in Workers : worker[w] = "reserve" => mode = "drift"
  /\ \A w \in Workers : worker[w] = "delay" => mode = "sync" /\ attempt[w] < Attempts

(* Why the work was stopped. *)
Causes ==
  /\ cancelled => firstError # "none"
  /\ firstError = "cancelled" => caller

(* Where the items sent so far are. *)
Slots ==
  /\ phase = "groups" => items = G /\ done["endpoints"] = {}
  /\ phase = "endpoints" => done["groups"] = 1 .. G
  /\ \A w \in Workers : Busy(w) => job[w] \in 1 .. index - 1
  /\ phase # "returned" =>
       /\ done[phase] \subseteq 1 .. index - 1
       /\ firstError = "none" =>
            \A i \in 1 .. index - 1 :
              i \in done[phase] \/ \E w \in Workers : Busy(w) /\ job[w] = i

(* The pages asked for so far, with those about to reserve or to be sent.  *)
Handed == IF phase = "endpoints" THEN G + index - 1 ELSE index - 1
Accounts ==
  /\ wire + Cardinality(In("ask")) <= used
  /\ used <= ceiling /\ ceiling <= AbsoluteLimit
  /\ phase # "returned" => used + Cardinality(In("reserve")) <= Handed
  /\ phase = "groups" => ceiling = AbsoluteLimit
  /\ phase = "endpoints" => ceiling = G + items

IInv ==
  /\ AcquireTypeOK /\ Running /\ Causes /\ Slots
  /\ mode = "drift" => Accounts
  /\ Complete /\ CauseReported /\ BudgetSuffices

-----------------------------------------------------------------------------
(* Counting the workers at a place.                                        *)
LEMMA Counts ==
  ASSUME NEW S \in SUBSET Workers
  PROVE  IsFiniteSet(S) /\ Cardinality(S) \in Nat
<1>1. IsFiniteSet(Workers)
  BY AcquireAssumption, FS_Interval DEF Workers
<1>2. QED
  BY <1>1, FS_Subset, FS_CardinalityType

(* A step of one worker changes two of the counts by one.                  *)
LEMMA MoveCounts ==
  ASSUME AcquireTypeOK, NEW w \in Workers, NEW from, NEW to, from # to,
         worker[w] = from, At(w, to)
  PROVE  /\ Cardinality(In(from)') = Cardinality(In(from)) - 1
         /\ Cardinality(In(to)') = Cardinality(In(to)) + 1
         /\ \A p : p \notin {from, to} => In(p)' = In(p)
<1>1. \A p : In(p) \in SUBSET Workers
  BY DEF In
<1>2. In(from)' = In(from) \ {w} /\ w \in In(from)
  BY DEF In, At, AcquireTypeOK
<1>3. In(to)' = In(to) \cup {w} /\ w \notin In(to)
  BY DEF In, At, AcquireTypeOK
<1>4. \A p : p \notin {from, to} => In(p)' = In(p)
  BY DEF In, At, AcquireTypeOK
<1>5. Cardinality(In(from)') = Cardinality(In(from)) - 1
  BY <1>1, <1>2, Counts, FS_RemoveElement
<1>6. Cardinality(In(to)') = Cardinality(In(to)) + 1
  BY <1>1, <1>3, Counts, FS_AddElement
<1>7. QED
  BY <1>4, <1>5, <1>6

(* No worker at a place.                                                   *)
LEMMA NobodyIn ==
  ASSUME NEW place, \A w \in Workers : worker[w] # place
  PROVE  Cardinality(In(place)) = 0
<1>1. In(place) = {}
  BY DEF In
<1>2. QED
  BY <1>1, FS_EmptySet

(* A drift check hands out no more pages than its ceiling covers.          *)
LEMMA HandedBound ==
  ASSUME IInv, mode = "drift", phase # "returned"
  PROVE  /\ used + Cardinality(In("reserve")) <= ceiling
         /\ used <= Handed /\ Handed \in Nat
         /\ Cardinality(In("reserve")) \in Nat
<1>1. Cardinality(In("reserve")) \in Nat
  BY Counts DEF In
<1>2. /\ index \in 1 .. items + 1 /\ used \in Nat /\ items \in Nat /\ ceiling \in Nat
      /\ phase \in {"groups", "endpoints"}
  BY DEF IInv, AcquireTypeOK
<1>3. Accounts
  BY DEF IInv
<1>4. CASE phase = "groups"
  <2>1. Handed = index - 1 /\ ceiling = AbsoluteLimit /\ items = G
    BY <1>3, <1>4 DEF Handed, Accounts, IInv, Slots
  <2>2. used + Cardinality(In("reserve")) <= Handed
    BY <1>3, <1>4 DEF Accounts
  <2>3. QED
    BY <1>1, <1>2, <2>1, <2>2, AcquireAssumption
<1>5. CASE phase = "endpoints"
  <2>1. Handed = G + index - 1 /\ ceiling = G + items
    BY <1>3, <1>5 DEF Handed, Accounts
  <2>2. used + Cardinality(In("reserve")) <= Handed
    BY <1>3, <1>5 DEF Accounts
  <2>3. QED
    BY <1>1, <1>2, <2>1, <2>2, AcquireAssumption
<1>6. QED
  BY <1>2, <1>4, <1>5

-----------------------------------------------------------------------------
(* Every action keeps the inductive invariant.  First the two ways in      *)
(* which a worker may leave a place of its task.                           *)

Places == {"reserve", "ask", "answer", "delay"}

LEMMA FailInv ==
  ASSUME IInv, NEW w \in Workers, worker[w] \in Places,
         NEW error \in {"refused", "failed", "cancelled"}, error = "cancelled" => Done,
         Fail(w, error), attempt' = attempt,
         UNCHANGED <<call, sending, job, caller, result, budget, wire>>
  PROVE  IInv'
<1>1. UNCHANGED <<mode, phase, items, outcome, sender, index, job, caller, done, listed,
                  ceiling, used, wire>>
  BY DEF call, sending, result, budget
<1>2. /\ worker' = [worker EXCEPT ![w] = "ready"]
      /\ firstError' = First(error)
      /\ cancelled' = TRUE
  BY DEF Fail, At
<1>3. firstError' \in Errors /\ firstError' # "none"
  BY <1>2 DEF First, Errors, IInv, AcquireTypeOK
<1>4. AcquireTypeOK'
  BY <1>1, <1>2, <1>3 DEF IInv, AcquireTypeOK
<1>5. Running'
  BY <1>1, <1>2 DEF IInv, Running, AcquireTypeOK, MoreItems, Done, Places
<1>6. Causes'
  <2>1. firstError' = "cancelled" => caller
    BY <1>2 DEF First, Done, IInv, Causes
  <2>2. QED
    BY <1>1, <1>3, <2>1 DEF Causes
<1>7. Slots'
  <2>1. \A v \in Workers : Busy(v)' => Busy(v)
    BY <1>2 DEF Busy, IInv, AcquireTypeOK
  <2>2. QED
    BY <1>1, <1>3, <2>1 DEF IInv, Slots
<1>8. mode' = "drift" => Accounts'
  <2>1. ASSUME mode = "drift"
        PROVE  Accounts'
    <3>1. Cardinality(In("ask")') <= Cardinality(In("ask"))
          /\ Cardinality(In("reserve")') <= Cardinality(In("reserve"))
      <4>1. In("ask")' \subseteq In("ask") /\ In("reserve")' \subseteq In("reserve")
        BY <1>2 DEF In, IInv, AcquireTypeOK
      <4>2. In("ask") \in SUBSET Workers /\ In("reserve") \in SUBSET Workers
        BY DEF In
      <4>3. QED
        BY <4>1, <4>2, Counts, FS_Subset
    <3>2. /\ Cardinality(In("ask")') \in Nat /\ Cardinality(In("ask")) \in Nat
          /\ Cardinality(In("reserve")') \in Nat /\ Cardinality(In("reserve")) \in Nat
      BY Counts DEF In
    <3>3. used \in Nat /\ wire \in Nat /\ index \in Int /\ Handed \in Int
      BY AcquireAssumption DEF IInv, AcquireTypeOK, Handed
    <3>4. Handed' = Handed
      BY <1>1 DEF Handed
    <3>5. Accounts
      BY <2>1 DEF IInv
    <3>6. wire + Cardinality(In("ask")') <= used
      BY <3>1, <3>2, <3>3, <3>5 DEF Accounts
    <3>7. phase # "returned" => used + Cardinality(In("reserve")') <= Handed
      BY <3>1, <3>2, <3>3, <3>5 DEF Accounts
    <3>8. QED
      BY <1>1, <3>4, <3>5, <3>6, <3>7 DEF Accounts
  <2>2. QED
    BY <1>1, <2>1
<1>9. Complete' /\ CauseReported' /\ BudgetSuffices'
  BY <1>1, <1>2 DEF IInv, Complete, CauseReported, BudgetSuffices, First
<1>10. QED
  BY <1>4, <1>5, <1>6, <1>7, <1>8, <1>9 DEF IInv

LEMMA GoOnInv ==
  ASSUME IInv, NEW w \in Workers, worker[w] \in Places,
         NEW to \in {"ask", "answer", "delay"},
         to = "delay" => mode = "sync" /\ attempt'[w] < Attempts,
         At(w, to), attempt' \in [Workers -> 1 .. Attempts],
         \A v \in Workers : v # w => attempt'[v] = attempt[v],
         UNCHANGED <<call, sending, job, failure, caller, result, ceiling>>,
         used' \in Nat, wire' \in Nat, mode = "drift" => Accounts'
  PROVE  IInv'
<1>1. UNCHANGED <<mode, phase, items, outcome, sender, index, job, caller, done, listed,
                  ceiling, firstError, cancelled>>
  BY DEF call, sending, result, failure
<1>2. worker' = [worker EXCEPT ![w] = to]
  BY DEF At
<1>3. AcquireTypeOK'
  BY <1>1, <1>2 DEF IInv, AcquireTypeOK
<1>4. Running'
  BY <1>1, <1>2 DEF IInv, Running, AcquireTypeOK, MoreItems, Done, Places
<1>5. Causes'
  BY <1>1 DEF IInv, Causes
<1>6. Slots'
  <2>1. \A v \in Workers : Busy(v)' <=> Busy(v)
    BY <1>2 DEF Busy, Places, IInv, AcquireTypeOK
  <2>2. QED
    BY <1>1, <2>1 DEF IInv, Slots
<1>7. Complete' /\ CauseReported' /\ BudgetSuffices'
  BY <1>1 DEF IInv, Complete, CauseReported, BudgetSuffices
<1>8. QED
  BY <1>1, <1>3, <1>4, <1>5, <1>6, <1>7 DEF IInv

LEMMA ReserveInv ==
  ASSUME IInv, NEW w \in Workers, Reserve(w)
  PROVE  IInv'
<1>1. mode = "drift" /\ phase # "returned" /\ worker[w] = "reserve"
  BY DEF Reserve, IInv, Running
<1>2. Cardinality(In("reserve")) >= 1
  <2>1. w \in In("reserve") /\ In("reserve") \in SUBSET Workers
    BY <1>1 DEF In
  <2>2. Cardinality(In("reserve")) # 0
    BY <2>1, Counts, FS_EmptySet
  <2>3. QED
    BY <2>1, <2>2, Counts
<1>3. used < ceiling /\ used \in Nat /\ ceiling \in Nat /\ wire \in Nat
  BY <1>1, <1>2, HandedBound DEF IInv, AcquireTypeOK
<1>4. used' = used + 1 /\ At(w, "ask") /\ UNCHANGED failure
      /\ UNCHANGED <<call, sending, task, caller, result, ceiling, wire>>
  BY <1>3 DEF Reserve
<1>5. UNCHANGED <<phase, items, index, attempt, job>>
  BY <1>4 DEF call, sending, task
<1>6. Accounts'
  <2>1. Accounts
    BY <1>1 DEF IInv
  <2>2. /\ Cardinality(In("reserve")') = Cardinality(In("reserve")) - 1
        /\ Cardinality(In("ask")') = Cardinality(In("ask")) + 1
    BY <1>1, <1>4, MoveCounts DEF IInv
  <2>3. Cardinality(In("ask")) \in Nat /\ Cardinality(In("reserve")) \in Nat
    BY Counts DEF In
  <2>4. Handed' = Handed /\ Handed \in Nat
    BY <1>1, <1>5, HandedBound DEF Handed
  <2>5. wire' + Cardinality(In("ask")') <= used'
    BY <1>3, <1>4, <2>1, <2>2, <2>3 DEF Accounts
  <2>6. used' + Cardinality(In("reserve")') <= Handed
    BY <1>1, <1>3, <1>4, <2>1, <2>2, <2>3, <2>4 DEF Accounts
  <2>7. used' <= ceiling
    BY <1>3, <1>4
  <2>8. QED
    BY <1>1, <1>4, <1>5, <2>1, <2>4, <2>5, <2>6, <2>7 DEF Accounts
<1>7. used' \in Nat /\ wire' \in Nat /\ attempt' \in [Workers -> 1 .. Attempts]
  BY <1>3, <1>4, <1>5 DEF IInv, AcquireTypeOK
<1>8. QED
  BY <1>1, <1>4, <1>5, <1>6, <1>7, GoOnInv DEF Places

LEMMA AskInv ==
  ASSUME IInv, NEW w \in Workers, Ask(w)
  PROVE  IInv'
<1>1. worker[w] = "ask" /\ UNCHANGED <<call, sending, task, caller, result, budget>>
  BY DEF Ask
<1>2. UNCHANGED <<phase, items, index, attempt, job, used, ceiling>>
  BY <1>1 DEF call, sending, task, budget
<1>3. CASE Fail(w, "cancelled") /\ Done /\ UNCHANGED wire
  BY <1>1, <1>2, <1>3, FailInv DEF Places
<1>4. CASE wire' = wire + 1 /\ At(w, "answer") /\ UNCHANGED failure
  <2>1. ASSUME mode = "drift"
        PROVE  Accounts'
    <3>1. Accounts
      BY <2>1 DEF IInv
    <3>2. /\ Cardinality(In("ask")') = Cardinality(In("ask")) - 1
          /\ In("reserve")' = In("reserve")
      BY <1>1, <1>4, MoveCounts DEF IInv
    <3>3. Cardinality(In("ask")) \in Nat /\ wire \in Nat /\ used \in Nat
      BY Counts DEF In, IInv, AcquireTypeOK
    <3>4. wire' + Cardinality(In("ask")') <= used
      BY <1>4, <3>1, <3>2, <3>3 DEF Accounts
    <3>5. Handed' = Handed
      BY <1>2 DEF Handed
    <3>6. QED
      BY <1>2, <3>1, <3>2, <3>4, <3>5 DEF Accounts
  <2>2. used' \in Nat /\ wire' \in Nat /\ attempt' \in [Workers -> 1 .. Attempts]
    BY <1>2, <1>4 DEF IInv, AcquireTypeOK
  <2>3. QED
    BY <1>1, <1>2, <1>4, <2>1, <2>2, GoOnInv DEF Places
<1>5. QED
  BY <1>3, <1>4 DEF Ask

(* A retry, which a drift check never makes, changes no account.           *)
LEMMA RetryInv ==
  ASSUME IInv, NEW w \in Workers, worker[w] \in {"answer", "delay"},
         NEW to \in {"ask", "delay"}, mode = "sync",
         to = "delay" => attempt'[w] < Attempts,
         At(w, to), attempt' \in [Workers -> 1 .. Attempts],
         \A v \in Workers : v # w => attempt'[v] = attempt[v],
         UNCHANGED <<call, sending, job, failure, caller, result, budget, wire>>
  PROVE  IInv'
<1>1. used' \in Nat /\ wire' \in Nat /\ UNCHANGED ceiling
  BY DEF budget, IInv, AcquireTypeOK
<1>2. QED
  BY <1>1, GoOnInv DEF Places

LEMMA RejectInv ==
  ASSUME IInv, NEW w \in Workers, Reject(w)
  PROVE  IInv'
<1>1. worker[w] = "answer" /\ UNCHANGED <<call, sending, task, caller, result, budget, wire>>
  BY DEF Reject
<1>2. UNCHANGED <<attempt, job>> /\ attempt \in [Workers -> 1 .. Attempts]
  BY <1>1 DEF task, IInv, AcquireTypeOK
<1>3. CASE Fail(w, "refused") \/ Fail(w, "failed") \/ (Done /\ Fail(w, "cancelled"))
  BY <1>1, <1>2, <1>3, FailInv DEF Places
<1>4. CASE attempt[w] < Allowed /\ At(w, "delay") /\ UNCHANGED failure
  <2>1. mode = "sync" /\ attempt[w] < Attempts
    BY <1>2, <1>4, AcquireAssumption DEF Allowed, IInv, AcquireTypeOK
  <2>2. QED
    BY <1>1, <1>2, <1>4, <2>1, RetryInv
<1>5. QED
  BY <1>3, <1>4 DEF Reject

LEMMA DelayInv ==
  ASSUME IInv, NEW w \in Workers, Delay(w)
  PROVE  IInv'
<1>1. worker[w] = "delay" /\ UNCHANGED <<call, sending, job, caller, result, budget, wire>>
  BY DEF Delay
<1>2. CASE Done /\ Fail(w, "cancelled") /\ UNCHANGED attempt
  BY <1>1, <1>2, FailInv DEF Places
<1>3. CASE attempt' = [attempt EXCEPT ![w] = @ + 1] /\ At(w, "ask") /\ UNCHANGED failure
  <2>1. mode = "sync" /\ attempt[w] < Attempts
    BY <1>1 DEF IInv, Running
  <2>2. /\ attempt' \in [Workers -> 1 .. Attempts]
        /\ \A v \in Workers : v # w => attempt'[v] = attempt[v]
    BY <1>3, <2>1, AcquireAssumption DEF IInv, AcquireTypeOK
  <2>3. QED
    BY <1>1, <1>3, <2>1, <2>2, RetryInv
<1>4. QED
  BY <1>2, <1>3 DEF Delay

LEMMA AcceptInv ==
  ASSUME IInv, NEW w \in Workers, Accept(w)
  PROVE  IInv'
<1>1. UNCHANGED <<mode, phase, items, outcome, sender, index, job, attempt, firstError,
                  cancelled, caller, ceiling, used, wire>>
  BY DEF Accept, call, sending, task, failure, budget
<1>2. /\ worker[w] = "answer" /\ worker' = [worker EXCEPT ![w] = "ready"]
      /\ done' = [done EXCEPT ![phase] = @ \cup {job[w]}]
  BY DEF Accept, At
<1>3. phase \in {"groups", "endpoints"} /\ job[w] \in 1 .. index - 1
  BY <1>2 DEF IInv, Running, AcquireTypeOK, Slots, Busy
<1>4. AcquireTypeOK'
  <2>1. listed' \in Nat
    BY AcquireAssumption DEF Accept, IInv, AcquireTypeOK
  <2>2. done' \in [{"groups", "endpoints"} -> SUBSET Nat]
    BY <1>2, <1>3 DEF IInv, AcquireTypeOK
  <2>3. QED
    BY <1>1, <1>2, <2>1, <2>2 DEF IInv, AcquireTypeOK
<1>5. Running'
  BY <1>1, <1>2 DEF IInv, Running, AcquireTypeOK, MoreItems, Done
<1>6. Causes'
  BY <1>1 DEF IInv, Causes
<1>7. Slots'
  <2>1. \A v \in Workers : Busy(v)' <=> v # w /\ Busy(v)
    BY <1>2 DEF Busy, IInv, AcquireTypeOK
  <2>2. done'[phase] = done[phase] \cup {job[w]}
        /\ \A p \in {"groups", "endpoints"} : p # phase => done'[p] = done[p]
    BY <1>2, <1>3 DEF IInv, AcquireTypeOK
  <2>3. ASSUME firstError = "none", NEW i \in 1 .. index - 1
        PROVE  i \in done'[phase] \/ \E v \in Workers : Busy(v)' /\ job[v] = i
    <3>1. i \in done[phase] \/ \E v \in Workers : Busy(v) /\ job[v] = i
      BY <1>3, <2>3 DEF IInv, Slots
    <3>2. QED
      BY <2>1, <2>2, <3>1
  <2>4. done'[phase] \subseteq 1 .. index - 1
    BY <1>3, <2>2 DEF IInv, Slots
  <2>5. QED
    BY <1>1, <1>3, <2>1, <2>2, <2>3, <2>4 DEF IInv, Slots
<1>8. mode' = "drift" => Accounts'
  <2>1. In("ask")' = In("ask") /\ In("reserve")' = In("reserve")
    BY <1>2 DEF In, IInv, AcquireTypeOK
  <2>2. QED
    BY <1>1, <2>1 DEF IInv, Accounts, Handed
<1>9. Complete' /\ CauseReported' /\ BudgetSuffices'
  BY <1>1, <1>3 DEF IInv, Running, Complete, CauseReported, BudgetSuffices
<1>10. QED
  BY <1>4, <1>5, <1>6, <1>7, <1>8, <1>9 DEF IInv

LEMMA LeaveInv ==
  ASSUME IInv, NEW w \in Workers, Leave(w)
  PROVE  IInv'
<1>1. UNCHANGED <<mode, phase, items, outcome, sender, index, job, attempt, firstError,
                  cancelled, caller, done, listed, ceiling, used, wire>>
  BY DEF Leave, call, sending, task, failure, result, budget
<1>2. worker[w] = "ready" /\ worker' = [worker EXCEPT ![w] = "gone"]
  BY DEF Leave, At
<1>3. AcquireTypeOK' /\ Causes'
  BY <1>1, <1>2 DEF IInv, AcquireTypeOK, Causes
<1>4. Running'
  BY <1>1, <1>2 DEF IInv, Running, AcquireTypeOK, MoreItems, Done
<1>5. Slots'
  <2>1. \A v \in Workers : Busy(v)' <=> Busy(v)
    BY <1>2 DEF Busy, IInv, AcquireTypeOK
  <2>2. QED
    BY <1>1, <2>1 DEF IInv, Slots
<1>6. mode' = "drift" => Accounts'
  <2>1. In("ask")' = In("ask") /\ In("reserve")' = In("reserve")
    BY <1>2 DEF In, IInv, AcquireTypeOK
  <2>2. QED
    BY <1>1, <2>1 DEF IInv, Accounts, Handed
<1>7. Complete' /\ CauseReported' /\ BudgetSuffices'
  BY <1>1 DEF IInv, Complete, CauseReported, BudgetSuffices
<1>8. QED
  BY <1>3, <1>4, <1>5, <1>6, <1>7 DEF IInv

LEMMA HandInv ==
  ASSUME IInv, NEW w \in Workers, Hand(w)
  PROVE  IInv'
<1>1. UNCHANGED <<mode, phase, items, outcome, sender, firstError, cancelled, caller, done,
                  listed, ceiling, used, wire>>
  BY DEF Hand, call, failure, result, budget
<1>2. /\ worker[w] = "ready" /\ index <= items
      /\ worker' = [worker EXCEPT ![w] = IF mode = "drift" THEN "reserve" ELSE "ask"]
      /\ job' = [job EXCEPT ![w] = index]
      /\ attempt' = [attempt EXCEPT ![w] = 1]
      /\ index' = index + 1
  BY DEF Hand, At, MoreItems
<1>3. sender = "send" /\ phase \in {"groups", "endpoints"}
  BY DEF Hand, IInv, Running, AcquireTypeOK
<1>4. index \in 1 .. items /\ items \in Nat
  BY <1>2 DEF IInv, AcquireTypeOK
<1>5. AcquireTypeOK'
  <2>1. index' \in 1 .. items + 1
    BY <1>2, <1>4
  <2>2. /\ job' \in [Workers -> Nat]
        /\ attempt' \in [Workers -> 1 .. Attempts]
        /\ worker' \in [Workers -> {"ready", "reserve", "ask", "answer", "delay", "gone"}]
    BY <1>2, <1>4, AcquireAssumption DEF IInv, AcquireTypeOK
  <2>3. QED
    BY <1>1, <2>1, <2>2 DEF IInv, AcquireTypeOK
<1>6. Running'
  BY <1>1, <1>2, <1>3 DEF IInv, Running, AcquireTypeOK
<1>7. Causes'
  BY <1>1 DEF IInv, Causes
<1>8. Slots'
  <2>1. /\ Busy(w)' /\ ~ Busy(w) /\ job'[w] = index
        /\ \A v \in Workers : v # w => (Busy(v)' <=> Busy(v)) /\ job'[v] = job[v]
    BY <1>2 DEF Busy, IInv, AcquireTypeOK
  <2>2. \A i : i \in 1 .. index' - 1 <=> i \in 1 .. index - 1 \/ i = index
    BY <1>2, <1>4
  <2>3. \A v \in Workers : Busy(v)' => job'[v] \in 1 .. index' - 1
    BY <2>1, <2>2 DEF IInv, Slots
  <2>4. ASSUME firstError = "none", NEW i \in 1 .. index' - 1
        PROVE  i \in done[phase] \/ \E v \in Workers : Busy(v)' /\ job'[v] = i
    <3>1. CASE i = index
      BY <2>1, <3>1
    <3>2. CASE i \in 1 .. index - 1
      <4>1. i \in done[phase] \/ \E v \in Workers : Busy(v) /\ job[v] = i
        BY <1>3, <2>4, <3>2 DEF IInv, Slots
      <4>2. QED
        BY <2>1, <4>1
    <3>3. QED
      BY <2>2, <3>1, <3>2
  <2>5. done[phase] \subseteq 1 .. index' - 1
    BY <1>3, <2>2 DEF IInv, Slots
  <2>6. QED
    BY <1>1, <1>3, <2>3, <2>4, <2>5 DEF IInv, Slots
<1>9. mode' = "drift" => Accounts'
  <2>1. ASSUME mode = "drift"
        PROVE  Accounts'
    <3>1. Accounts
      BY <2>1 DEF IInv
    <3>2. /\ Cardinality(In("reserve")') = Cardinality(In("reserve")) + 1
          /\ In("ask")' = In("ask")
      <4>1. At(w, "reserve")
        BY <1>2, <2>1 DEF At
      <4>2. QED
        BY <1>2, <4>1, MoveCounts DEF IInv
    <3>3. Handed' = Handed + 1
      BY <1>1, <1>2, <1>4, AcquireAssumption DEF Handed
    <3>4. used + Cardinality(In("reserve")) <= Handed
      BY <1>3, <3>1 DEF Accounts
    <3>5. used \in Nat /\ Handed \in Nat /\ Cardinality(In("reserve")) \in Nat
      BY <1>3, <2>1, HandedBound DEF IInv, AcquireTypeOK
    <3>6. used + Cardinality(In("reserve")') <= Handed'
      BY <3>2, <3>3, <3>4, <3>5
    <3>7. QED
      BY <1>1, <3>1, <3>2, <3>6 DEF Accounts
  <2>2. QED
    BY <1>1, <2>1
<1>10. Complete' /\ CauseReported' /\ BudgetSuffices'
  BY <1>1 DEF IInv, Complete, CauseReported, BudgetSuffices
<1>11. QED
  BY <1>5, <1>6, <1>7, <1>8, <1>9, <1>10 DEF IInv

(* The steps that only close the channel or cancel the caller, and none.   *)
LEMMA CloseInv ==
  ASSUME IInv, Close \/ CancelCaller \/ UNCHANGED vars
  PROVE  IInv'
<1>1. UNCHANGED <<mode, phase, items, outcome, index, worker, job, attempt, firstError,
                  cancelled, done, listed, ceiling, used, wire>>
  BY DEF Close, CancelCaller, vars, call, sending, task, failure, result, budget
<1>2. \/ sender' = "wait" /\ (~ MoreItems \/ Done) /\ UNCHANGED caller
      \/ caller' = TRUE /\ UNCHANGED sender
      \/ UNCHANGED <<sender, caller>>
  BY DEF Close, CancelCaller, vars, sending
<1>3. AcquireTypeOK'
  BY <1>1, <1>2 DEF IInv, AcquireTypeOK
<1>4. Running'
  BY <1>1, <1>2 DEF IInv, Running, MoreItems, Done
<1>5. Causes' /\ CauseReported'
  BY <1>1, <1>2 DEF IInv, Causes, CauseReported
<1>6. Slots'
  BY <1>1 DEF IInv, Slots, Busy
<1>7. Accounts => Accounts'
  BY <1>1 DEF Accounts, In, Handed
<1>8. Complete' /\ BudgetSuffices'
  BY <1>1 DEF IInv, Complete, BudgetSuffices
<1>9. QED
  BY <1>1, <1>3, <1>4, <1>5, <1>6, <1>7, <1>8 DEF IInv

(* When the workers are gone and nothing stopped them, every slot is full. *)
LEMMA AllDone ==
  ASSUME IInv, phase # "returned", sender = "wait", \A w \in Workers : worker[w] = "gone",
         firstError = "none", ~ Interrupted
  PROVE  done[phase] = 1 .. items
<1>1. index \in 1 .. items + 1 /\ items \in Nat /\ ~ (index <= items)
  BY DEF IInv, AcquireTypeOK, Running, Interrupted, MoreItems
<1>2. index - 1 = items
  BY <1>1
<1>3. \A w \in Workers : ~ Busy(w)
  BY DEF Busy
<1>4. done[phase] \subseteq 1 .. index - 1 /\ \A i \in 1 .. index - 1 : i \in done[phase]
  BY <1>3 DEF IInv, Slots
<1>5. QED
  BY <1>2, <1>4

LEMMA ReturnInv ==
  ASSUME IInv, phase # "returned", sender = "wait", \A w \in Workers : worker[w] = "gone",
         NEW what \in {"ok", "refused", "failed", "cancelled", "overLimit"},
         what = "ok" => done["groups"] = 1 .. G /\ done["endpoints"] = 1 .. items,
         what = "cancelled" => caller,
         Return(what), UNCHANGED <<task, caller, result, wire>>
  PROVE  IInv'
<1>1. UNCHANGED <<mode, items, sender, index, worker, job, attempt, firstError, cancelled,
                  caller, done, listed, ceiling, used, wire>>
      /\ phase' = "returned" /\ outcome' = what
  BY DEF Return, sending, task, failure, result, budget
<1>2. AcquireTypeOK'
  BY <1>1 DEF IInv, AcquireTypeOK, Errors
<1>3. Running' /\ Causes'
  BY <1>1 DEF IInv, Running, Causes
<1>4. Slots'
  BY <1>1 DEF IInv, Slots, Busy
<1>5. Accounts => Accounts'
  BY <1>1 DEF Accounts, In
<1>6. Complete' /\ CauseReported' /\ BudgetSuffices'
  BY <1>1 DEF IInv, Complete, CauseReported, BudgetSuffices
<1>7. QED
  BY <1>1, <1>2, <1>3, <1>4, <1>5, <1>6 DEF IInv

LEMMA DetailsInv ==
  ASSUME IInv, phase = "groups", sender = "wait", \A w \in Workers : worker[w] = "gone",
         firstError = "none", done["groups"] = 1 .. G,
         NEW n \in Nat, Details(n), UNCHANGED <<task, caller, result, wire, used>>,
         ceiling' \in Nat,
         mode = "drift" => ceiling' = G + n /\ used <= ceiling' /\ ceiling' <= AbsoluteLimit
  PROVE  IInv'
<1>1. UNCHANGED <<mode, job, attempt, caller, done, listed, used, wire>>
      /\ items' = n /\ index' = 1
  BY DEF Details, task, result
<1>2. \/ /\ n = 0 /\ phase' = "returned" /\ outcome' = "ok"
         /\ UNCHANGED <<sender, worker, firstError, cancelled>>
      \/ /\ phase' = "endpoints" /\ sender' = "send" /\ worker' = Started(n)
         /\ firstError' = "none" /\ cancelled' = FALSE /\ outcome' = outcome
  BY DEF Details, failure
<1>3. \A w \in Workers : worker'[w] \in {"ready", "gone"}
  BY <1>2 DEF Started
<1>4. AcquireTypeOK'
  <2>1. 1 \in 1 .. n + 1
    OBVIOUS
  <2>2. worker' \in [Workers -> {"ready", "reserve", "ask", "answer", "delay", "gone"}]
    BY <1>2 DEF Started, IInv, AcquireTypeOK
  <2>3. QED
    BY <1>1, <1>2, <2>1, <2>2 DEF IInv, AcquireTypeOK
<1>5. Running'
  BY <1>1, <1>2, <1>3 DEF IInv, Running
<1>6. Causes'
  BY <1>1, <1>2 DEF IInv, Causes
<1>7. done["endpoints"] = {}
  BY DEF IInv, Slots
<1>8. Slots'
  BY <1>1, <1>2, <1>3, <1>7 DEF Slots, Busy
<1>9. mode' = "drift" => Accounts'
  <2>1. ASSUME mode = "drift"
        PROVE  Accounts'
    <3>1. In("ask")' = {} /\ In("reserve")' = {}
      BY <1>3 DEF In
    <3>2. Cardinality(In("ask")') = 0 /\ Cardinality(In("reserve")') = 0
      BY <3>1, FS_EmptySet
    <3>3. Cardinality(In("ask")) \in Nat /\ wire \in Nat /\ used \in Nat
      BY Counts DEF In, IInv, AcquireTypeOK
    <3>4. wire + 0 <= used
      BY <2>1, <3>3 DEF IInv, Accounts
    <3>5. used <= index - 1 /\ index \in 1 .. items + 1 /\ items = G
      BY <2>1, HandedBound DEF Handed, IInv, Slots, AcquireTypeOK
    <3>6. phase' = "endpoints" => used + 0 <= Handed'
      BY <1>1, <3>3, <3>5, AcquireAssumption DEF Handed
    <3>7. QED
      BY <1>1, <1>2, <2>1, <3>2, <3>4, <3>6 DEF Accounts
  <2>2. QED
    BY <1>1, <2>1
<1>10. Complete'
  <2>1. outcome = "none"
    BY DEF IInv, Running
  <2>2. outcome' = "ok" => n = 0
    BY <1>2, <2>1
  <2>3. QED
    BY <1>1, <1>7, <2>2 DEF Complete
<1>11. CauseReported' /\ BudgetSuffices'
  BY <1>1, <1>2 DEF IInv, CauseReported, BudgetSuffices
<1>12. QED
  BY <1>4, <1>5, <1>6, <1>8, <1>9, <1>10, <1>11 DEF IInv

LEMMA GatherInv ==
  ASSUME IInv, Gather
  PROVE  IInv'
<1>1. /\ phase # "returned" /\ sender = "wait" /\ \A w \in Workers : worker[w] = "gone"
      /\ UNCHANGED <<task, caller, result, wire>>
  BY DEF Gather
<1>2. CASE firstError # "none" /\ Return(firstError)
  <2>1. firstError \in {"refused", "failed", "cancelled", "overLimit"}
    BY <1>2 DEF IInv, AcquireTypeOK, Errors, BudgetSuffices
  <2>2. firstError = "cancelled" => caller
    BY DEF IInv, Causes
  <2>3. QED
    BY <1>1, <1>2, <2>1, <2>2, ReturnInv
<1>3. CASE firstError = "none" /\ Interrupted /\ Return("cancelled")
  <2>1. caller
    BY <1>3 DEF Interrupted, Done, IInv, Causes
  <2>2. QED
    BY <1>1, <1>3, <2>1, ReturnInv
<1>4. CASE firstError = "none" /\ ~ Interrupted /\ phase = "endpoints"
           /\ (Return("ok") \/ Return("refused"))
  <2>1. done["endpoints"] = 1 .. items /\ done["groups"] = 1 .. G
    BY <1>1, <1>4, AllDone DEF IInv, Slots
  <2>2. QED
    BY <1>1, <1>4, <2>1, ReturnInv
<1>5. CASE firstError = "none" /\ ~ Interrupted /\ phase = "groups" /\ Select
  <2>1. done["groups"] = 1 .. G
    BY <1>1, <1>5, AllDone DEF IInv, Slots
  <2>2. listed \in Nat /\ used \in Nat /\ ceiling \in Nat /\ Derived \in Nat
    BY AcquireAssumption DEF IInv, AcquireTypeOK, Derived
  <2>3. ASSUME mode = "drift"
        PROVE  used <= Derived
    <3>1. used <= index - 1 /\ index \in 1 .. items + 1 /\ items = G
      BY <1>1, <1>5, <2>3, HandedBound DEF Handed, IInv, Slots, AcquireTypeOK
    <3>2. QED
      BY <2>2, <3>1, AcquireAssumption DEF Derived
  <2>4. CASE Return("refused") \/ Return("overLimit")
    BY <1>1, <2>4, ReturnInv
  <2>5. CASE mode = "sync" /\ UNCHANGED budget /\ \E n \in 1 .. listed : Details(n)
    <3>1. PICK n \in 1 .. listed : Details(n)
      BY <2>5
    <3>2. n \in Nat
      BY <2>2
    <3>3. used' = used /\ ceiling' \in Nat
      BY <2>2, <2>5 DEF budget
    <3>4. QED
      BY <1>1, <1>5, <2>1, <2>5, <3>1, <3>2, <3>3, DetailsInv
  <2>6. CASE mode = "drift" /\ ~ OverLimit /\ ceiling' = Derived /\ Details(listed)
             /\ UNCHANGED used
    <3>1. ceiling' = G + listed /\ used <= ceiling' /\ ceiling' <= AbsoluteLimit
      BY <2>2, <2>3, <2>6, AcquireAssumption DEF OverLimit, Derived
    <3>2. QED
      BY <1>1, <1>5, <2>1, <2>2, <2>6, <3>1, DetailsInv
  <2>7. ~ (mode = "drift" /\ Derived < used)
    BY <2>2, <2>3
  <2>8. QED
    BY <1>5, <2>4, <2>5, <2>6, <2>7 DEF Select
<1>6. QED
  BY <1>2, <1>3, <1>4, <1>5 DEF Gather

LEMMA InitInv ==
  ASSUME Init
  PROVE  IInv
<1>1. \A w \in Workers : worker[w] \in {"ready", "gone"}
  BY DEF Init, Started
<1>2. AcquireTypeOK
  <2>1. 1 \in 1 .. G + 1 /\ G \in Nat /\ 1 \in 1 .. Attempts /\ AbsoluteLimit \in Nat
    BY AcquireAssumption
  <2>2. worker \in [Workers -> {"ready", "reserve", "ask", "answer", "delay", "gone"}]
    BY DEF Init, Started
  <2>3. job \in [Workers -> Nat] /\ attempt \in [Workers -> 1 .. Attempts]
    BY <2>1 DEF Init
  <2>4. done \in [{"groups", "endpoints"} -> SUBSET Nat]
    BY DEF Init
  <2>5. {listed, ceiling, used, wire} \subseteq Nat
    BY <2>1 DEF Init
  <2>6. items \in Nat /\ index \in 1 .. items + 1
    BY <2>1 DEF Init
  <2>7. cancelled \in BOOLEAN /\ caller \in BOOLEAN
    BY Zenon DEF Init
  <2>8. QED
    BY <2>2, <2>3, <2>4, <2>5, <2>6, <2>7 DEF Init, AcquireTypeOK
<1>3. Running /\ Causes /\ Slots
  BY <1>1 DEF Init, Running, Causes, Slots, Busy
<1>4. Accounts
  <2>1. Cardinality(In("ask")) = 0 /\ Cardinality(In("reserve")) = 0
    BY <1>1, NobodyIn
  <2>2. QED
    BY <2>1, AcquireAssumption DEF Init, Accounts, Handed
<1>5. QED
  BY <1>2, <1>3, <1>4 DEF Init, IInv, Complete, CauseReported, BudgetSuffices

LEMMA InductiveInvariant == Spec => []IInv
<1>1. Init => IInv
  BY InitInv
<1>2. IInv /\ [Next]_vars => IInv'
  BY HandInv, CloseInv, GatherInv, LeaveInv, ReserveInv, AskInv, AcceptInv, RejectInv, DelayInv
  DEF Next, Main, Work
<1>3. QED
  BY <1>1, <1>2, PTL DEF Spec

-----------------------------------------------------------------------------
(* Types; in particular mapConcurrent indexes no item that is not there.   *)
THEOREM AcquireTypeCorrect == Spec => []AcquireTypeOK
<1>1. IInv => AcquireTypeOK
  BY DEF IInv
<1>2. QED
  BY <1>1, InductiveInvariant, PTL

(* What mapConcurrent returns without an error has every slot filled, for  *)
(* any number of workers and of items, whenever the caller cancels.        *)
THEOREM AcquisitionComplete == Spec => []Complete
<1>1. IInv => Complete
  BY DEF IInv
<1>2. QED
  BY <1>1, InductiveInvariant, PTL

(* The cancellation by which mapConcurrent stops its workers is never the  *)
(* error that the acquisition reports.                                     *)
THEOREM FirstErrorReported == Spec => []CauseReported
<1>1. IInv => CauseReported
  BY DEF IInv
<1>2. QED
  BY <1>1, InductiveInvariant, PTL

(* requestBudget accounts for every request of a drift check, however many *)
(* workers reserve from it.                                                *)
THEOREM BudgetAlwaysHolds == Spec => []BudgetHolds
<1>1. ASSUME IInv
      PROVE  BudgetHolds
  <2>1. Cardinality(In("ask")) \in Nat /\ wire \in Nat /\ used \in Nat
    BY <1>1, Counts DEF In, IInv, AcquireTypeOK
  <2>2. QED
    BY <1>1, <2>1 DEF IInv, Accounts, BudgetHolds
<1>2. QED
  BY <1>1, InductiveInvariant, PTL

(* The ceiling derived from the inventory is never too low: neither a      *)
(* reservation nor setCeiling refuses.                                     *)
THEOREM BudgetAlwaysSuffices == Spec => []BudgetSuffices
<1>1. IInv => BudgetSuffices
  BY DEF IInv
<1>2. QED
  BY <1>1, InductiveInvariant, PTL

-----------------------------------------------------------------------------
(* No goroutine waits for ever: the part of AcquisitionReturns that does   *)
(* not speak of fairness.                                                  *)

(* While items are sent, somebody is there to take them. *)
Attended == phase # "returned" /\ sender = "send" => \E w \in Workers : worker[w] # "gone"

LEMMA AttendedInit == Init => Attended
<1> SUFFICES ASSUME Init PROVE Attended
  OBVIOUS
<1>1. 1 \in Workers /\ 1 <= G
  BY AcquireAssumption DEF Workers
<1> QED
  BY <1>1 DEF Init, Attended, Started

LEMMA AttendedNext == AcquireTypeOK /\ Attended /\ [Next]_vars => Attended'
<1> SUFFICES ASSUME AcquireTypeOK, Attended, [Next]_vars PROVE Attended'
  OBVIOUS
<1>1. CASE \E w \in Workers : Hand(w)
  BY <1>1 DEF Hand, At, call, Attended, AcquireTypeOK
<1>2. CASE Close
  BY <1>2 DEF Close, Attended
<1>3. CASE Gather
  <2>1. 1 \in Workers
    BY AcquireAssumption DEF Workers
  <2>2. \/ phase' = "returned" \/ sender' = "wait"
        \/ \E n \in Nat : n > 0 /\ worker' = Started(n)
    BY <1>3, AcquireAssumption DEF Gather, Return, Select, Details, sending, AcquireTypeOK
  <2> QED
    BY <2>1, <2>2 DEF Started, Attended
<1>4. CASE \E w \in Workers : Work(w)
  <2> PICK w \in Workers : Work(w)
    BY <1>4
  <2>1. UNCHANGED <<phase, sender>>
    BY DEF Work, Leave, Reserve, Ask, Accept, Reject, Delay, call, sending
  <2>2. sender = "send" => \E p : p # "gone" /\ At(w, p)
    BY DEF Work, Leave, Closed, Reserve, Ask, Accept, Reject, Delay, Fail
  <2> QED
    BY <2>1, <2>2 DEF Attended, At, AcquireTypeOK
<1>5. CASE CancelCaller \/ UNCHANGED vars
  BY <1>5 DEF CancelCaller, vars, call, sending, Attended
<1> QED
  BY <1>1, <1>2, <1>3, <1>4, <1>5 DEF Next, Main

(* What the calling goroutine and a worker can do by themselves. *)
MainCanGo ==
  IF sender = "send"
  THEN ~ MoreItems \/ Done \/ \E w \in Workers : worker[w] = "ready"
  ELSE \A w \in Workers : worker[w] = "gone"
WorkerCanGo(w) == Busy(w) \/ (worker[w] = "ready" /\ Closed)

(* Until the acquisition has returned, the calling goroutine or a worker   *)
(* can go on: the sender never waits for workers that are gone, nor the    *)
(* workers for a channel that nobody closes, whatever failed or was        *)
(* cancelled (acquire.go mapConcurrent).                                   *)
THEOREM NobodyStuck ==
  Spec => [](phase # "returned" => MainCanGo \/ \E w \in Workers : WorkerCanGo(w))
<1> DEFINE Goes == phase # "returned" => MainCanGo \/ \E w \in Workers : WorkerCanGo(w)
<1>1. AcquireTypeOK /\ Attended => Goes
  BY DEF Attended, AcquireTypeOK, MainCanGo, WorkerCanGo, Busy, Closed
<1>2. Spec => []Attended
  BY AttendedInit, AttendedNext, AcquireTypeCorrect, PTL DEF Spec
<1> QED
  BY <1>1, <1>2, AcquireTypeCorrect, PTL

(* What is left: calls of mapConcurrent, items to send in this one, and    *)
(* the steps of a worker with the item it has.                             *)
PhasesLeft == CASE phase = "groups" -> 2 [] phase = "endpoints" -> 1 [] OTHER -> 0
ItemsLeft  == IF sender = "send" THEN items + 2 - index ELSE 0
StepsLeft(w) ==
  LET tries == 4 * (Attempts - attempt[w])
  IN CASE worker[w] = "reserve" -> tries + 6
       [] worker[w] = "ask" -> tries + 5
       [] worker[w] = "answer" -> tries + 4
       [] worker[w] = "delay" -> tries + 3
       [] worker[w] = "ready" -> 1
       [] OTHER -> 0
CallerLeft == IF caller THEN 0 ELSE 1

LEMMA NumbersLeft ==
  ASSUME AcquireTypeOK
  PROVE  /\ PhasesLeft \in Nat /\ ItemsLeft \in Nat /\ CallerLeft \in Nat
         /\ \A w \in Workers : StepsLeft(w) \in Nat
<1>1. \A w \in Workers : Attempts - attempt[w] \in Nat
  BY AcquireAssumption DEF AcquireTypeOK
<1> QED
  BY <1>1 DEF AcquireTypeOK, PhasesLeft, ItemsLeft, CallerLeft, StepsLeft

OthersRest(w) == \A v \in Workers \ {w} : StepsLeft(v)' = StepsLeft(v)

LEMMA WorkersAdvance ==
  ASSUME AcquireTypeOK, Running, NEW w \in Workers, Work(w)
  PROVE  UNCHANGED <<phase, items, sender, index, caller>> /\ StepsLeft(w)' < StepsLeft(w) /\ OthersRest(w)
<1>1. UNCHANGED <<phase, items, sender, index, caller>>
  BY DEF Work, Leave, Reserve, Ask, Accept, Reject, Delay, call, sending
<1>2. \E p : At(w, p)
  BY DEF Work, Leave, Reserve, Ask, Accept, Reject, Delay, Fail
<1>3. \A v \in Workers \ {w} : worker'[v] = worker[v] /\ attempt'[v] = attempt[v]
  BY <1>2 DEF At, AcquireTypeOK, Work, Leave, Reserve, Ask, Accept, Reject, Delay, task
<1>4. OthersRest(w)
  BY <1>3 DEF OthersRest, StepsLeft
<1>5. Attempts \in Nat /\ attempt[w] \in 1 .. Attempts
  BY AcquireAssumption DEF AcquireTypeOK
<1>6. \/ /\ worker'[w] = "gone" /\ worker[w] = "ready"
      \/ /\ worker'[w] = "ready" /\ Busy(w)
      \/ /\ attempt'[w] = attempt[w]
         /\ <<worker[w], worker'[w]>> \in
              {<<"reserve", "ask">>, <<"ask", "answer">>, <<"answer", "delay">>}
      \/ /\ worker[w] = "delay" /\ worker'[w] = "ask"
         /\ attempt'[w] = attempt[w] + 1
  BY DEF Work, Leave, Reserve, Ask, Accept, Reject, Delay, Fail, At, AcquireTypeOK, task, Busy
<1>7. StepsLeft(w)' < StepsLeft(w)
  BY <1>5, <1>6 DEF StepsLeft, Busy
<1> QED
  BY <1>1, <1>4, <1>7

(* An acquisition cannot go round for ever: each step uses up a call of    *)
(* mapConcurrent, or else an item to send, or else a step of one worker    *)
(* and none of another's, or else the caller's one cancellation (acquire.go *)
(* Fetch: the attempts are counted; drift_acquire.go newDriftHTTPFetcher). *)
THEOREM StepsRunOut ==
  Spec =>
    /\ [](/\ PhasesLeft \in Nat /\ ItemsLeft \in Nat /\ CallerLeft \in Nat
          /\ \A w \in Workers : StepsLeft(w) \in Nat)
    /\ [][ \/ PhasesLeft' < PhasesLeft
           \/ /\ PhasesLeft' = PhasesLeft
              /\ \/ ItemsLeft' < ItemsLeft
                 \/ /\ ItemsLeft' = ItemsLeft
                    /\ \/ \E w \in Workers : StepsLeft(w)' < StepsLeft(w) /\ OthersRest(w)
                       \/ CallerLeft' < CallerLeft
                          /\ \A w \in Workers : StepsLeft(w)' = StepsLeft(w) ]_vars
<1> DEFINE Less ==
      \/ PhasesLeft' < PhasesLeft
      \/ /\ PhasesLeft' = PhasesLeft
         /\ \/ ItemsLeft' < ItemsLeft
            \/ /\ ItemsLeft' = ItemsLeft
               /\ \/ \E w \in Workers : StepsLeft(w)' < StepsLeft(w) /\ OthersRest(w)
                  \/ CallerLeft' < CallerLeft
                     /\ \A w \in Workers : StepsLeft(w)' = StepsLeft(w)
           Numbers == /\ PhasesLeft \in Nat /\ ItemsLeft \in Nat /\ CallerLeft \in Nat
                      /\ \A w \in Workers : StepsLeft(w) \in Nat
<1>1. IInv => Numbers
  BY NumbersLeft DEF IInv
<1>2. IInv /\ [Next]_vars => [Less]_vars
  <2> SUFFICES ASSUME IInv, Next PROVE Less
    OBVIOUS
  <2>1. AcquireTypeOK /\ Running
    BY DEF IInv
  <2>2. CASE \E w \in Workers : Hand(w)
    BY <2>1, <2>2 DEF Hand, MoreItems, call, AcquireTypeOK, PhasesLeft, ItemsLeft
  <2>3. CASE Close
    BY <2>1, <2>3 DEF Close, call, AcquireTypeOK, PhasesLeft, ItemsLeft
  <2>4. CASE Gather
    <3>1. phase' = "returned" \/ (phase = "groups" /\ phase' = "endpoints")
      BY <2>4 DEF Gather, Return, Select, Details
    <3>2. phase \in {"groups", "endpoints"}
      BY <2>1, <2>4 DEF Gather, AcquireTypeOK
    <3> QED
      BY <3>1, <3>2 DEF PhasesLeft
  <2>5. CASE \E w \in Workers : Work(w)
    <3> PICK w \in Workers : Work(w)
      BY <2>5
    <3>1. /\ UNCHANGED <<phase, items, sender, index, caller>>
          /\ StepsLeft(w)' < StepsLeft(w) /\ OthersRest(w)
      BY <2>1, WorkersAdvance
    <3>2. PhasesLeft' = PhasesLeft /\ ItemsLeft' = ItemsLeft
      BY <3>1 DEF PhasesLeft, ItemsLeft
    <3> QED
      BY <3>1, <3>2
  <2>6. CASE CancelCaller
    <3>1. PhasesLeft' = PhasesLeft /\ ItemsLeft' = ItemsLeft /\ CallerLeft' < CallerLeft
      BY <2>6 DEF CancelCaller, call, sending, PhasesLeft, ItemsLeft, CallerLeft
    <3>2. \A w \in Workers : StepsLeft(w)' = StepsLeft(w)
      BY <2>6 DEF CancelCaller, task, StepsLeft
    <3> QED
      BY <3>1, <3>2
  <2> QED
    BY <2>2, <2>3, <2>4, <2>5, <2>6 DEF Next, Main
<1> QED
  BY <1>1, <1>2, InductiveInvariant, PTL DEF Spec
=============================================================================
