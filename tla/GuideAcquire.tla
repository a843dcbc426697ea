----------------------------- MODULE GuideAcquire -----------------------------
(***************************************************************************)
(* The reading of the official guide (internal/guide/acquire.go and        *)
(* drift_acquire.go): first the inventory page of every group, then the    *)
(* detail page of every endpoint found there, each time with mapConcurrent *)
(* and its workers.                                                        *)
(*                                                                         *)
(* A refresh ("sync") accepts only the expected inventory and retries a    *)
(* request; a drift check ("drift") takes the inventory as it is, asks for *)
(* each page once and keeps a request budget.  The site may answer a       *)
(* request with a good page, with one that breaks the contract, with a     *)
(* failure that may pass, or not at all; the caller may cancel.            *)
(*                                                                         *)
(* An operator Mutant<X> is X with a plausible slip in the code.  No       *)
(* specification uses it: it replaces X when a property is shown to fail   *)
(* without what the code does.                                             *)
(***************************************************************************)
EXTENDS Integers

CONSTANTS
  W,              (* acquireWorkers                                         *)
  G,              (* the number of groups                                   *)
  Rows,           (* the numbers of endpoints that a group page may list    *)
  Expected,       (* Group.ExpectedCount                                    *)
  Attempts,       (* the attempts of a refresh at one page                  *)
  AbsoluteLimit   (* AbsoluteDriftRequestLimit                              *)

ASSUME AcquireAssumption ==
  /\ {W, G, Attempts} \subseteq Nat \ {0}
  /\ Rows \subseteq Nat
  /\ Expected \in Rows \ {0}
  /\ AbsoluteLimit \in Nat /\ AbsoluteLimit >= G

Workers == 1 .. W

VARIABLES
  mode,        (* the policy: "sync" or "drift"                             *)
  phase,       (* which mapConcurrent runs                                  *)
  items,       (* the number of its items                                   *)
  outcome,     (* what the acquisition returns                              *)
  sender,      (* the calling goroutine: "send", or "wait" for the workers  *)
  index,       (* the next item to send                                     *)
  worker,      (* where each worker is                                      *)
  job,         (* the item it has                                           *)
  attempt,     (* the attempt it is at                                      *)
  firstError,  (* mapConcurrent's firstError                                *)
  cancelled,   (* the context that mapConcurrent made                       *)
  caller,      (* the caller has cancelled its own                          *)
  done,        (* the slots of results that were filled, by phase           *)
  listed,      (* the endpoints listed in the group pages read              *)
  ceiling,     (* requestBudget                                             *)
  used,
  wire         (* observation: requests that went out                       *)

call    == <<mode, phase, items, outcome>>
sending == <<sender, index>>
task    == <<job, attempt>>
failure == <<firstError, cancelled>>
result  == <<done, listed>>
budget  == <<ceiling, used>>
vars    == <<call, sending, worker, task, failure, caller, result, budget, wire>>

Errors == {"refused", "failed", "cancelled", "exhausted", "overLimit", "belowUsage"}
Done   == cancelled \/ caller
At(w, place) == worker' = [worker EXCEPT ![w] = place]

AcquireTypeOK ==
  /\ mode \in {"sync", "drift"}
  /\ phase \in {"groups", "endpoints", "returned"}
  /\ items \in Nat
  /\ outcome \in Errors \cup {"none", "ok"}
  /\ sender \in {"send", "wait"}
  /\ index \in 1 .. items + 1
  /\ worker \in [Workers -> {"ready", "reserve", "ask", "answer", "delay", "gone"}]
  /\ job \in [Workers -> Nat]
  /\ attempt \in [Workers -> 1 .. Attempts]
  /\ firstError \in Errors \cup {"none"}
  /\ cancelled \in BOOLEAN /\ caller \in BOOLEAN
  /\ done \in [{"groups", "endpoints"} -> SUBSET Nat]
  /\ {listed, ceiling, used, wire} \subseteq Nat

(* min(limit, len(items)) workers start. *)
Started(n) == [w \in Workers |-> IF w <= n THEN "ready" ELSE "gone"]

Init ==
  /\ mode \in {"sync", "drift"}
  /\ phase = "groups" /\ items = G /\ outcome = "none"
  /\ sender = "send" /\ index = 1
  /\ worker = Started(G)
  /\ job = [w \in Workers |-> 0]
  /\ attempt = [w \in Workers |-> 1]
  /\ firstError = "none" /\ cancelled = FALSE /\ caller = FALSE
  /\ done = [p \in {"groups", "endpoints"} |-> {}]
  /\ listed = 0
  /\ ceiling = AbsoluteLimit /\ used = 0
  /\ wire = 0

-----------------------------------------------------------------------------
(* mapConcurrent, the calling goroutine. *)

MutantMoreItems == index <= items + 1
MoreItems == index <= items

(* The channel has no buffer: sending and receiving are one step.  It may  *)
(* still be taken when the context is done: select chooses.                *)
Hand(w) ==
  /\ sender = "send"
  /\ MoreItems
  /\ worker[w] = "ready"
  /\ At(w, IF mode = "drift" THEN "reserve" ELSE "ask")
  /\ job' = [job EXCEPT ![w] = index]
  /\ attempt' = [attempt EXCEPT ![w] = 1]
  /\ index' = index + 1
  /\ UNCHANGED <<call, sender, failure, caller, result, budget, wire>>

Close ==
  /\ sender = "send"
  /\ ~ MoreItems \/ Done
  /\ sender' = "wait"
  /\ UNCHANGED <<call, index, worker, task, failure, caller, result, budget, wire>>

MutantClosed == sender = "wait" /\ ~ MoreItems
(* jobs is closed however the sending ended. *)
Closed == sender = "wait"

-----------------------------------------------------------------------------
(* mapConcurrent, the workers, with the task and HTTPFetcher.Fetch. *)

Leave(w) ==
  /\ worker[w] = "ready"
  /\ Closed
  /\ At(w, "gone")
  /\ UNCHANGED <<call, sending, task, failure, caller, result, budget, wire>>

MutantFirst(error) == error
(* sync.Once: the first error stays. *)
First(error) == IF firstError = "none" THEN error ELSE firstError

(* A worker goes on with the next item after an error. *)
Fail(w, error) ==
  /\ At(w, "ready")
  /\ firstError' = First(error)
  /\ cancelled' = TRUE

(* budgetedFetcher.Fetch *)
Reserve(w) ==
  /\ worker[w] = "reserve"
  /\ \/ used < ceiling /\ used' = used + 1 /\ At(w, "ask") /\ UNCHANGED failure
     \/ used >= ceiling /\ Fail(w, "exhausted") /\ UNCHANGED used
  /\ UNCHANGED <<call, sending, task, caller, result, ceiling, wire>>

(* The client sends nothing under a context that is done. *)
Ask(w) ==
  /\ worker[w] = "ask"
  /\ \/ ~ Done /\ wire' = wire + 1 /\ At(w, "answer") /\ UNCHANGED failure
     \/ Done /\ Fail(w, "cancelled") /\ UNCHANGED wire
  /\ UNCHANGED <<call, sending, task, caller, result, budget>>

(* The answer is a page that the task accepts; the group pages are counted *)
(* by a refresh.                                                           *)
Accept(w) ==
  /\ worker[w] = "answer"
  /\ done' = [done EXCEPT ![phase] = @ \cup {job[w]}]
  /\ IF phase = "groups"
     THEN \E n \in Rows : (mode = "sync" => n = Expected) /\ listed' = listed + n
     ELSE UNCHANGED listed
  /\ At(w, "ready")
  /\ UNCHANGED <<call, sending, task, failure, caller, budget, wire>>

MutantAllowed == Attempts
(* newDriftHTTPFetcher *)
Allowed == IF mode = "drift" THEN 1 ELSE Attempts

(* The page breaks the contract, or the request failed: for good, in a way *)
(* that may pass, or because the context is done.                          *)
Reject(w) ==
  /\ worker[w] = "answer"
  /\ \/ Fail(w, "refused")
     \/ attempt[w] < Allowed /\ At(w, "delay") /\ UNCHANGED failure
     \/ attempt[w] >= Allowed /\ Fail(w, "failed")
     \/ Done /\ Fail(w, "cancelled")
  /\ UNCHANGED <<call, sending, task, caller, result, budget, wire>>

(* retryDelay; select chooses when both are due. *)
Delay(w) ==
  /\ worker[w] = "delay"
  /\ \/ /\ attempt' = [attempt EXCEPT ![w] = @ + 1]
        /\ At(w, "ask")
        /\ UNCHANGED failure
     \/ Done /\ Fail(w, "cancelled") /\ UNCHANGED attempt
  /\ UNCHANGED <<call, sending, job, caller, result, budget, wire>>

Work(w) == Leave(w) \/ Reserve(w) \/ Ask(w) \/ Accept(w) \/ Reject(w) \/ Delay(w)

-----------------------------------------------------------------------------
(* mapConcurrent after wait.Wait, and the functions around it. *)

Return(what) ==
  /\ phase' = "returned"
  /\ outcome' = what
  /\ UNCHANGED <<mode, items, sending, worker, failure, budget>>

MutantDerived == listed
Derived == G + listed

OverLimit == Derived > AbsoluteLimit

(* The second mapConcurrent; without items it returns at once. *)
Details(n) ==
  /\ items' = n /\ index' = 1
  /\ \/ /\ n = 0
        /\ phase' = "returned" /\ outcome' = "ok"
        /\ UNCHANGED <<sender, worker, failure>>
     \/ /\ n > 0
        /\ phase' = "endpoints"
        /\ sender' = "send"
        /\ worker' = Started(n)
        /\ firstError' = "none" /\ cancelled' = FALSE
        /\ UNCHANGED outcome
  /\ UNCHANGED mode

(* acquireInventory's check and selectInventory; acquireDriftWithFetcher.  *)
Select ==
  \/ Return("refused")
  \/ /\ mode = "sync"
     /\ \E n \in 1 .. listed : Details(n)
     /\ UNCHANGED budget
  \/ mode = "drift" /\ OverLimit /\ Return("overLimit")
  \/ mode = "drift" /\ ~ OverLimit /\ Derived < used /\ Return("belowUsage")
  \/ /\ mode = "drift" /\ ~ OverLimit /\ Derived >= used
     /\ ceiling' = Derived
     /\ Details(listed)
     /\ UNCHANGED used

MutantInterrupted == FALSE
(* ctx.Err() after the workers are gone. *)
Interrupted == Done

Gather ==
  /\ phase # "returned"
  /\ sender = "wait" /\ \A w \in Workers : worker[w] = "gone"
  /\ \/ firstError # "none" /\ Return(firstError)
     \/ firstError = "none" /\ Interrupted /\ Return("cancelled")
     \/ /\ firstError = "none" /\ ~ Interrupted
        /\ \/ phase = "groups" /\ Select
           \/ phase = "endpoints" /\ (Return("ok") \/ Return("refused"))
  /\ UNCHANGED <<task, caller, result, wire>>

CancelCaller ==
  /\ phase # "returned"
  /\ ~ caller
  /\ caller' = TRUE
  /\ UNCHANGED <<call, sending, worker, task, failure, result, budget, wire>>

Main == (\E w \in Workers : Hand(w)) \/ Close \/ Gather
Next == Main \/ (\E w \in Workers : Work(w)) \/ CancelCaller

(* Every request ends: an attempt has a timeout, and so has the delay.     *)
Fairness == WF_vars(Main) /\ \A w \in Workers : WF_vars(Work(w))
Spec     == Init /\ [][Next]_vars
FairSpec == Spec /\ Fairness

-----------------------------------------------------------------------------
(* An acquisition that succeeds has filled every slot of both results: no  *)
(* empty endpoint is handed on, whoever failed or was cancelled when.      *)
Complete ==
  outcome = "ok" => done["groups"] = 1 .. G /\ done["endpoints"] = 1 .. items

(* The error that is returned is the one that stopped the work.  The       *)
(* cancellations that it causes in the other workers never hide it.        *)
CauseReported == outcome = "cancelled" => caller

(* A drift check sends no request that the budget does not account for,    *)
(* and the budget never exceeds the absolute limit.                        *)
BudgetHolds == mode = "drift" => wire <= used /\ used <= ceiling /\ ceiling <= AbsoluteLimit

(* The derived ceiling is exact: a drift check within the absolute limit   *)
(* never stops for its own budget, and the lowered ceiling covers what was *)
(* used.                                                                   *)
BudgetSuffices == {outcome, firstError} \cap {"exhausted", "belowUsage"} = {}

(* The acquisition returns: no goroutine waits for ever, whatever fails.   *)
AcquisitionReturns == <>(outcome # "none")
=============================================================================
