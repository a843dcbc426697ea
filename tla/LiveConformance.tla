---------------------------- MODULE LiveConformance ----------------------------
(***************************************************************************)
(* The live conformance run (internal/liveconformance): Preflight accepts  *)
(* a plan, execute reads the listings that supply coordinates to some of   *)
(* its cases, then runs every case once, one request at a time, and writes *)
(* one report.                                                             *)
(*                                                                         *)
(* A partition is a listing: the type of disclosure it is about and its    *)
(* window of dates.  The service may answer every request with whatever it *)
(* likes: pages of a listing that changes while it is read, an empty       *)
(* listing, an error, nothing.                                             *)
(*                                                                         *)
(* An operator Mutant<X> is X with a plausible slip in the code.  No       *)
(* specification uses it: it replaces X when a property is shown to fail   *)
(* without what the code does.                                             *)
(***************************************************************************)
EXTENDS Integers, Sequences, FiniteSetsExt, SequencesExt

CONSTANTS
  Operations,    (* the operations of the specification, in their order     *)
  ListOperation, (* GET /list.json                                          *)
  Partitions,    (* the listings: <<detail type, window>>                   *)
  MaxPages,      (* bounds the pages that an answer claims                  *)
  Limit,         (* AbsoluteRequestLimit                                    *)
  Inputs         (* what Preflight is given                                 *)

None == "none"

(* What Preflight is given: identifiers are strings, and None the empty    *)
(* one, which is not safe.  What else may be wrong with it, it finds out.  *)
CaseType      == [id : STRING \ {None}, operation : Nat, discovery : STRING]
RequestType   == [partition : Partitions, page : Int]
TargetType    == [case : STRING, types : SUBSET STRING]
DiscoveryType == [id : STRING \ {None}, max : Int, requests : Seq(RequestType),
                  targets : Seq(TargetType)]
InputType     == [cases : Seq(CaseType), discoveries : Seq(DiscoveryType)]

ASSUME ConformanceAssumption ==
  /\ Operations \subseteq Nat /\ MaxPages \in Nat /\ Limit \in Nat
  /\ Inputs \subseteq InputType

Codes == {"request", "body", "envelope", "assertion"}
Unread == -1

VARIABLES
  plan,        (* what Preflight returned                                   *)
  pc,          (* where execute is                                          *)
  d, r,        (* the discovery, and its request                            *)
  observed,    (* observedPages of the discovery                            *)
  coordinates, (* the listing where a case's coordinate was found           *)
  resolved,    (* the listing that the case's query is now about            *)
  c,           (* the case                                                  *)
  budget,      (* RequestBudget: used, and discoveryUsed                    *)
  results,     (* Report.Cases                                              *)
  report,      (* what execute returned                                     *)
  pages        (* the pages read of each discovery, for the properties      *)

counters == <<d, r, c>>
finding  == <<observed, coordinates, resolved, pages>>
vars     == <<plan, pc, counters, finding, budget, results, report>>

-----------------------------------------------------------------------------
(* Preflight and prepareDiscoveries. *)

Ids(cases)   == {cases[i].id : i \in DOMAIN cases}
AllTargets(p) == UNION {{<<i, j>> : j \in DOMAIN p.discoveries[i].targets}
                          : i \in DOMAIN p.discoveries}
Target(p, ij) == p.discoveries[ij[1]].targets[ij[2]]
PagesOf(requests, partition) ==
  {requests[i].page : i \in {j \in DOMAIN requests : requests[j].partition = partition}}

MutantCovered(p) == TRUE
(* Every operation has a case, and none has two. *)
Covered(p) ==
  /\ Operations = {p.cases[i].operation : i \in DOMAIN p.cases}
  /\ \A i, j \in DOMAIN p.cases : i # j => p.cases[i].operation # p.cases[j].operation

MutantWithinMax(discovery) == discovery.requests # <<>>
WithinMax(discovery) ==
  discovery.requests # <<>> /\ Len(discovery.requests) <= discovery.max

MutantContiguous(requests) == TRUE
(* The pages asked of a partition are 1, 2, ... each once, in any order. *)
Contiguous(requests) ==
  /\ \A i \in DOMAIN requests : requests[i].page >= 1
  /\ \A i, j \in DOMAIN requests : requests[i] = requests[j] => i = j
  /\ \A i \in DOMAIN requests :
       1 .. requests[i].page \subseteq PagesOf(requests, requests[i].partition)

PreparedDiscoveries(p) ==
  /\ p.discoveries # <<>> => ListOperation \in Operations
  /\ \A i, j \in DOMAIN p.discoveries : i # j => p.discoveries[i].id # p.discoveries[j].id
  /\ \A i \in DOMAIN p.discoveries :
       LET discovery == p.discoveries[i] IN
       /\ WithinMax(discovery) /\ Contiguous(discovery.requests)
       /\ discovery.targets # <<>>
       /\ \A j \in DOMAIN discovery.targets :
            LET target == discovery.targets[j] IN
            /\ \E k \in DOMAIN p.cases :
                 p.cases[k].id = target.case /\ p.cases[k].discovery = discovery.id
            /\ target.types # {}
            /\ target.types \subseteq {discovery.requests[k].partition[1]
                                         : k \in DOMAIN discovery.requests}
  /\ \A a, b \in AllTargets(p) : a # b => Target(p, a).case # Target(p, b).case
  /\ \A k \in DOMAIN p.cases :
       (p.cases[k].discovery # None)
         <=> \E a \in AllTargets(p) : Target(p, a).case = p.cases[k].id

(* What the first i discoveries may spend. *)
BudgetUpTo(p) ==
  LET upTo[i \in 0 .. Len(p.discoveries)] ==
        IF i = 0 THEN 0 ELSE upTo[i - 1] + p.discoveries[i].max
  IN upTo
DiscoveryBudget(p) == BudgetUpTo(p)[Len(p.discoveries)]
RequestBudget(p)   == Len(p.cases) + DiscoveryBudget(p)

Preflight(p) ==
  /\ \A i, j \in DOMAIN p.cases : i # j => p.cases[i].id # p.cases[j].id
  /\ Covered(p)
  /\ PreparedDiscoveries(p)
  /\ RequestBudget(p) <= Limit

(* The plan that is run has its cases in the order of their operations. *)
Orders(cases) ==
  {f \in Bijection(DOMAIN cases, DOMAIN cases) :
     \A i, j \in DOMAIN cases : i < j => cases[f[i]].operation < cases[f[j]].operation}
Plans ==
  UNION {{[p EXCEPT !.cases = [i \in DOMAIN @ |-> @[f[i]]]] : f \in Orders(p.cases)}
           : p \in {q \in Inputs : Preflight(q)}}

-----------------------------------------------------------------------------
(* The report. *)

Draft == [ceiling |-> RequestBudget(plan), discoveryCeiling |-> DiscoveryBudget(plan)]

Failure(code, case, discovery) == [code |-> code, case |-> case, discovery |-> discovery]
NoFailure == Failure(None, None, None)
NoReport  == [outcome |-> None]

(* validateReport and validateAllowlistedFields; the allowed codes and     *)
(* stages are those that the code uses.                                    *)
ValidReport(rep) ==
  LET primaryCeiling == rep.ceiling - rep.discoveryCeiling IN
  /\ rep.ceiling \in 0 .. Limit /\ rep.discoveryCeiling \in 0 .. rep.ceiling
  /\ rep.used \in 0 .. rep.ceiling /\ rep.discoveryUsed \in 0 .. rep.discoveryCeiling
  /\ Len(rep.cases) = rep.used - rep.discoveryUsed /\ Len(rep.cases) <= primaryCeiling
  /\ \A i \in DOMAIN rep.cases : rep.cases[i].evidence = "valid"
  /\ \A i, j \in DOMAIN rep.cases : i # j => rep.cases[i].id # rep.cases[j].id
  /\ IF rep.outcome = "passed"
     THEN /\ rep.failure = NoFailure /\ Len(rep.cases) = primaryCeiling
          /\ \A i \in DOMAIN rep.cases : rep.cases[i].outcome = "passed"
     ELSE /\ rep.cases # <<>> /\ rep.failure.case # None =>
               Last(rep.cases).id = rep.failure.case
          /\ rep.failure.case # None => rep.failure.case \in Ids(rep.cases)

Report(outcome, failure, spent, cases) ==
  [outcome |-> outcome, failure |-> failure,
   ceiling |-> Draft.ceiling, discoveryCeiling |-> Draft.discoveryCeiling,
   used |-> spent.used, discoveryUsed |-> spent.discoveryUsed, cases |-> cases]

Sanitized ==
  [outcome |-> "failed", failure |-> Failure("report-sanitization", None, None),
   ceiling |-> 0, discoveryCeiling |-> 0, used |-> 0, discoveryUsed |-> 0, cases |-> <<>>]

(* failReport *)
FailReport(failure, spent, cases) ==
  LET rep == Report("failed", failure, spent, cases)
  IN pc' = "done" /\ report' = IF ValidReport(rep) THEN rep ELSE Sanitized

-----------------------------------------------------------------------------
Cases       == plan.cases
Discovery   == plan.discoveries[d]
Request     == Discovery.requests[r]
NothingRead == [partition \in Partitions |-> Unread]
NotFound    == [id \in Ids(Cases) |-> None]

Init ==
  /\ plan \in Plans
  /\ pc = "start" /\ d = 1 /\ r = 1 /\ c = 1
  /\ observed = NothingRead
  /\ coordinates = NotFound /\ resolved = NotFound
  /\ budget = [used |-> 0, discoveryUsed |-> 0]
  /\ results = <<>> /\ report = NoReport
  /\ pages = [i \in DOMAIN plan.discoveries |-> {}]

(* The credential is read once, before the first request. *)
Start ==
  /\ pc = "start"
  /\ \/ /\ FailReport(Failure("credential", None, None), budget, results)
     \/ pc' = "discover" /\ UNCHANGED report
  /\ UNCHANGED <<plan, counters, finding, budget, results>>

Exhausted == budget.used >= Draft.ceiling

(* A page beyond the last one of its partition is not asked for. *)
Beyond ==
  observed[Request.partition] # Unread /\ Request.page > observed[Request.partition]

Asking == pc = "discover" /\ d <= Len(plan.discoveries) /\ r <= Len(Discovery.requests)

SkipPage ==
  /\ Asking /\ Beyond
  /\ r' = r + 1
  /\ UNCHANGED <<plan, pc, d, c, finding, budget, results, report>>

Spend == [used |-> budget.used + 1, discoveryUsed |-> budget.discoveryUsed + 1]

DiscoveryFails(code, spent) == FailReport(Failure(code, None, Discovery.id), spent, results)

(* The request fails in executeCase, sent or not: it is counted. *)
AskFails ==
  /\ Asking /\ ~ Beyond
  /\ IF Exhausted THEN DiscoveryFails("discovery-budget", budget) /\ UNCHANGED budget
     ELSE budget' = Spend /\ DiscoveryFails("discovery-request", Spend)
  /\ UNCHANGED <<plan, counters, finding, results>>

(* The page that an answer claims to be, of how many. *)
Answers == [empty : {FALSE}, page : 1 .. MaxPages, total : 0 .. MaxPages] \cup
           [empty : {TRUE}, page : {1}, total : {0}]

DeclaredCeiling == Max(PagesOf(Discovery.requests, Request.partition))

MutantSameTotal(answer) == TRUE
(* The listing has not grown or shrunk since its first page was read. *)
SameTotal(answer) == observed[Request.partition] \in {Unread, answer.total}

(* discoveryPagesClosed *)
PagesClosed(answer) ==
  IF answer.empty THEN Request.page = 1 /\ observed[Request.partition] = Unread
  ELSE /\ answer.page = Request.page
       /\ Request.page <= answer.total /\ answer.total <= DeclaredCeiling
       /\ SameTotal(answer)

(* collectDiscoveryCoordinates: the first row that matches a target wins,  *)
(* if the target is about this type of disclosure.  rows are the cases     *)
(* whose aliases a row of the page bears.                                  *)
Eligible ==
  {Discovery.targets[j].case : j \in {i \in DOMAIN Discovery.targets :
     Request.partition[1] \in Discovery.targets[i].types}}
Collected(rows) ==
  [id \in Ids(Cases) |-> IF coordinates[id] = None /\ id \in rows \cap Eligible
                         THEN Request.partition ELSE coordinates[id]]

Ask ==
  /\ Asking /\ ~ Beyond /\ ~ Exhausted
  /\ budget' = Spend
  /\ \E answer \in Answers, rows \in SUBSET Eligible :
       /\ answer.empty => rows = {}
       /\ IF ~ PagesClosed(answer)
          THEN DiscoveryFails("discovery-open", Spend) /\ UNCHANGED <<r, finding>>
          ELSE /\ observed' = [observed EXCEPT ![Request.partition] = answer.total]
               /\ coordinates' = Collected(rows)
               /\ pages' = [pages EXCEPT ![d] = @ \cup {[request |-> Request,
                                               total |-> answer.total, rows |-> rows]}]
               /\ UNCHANGED resolved
               /\ \/ r' = r + 1 /\ UNCHANGED <<pc, report>>
                  \/ DiscoveryFails("discovery-pacing", Spend) /\ UNCHANGED r
  /\ UNCHANGED <<plan, d, c, results>>

(* The pages are read: each target needs a coordinate, and a request that  *)
(* is valid with it.  The next discovery starts with maps of its own.      *)
Resolve ==
  /\ pc = "discover" /\ d <= Len(plan.discoveries) /\ r > Len(Discovery.requests)
  /\ LET wanted(j) == Discovery.targets[j].case IN
     \/ /\ \E j \in DOMAIN Discovery.targets :
             /\ \A k \in 1 .. j - 1 : coordinates[wanted(k)] # None
             /\ DiscoveryFails(IF coordinates[wanted(j)] = None THEN "discovery-incomplete"
                               ELSE "discovery-coordinate", budget)
        /\ UNCHANGED <<d, r, finding>>
     \/ /\ \A j \in DOMAIN Discovery.targets : coordinates[wanted(j)] # None
        /\ resolved' = [id \in Ids(Cases) |->
                          IF \E j \in DOMAIN Discovery.targets : id = wanted(j)
                          THEN coordinates[id] ELSE resolved[id]]
        /\ d' = d + 1 /\ r' = 1
        /\ observed' = NothingRead /\ coordinates' = NotFound
        /\ UNCHANGED <<pc, report, pages>>
  /\ UNCHANGED <<plan, c, budget, results>>

-----------------------------------------------------------------------------
(* The cases. *)

Result(outcome, evidence) ==
  [id |-> Cases[c].id, operation |-> Cases[c].operation, query |-> resolved[Cases[c].id],
   outcome |-> outcome, evidence |-> evidence]

MutantRecorded(result) == IF result.outcome = "failed" THEN results ELSE Append(results, result)
(* The result of a failed case is reported too. *)
Recorded(result) == Append(results, result)

(* executeCase, and the pause before the next one.  Evidence that the      *)
(* report may not hold is invalid: a passed assertion that compared        *)
(* nothing, an HTTP status out of range.                                   *)
Execute ==
  LET spent == [budget EXCEPT !.used = @ + 1] IN
  /\ budget' = spent
  /\ \E evidence \in {"valid", "invalid"} :
       \/ /\ results' = Recorded(Result("passed", evidence))
          /\ \/ c' = c + 1 /\ UNCHANGED <<pc, report>>
             \/ /\ c < Len(Cases) /\ UNCHANGED c
                /\ FailReport(Failure("pacing", Cases[c].id, None), spent, results')
       \/ /\ results' = Recorded(Result("failed", evidence))
          /\ \E code \in Codes : FailReport(Failure(code, Cases[c].id, None), spent, results')
          /\ UNCHANGED c

RunCase ==
  /\ pc = "discover" /\ d > Len(plan.discoveries) /\ c <= Len(Cases)
  /\ IF Exhausted
     THEN /\ FailReport(Failure("request-budget", Cases[c].id, None), budget, results)
          /\ UNCHANGED <<c, budget, results>>
     ELSE Execute
  /\ UNCHANGED <<plan, d, r, finding>>

Finish ==
  /\ pc = "discover" /\ d > Len(plan.discoveries) /\ c > Len(Cases)
  /\ LET rep == Report("passed", NoFailure, budget, results) IN
     IF ValidReport(rep) THEN pc' = "done" /\ report' = rep
     ELSE FailReport(Failure("report-sanitization", None, None), budget, results)
  /\ UNCHANGED <<plan, counters, finding, budget, results>>

Next ==
  \/ Start \/ SkipPage \/ AskFails \/ Ask \/ Resolve
  \/ RunCase \/ Finish

Spec == Init /\ [][Next]_vars

-----------------------------------------------------------------------------
(* The type of the state.  The budget is never overspent, neither by the   *)
(* listings nor by the cases.                                              *)
ConformanceTypeOK ==
  /\ pc \in {"start", "discover", "done"}
  /\ d \in 1 .. Len(plan.discoveries) + 1 /\ r \in 1 .. Limit + 1
  /\ c \in 1 .. Len(Cases) + 1
  /\ observed \in [Partitions -> -1 .. MaxPages]
  /\ coordinates \in [Ids(Cases) -> Partitions \cup {None}]
  /\ resolved \in [Ids(Cases) -> Partitions \cup {None}]
  /\ budget.used \in 0 .. Draft.ceiling /\ Draft.ceiling <= Limit
  /\ budget.discoveryUsed \in 0 .. Draft.discoveryCeiling
  /\ budget.used - budget.discoveryUsed \in 0 .. Draft.ceiling - Draft.discoveryCeiling
  /\ report = NoReport <=> pc # "done"

(* A discovery supplies coordinates only when each of its listings was     *)
(* read to the end, all its pages saying the same of its length, and a     *)
(* coordinate comes from a listing of a type that the target is about.     *)
(* Neither the order in which the plan asks for the pages nor what         *)
(* another discovery read makes a difference.                              *)
ListingClosed ==
  \A i \in 1 .. d - 1 :
    LET discovery == plan.discoveries[i] IN
    /\ \A request \in {discovery.requests[j] : j \in DOMAIN discovery.requests} :
         LET read == {page \in pages[i] : page.request.partition = request.partition}
         IN \E total \in 0 .. MaxPages :
              /\ \A page \in read : page.total = total
              /\ {page.request.page : page \in read} = 1 .. Max({1, total})
    /\ \A j \in DOMAIN discovery.targets :
         LET target == discovery.targets[j] IN
         /\ resolved[target.case] # None
         /\ resolved[target.case][1] \in target.types
         /\ \E page \in pages[i] : target.case \in page.rows
                                /\ page.request.partition = resolved[target.case]

(* A report that passed stands for the whole specification: every          *)
(* operation has one case and it passed, in the order of the plan, every   *)
(* case that needs a coordinate ran with one, and each request is counted. *)
PassedMeansAll ==
  pc = "done" /\ report.outcome = "passed" =>
    /\ report.failure = NoFailure
    /\ {report.cases[i].operation : i \in DOMAIN report.cases} = Operations
    /\ Len(report.cases) = Len(Cases)
    /\ \A i \in DOMAIN report.cases :
         /\ report.cases[i].id = Cases[i].id
         /\ report.cases[i].outcome = "passed" /\ report.cases[i].evidence = "valid"
         /\ (report.cases[i].query = None) <=> (Cases[i].discovery = None)
    /\ report.used = Len(Cases) + report.discoveryUsed

(* A run that fails says why: the failure that befell it stands in its     *)
(* report beside the results so far, the failed one last.  The report is   *)
(* emptied only for evidence that it may not hold, and no plan that        *)
(* Preflight accepts runs out of requests.                                 *)
FailureTold ==
  pc = "done" /\ report.outcome = "failed" =>
    IF \E i \in DOMAIN results : results[i].evidence = "invalid" THEN report = Sanitized
    ELSE /\ report.failure.code \notin {"report-sanitization", "request-budget", "discovery-budget"}
         /\ report.cases = results
         /\ report.failure.case = None <=> (results = <<>> /\ c = 1)
         /\ report.failure.code \in Codes => Last(results).outcome = "failed"
         /\ report.used = Len(results) + report.discoveryUsed

(* What the report of a run tells, passed or failed, is what happened. *)
ReportTrue == PassedMeansAll /\ FailureTold
=============================================================================
