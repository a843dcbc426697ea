----------------------------- MODULE IssueNotifier -----------------------------
(***************************************************************************)
(* The notifiers of the live conformance and the guide drift workflows     *)
(* (internal/livenotifier, internal/driftnotifier and their workflows):    *)
(* after each completed run, one notifier at a time lists the issues of    *)
(* the repository and creates or updates the one that it keeps.            *)
(*                                                                         *)
(* GitHub queues the notifiers: one runs, one waits, and a newer one takes *)
(* the place of the one that waits.  A run that was dispatched on another  *)
(* branch than the default one does nothing, but it completes, and its     *)
(* notifier queues like any other and is skipped only when its turn comes. *)
(* GitHub's search index lags behind the issues; an issue that the index   *)
(* does not know is among the hundred most recent.  A request may be lost, *)
(* its answer may be lost, and it may be processed after the notifier gave *)
(* up waiting or was killed.                                               *)
(*                                                                         *)
(* An operator Mutant<X> is X with a plausible slip in the code.  No       *)
(* specification uses it: it replaces X when a property is shown to fail   *)
(* without what the code does.                                             *)
(***************************************************************************)
EXTENDS Integers, Sequences, FiniteSets

CONSTANTS
  Runs,    (* bounds the completed runs of the producer                     *)
  Reruns,  (* bounds the notifiers that are run again by hand               *)
  Edits    (* bounds the edits of an issue by hand                          *)

ASSUME NotifierAssumption == Runs \in Nat /\ Reruns \in Nat /\ Edits \in Nat

Attempts == Runs + Reruns
Numbers  == 1 .. Attempts
Nobody   == 0
Nothing  == [state |-> "none", run |-> Nobody]
Body(state, run) == [state |-> state, run |-> run]

VARIABLES
  kind,        (* which notifier: live or drift                             *)
  runs,        (* what the notifier of each completed run observes, or that *)
               (* the run is of another branch                              *)
  pending,     (* the run whose notifier waits                              *)
  running,     (* the run whose notifier runs                               *)
  handled,     (* the runs whose notifier has ended                         *)
  displaced,   (* the trusted runs whose notifier made way for one that     *)
               (* tells neither of them nor of a later run                  *)
  pc,          (* where the notifier is                                     *)
  attempt,     (* counts the notifiers                                      *)
  found,       (* the bodies of the issues listed                           *)
  issues,      (* the bodies of the issues, by number                       *)
  index,       (* the bodies in the search index                            *)
  sent,        (* the requests that are not processed                       *)
  answer,      (* GitHub has processed the notifier's request               *)
  reruns, edits,
  lateCreates, (* issues created after their notifier gave up               *)
  disturbed,   (* an issue changed under the notifier                       *)
  stale        (* the index was behind when it was searched                 *)

producer == <<kind, runs>>
queue    == <<pending, running, handled, displaced, reruns, attempt>>
github   == <<issues, index, sent>>
history  == <<lateCreates, disturbed, stale>>
vars     == <<producer, queue, pc, found, github, answer, edits, history>>

Existing(bodies) == {n \in Numbers : bodies[n] # Nothing}

Init ==
  /\ kind \in {"live", "drift"} /\ runs = <<>>
  /\ pending = Nobody /\ running = Nobody /\ handled = {} /\ displaced = {}
  /\ pc = "idle" /\ attempt = 0
  /\ found = [n \in Numbers |-> Nothing]
  /\ issues = [n \in Numbers |-> Nothing] /\ index = [n \in Numbers |-> Nothing]
  /\ sent = {} /\ answer = FALSE
  /\ reruns = 0 /\ edits = 0
  /\ lateCreates = 0 /\ disturbed = FALSE /\ stale = FALSE

-----------------------------------------------------------------------------
(* The workflows. *)

Completions ==
  [conclusion : {"success", "failure", "cancelled"}, artifact : BOOLEAN,
   report : {"good", "bad", "none"}]

(* inspect: whatever is missing or does not fit together is a failure. *)
Inspect(completion) ==
  IF /\ completion.artifact
     /\ completion.conclusion = "success" /\ completion.report = "good"
  THEN "recovered" ELSE "failed"

(* The condition of the job: a run of the default branch. *)
Trusted(run) == runs[run] # "foreign"

(* The group holds one notifier that waits: an older one is cancelled,     *)
(* before anybody looks at the condition of either.                        *)
Queue(run, trusted) ==
  /\ pending' = run
  /\ displaced' = IF /\ pending # Nobody /\ Trusted(pending)
                     /\ ~ (trusted /\ run > pending)
                  THEN displaced \cup {pending} ELSE displaced
  /\ UNCHANGED <<running, handled, attempt>>

Complete ==
  /\ Len(runs) < Runs
  /\ \/ /\ \E completion \in Completions : runs' = Append(runs, Inspect(completion))
        /\ Queue(Len(runs) + 1, TRUE)
     \/ /\ runs' = Append(runs, "foreign")
        /\ Queue(Len(runs) + 1, FALSE)
  /\ UNCHANGED <<kind, reruns, pc, found, github, answer, edits, history>>

RunAgain ==
  /\ reruns < Reruns
  /\ \E run \in 1 .. Len(runs) : run \notin {pending, running} /\ Queue(run, Trusted(run))
  /\ reruns' = reruns + 1
  /\ UNCHANGED <<producer, pc, found, github, answer, edits, history>>

StartNotifier ==
  /\ running = Nobody /\ pending # Nobody /\ Trusted(pending)
  /\ running' = pending /\ pending' = Nobody
  /\ attempt' = attempt + 1
  /\ pc' = "search"
  /\ UNCHANGED <<producer, handled, displaced, reruns, found, github, answer, edits, history>>

(* Its turn has come, and its job is skipped. *)
SkipNotifier ==
  /\ running = Nobody /\ pending # Nobody /\ ~ Trusted(pending)
  /\ pending' = Nobody
  /\ UNCHANGED <<producer, running, handled, displaced, reruns, attempt, pc, found, github, answer,
                 edits, history>>

-----------------------------------------------------------------------------
(* List, notifyWith. *)

End ==
  /\ pc' = "idle" /\ running' = Nobody
  /\ handled' = handled \cup {running}
  /\ found' = [n \in Numbers |-> Nothing] /\ answer' = FALSE
  /\ disturbed' = FALSE /\ stale' = FALSE
  /\ UNCHANGED <<pending, displaced, reruns, attempt, lateCreates>>

Search ==
  /\ pc = "search"
  /\ pc' = "recent"
  /\ found' = index
  /\ stale' = (\E n \in Existing(index) : index[n] # issues[n])
  /\ UNCHANGED <<producer, queue, github, answer, edits, lateCreates, disturbed>>

MutantMerged == found
(* What the search has found is not taken again from the recent issues. *)
Merged == [n \in Numbers |-> IF found[n] # Nothing THEN found[n] ELSE issues[n]]

Recent ==
  /\ pc = "recent"
  /\ pc' = "decide"
  /\ found' = Merged
  /\ UNCHANGED <<producer, queue, github, answer, edits, history>>

Post(number, state) ==
  /\ sent' = sent \cup {[attempt |-> attempt, number |-> number, body |-> Body(state, running)]}
  /\ pc' = "wait"
  /\ UNCHANGED <<queue, found, answer, history>>

(* Without a write: with an error, or because there is nothing to tell. *)
Refuse == End /\ UNCHANGED sent
Report == End /\ UNCHANGED sent

Ambiguous(n) == found[n].state \notin {"failed", "recovered"}

MutantSeveral == FALSE
Several == Cardinality(Existing(found)) > 1

RecoverKnown(n) ==
  IF Ambiguous(n) THEN Refuse
  ELSE IF found[n].state = "recovered" THEN Report
       ELSE Post(n, "recovered")

FailKnown(n) ==
  IF kind = "drift" /\ Ambiguous(n) THEN Refuse
  ELSE Post(n, "failed")

Decide ==
  /\ pc = "decide"
  /\ CASE Several                          -> Refuse
       [] ~ Several /\ Existing(found) # {} ->
            \E n \in Existing(found) :
              IF runs[running] = "recovered" THEN RecoverKnown(n) ELSE FailKnown(n)
       [] OTHER -> IF runs[running] = "recovered" THEN Report
                   ELSE Post(0, "failed")
  /\ UNCHANGED <<producer, issues, index, edits>>

(* The answer of a write. *)
Succeed ==
  /\ pc = "wait" /\ answer
  /\ End
  /\ UNCHANGED <<producer, github, edits>>

MutantGiveUp == pc = "wait" /\ answer /\ End
(* A request fails, its answer is lost, or thirty seconds have passed; or  *)
(* the job is cancelled.  What was sent may be lost or on its way.         *)
GiveUp ==
  /\ pc # "idle"
  /\ End

Stop ==
  /\ GiveUp
  /\ UNCHANGED <<producer, github, edits>>

-----------------------------------------------------------------------------
(* GitHub. *)

Awaited(request) == pc = "wait" /\ request.attempt = attempt

MutantPatched(old, new) ==
  IF old.state \notin {"none", new.state} THEN Body("invalid", new.run) ELSE new
(* The body of an issue is replaced, with its one marker of its state. *)
Patched(old, new) == new

Process(request) ==
  /\ \E n \in Numbers :
       /\ IF request.number # 0 THEN n = request.number
          ELSE n \notin Existing(issues) /\ \A m \in 1 .. n - 1 : m \in Existing(issues)
       /\ issues' = [issues EXCEPT ![n] = Patched(@, request.body)]
  /\ sent' = sent \ {request}
  /\ answer' = (answer \/ Awaited(request))
  /\ disturbed' = (disturbed \/ (pc # "idle" /\ ~ Awaited(request)))
  /\ lateCreates' = IF request.number = 0 /\ ~ Awaited(request) THEN lateCreates + 1
                    ELSE lateCreates
  /\ UNCHANGED <<producer, queue, pc, found, index, edits, stale>>

(* A request that nobody waits for is lost. *)
Lose(request) ==
  /\ ~ Awaited(request)
  /\ sent' = sent \ {request}
  /\ UNCHANGED <<producer, queue, pc, found, issues, index, answer, edits, history>>

Reindex ==
  /\ \E n \in Existing(issues) :
       index[n] # issues[n] /\ index' = [index EXCEPT ![n] = issues[n]]
  /\ UNCHANGED <<producer, queue, pc, found, issues, sent, answer, edits, history>>

(* Someone edits the body so that it does not have one marker of a state.  *)
Edit ==
  /\ edits < Edits
  /\ \E n \in Existing(issues) :
       issues' = [issues EXCEPT ![n] = Body("invalid", Nobody)]
  /\ edits' = edits + 1
  /\ disturbed' = (pc # "idle")
  /\ UNCHANGED <<producer, queue, pc, found, index, sent, answer, lateCreates, stale>>

-----------------------------------------------------------------------------
Notifier == Search \/ Recent \/ Decide \/ Succeed \/ Stop

Next ==
  \/ Complete \/ RunAgain \/ StartNotifier \/ SkipNotifier
  \/ Notifier
  \/ \E request \in sent : Process(request) \/ Lose(request)
  \/ Reindex \/ Edit

(* GitHub starts or skips a notifier that waits, and a notifier always     *)
(* ends: its requests are bounded by a timeout, and its job too.           *)
Fairness == WF_vars(StartNotifier \/ SkipNotifier) /\ WF_vars(Notifier)

Spec == Init /\ [][Next]_vars /\ Fairness

-----------------------------------------------------------------------------
(* The type of the state.  Only a run of the default branch has a notifier *)
(* at work, and only an edit by hand leaves an issue without one marker of *)
(* its state: every body that a notifier writes has one.                   *)
NotifierTypeOK ==
  /\ kind \in {"live", "drift"} /\ runs \in Seq({"failed", "recovered", "foreign"})
  /\ {pending, running} \subseteq 0 .. Len(runs)
  /\ handled \subseteq 1 .. Len(runs) /\ displaced \subseteq 1 .. Len(runs)
  /\ pc \in {"idle", "search", "recent", "decide", "wait"}
  /\ pc = "idle" <=> running = Nobody
  /\ \A run \in handled \cup displaced \cup ({running} \ {Nobody}) : Trusted(run)
  /\ attempt \in 0 .. Attempts
  /\ \A n \in Numbers : \A body \in {found[n], issues[n], index[n]} :
       /\ body.state \in {"none", "failed", "recovered", "invalid"}
       /\ body.state = "invalid" => edits > 0
  /\ answer => pc = "wait"

(* The issue is one, however often a notifier fails, is killed or is run   *)
(* again, and however far the index lags: a second one needs a creation    *)
(* that GitHub processed when its notifier no longer waited for it.  With  *)
(* more than one, a notifier changes none of them.                         *)
OneIssue ==
  /\ Cardinality(Existing(issues)) <= 1 + lateCreates
  /\ pc = "wait" => Cardinality(Existing(found)) <= 1

(* A notifier that ends well has told what its run was: after a failure    *)
(* an issue tells of this run, after a recovery no issue is about a        *)
(* failure.  Otherwise the issue changed under it, or, for a recovery, the *)
(* search gave an older body.                                              *)
Told ==
  IF runs[running] = "failed"
  THEN \E n \in Existing(issues) : issues[n] = Body("failed", running)
  ELSE stale \/ \A n \in Existing(issues) : issues[n].state # "failed"
EndsWell ==
  \/ pc = "wait" /\ answer
  \/ pc = "decide" /\ runs[running] = "recovered" /\ ~ Several
     /\ \A n \in Existing(found) : found[n].state = "recovered"
ToldTruly == EndsWell => disturbed \/ Told

(* A completed run of the default branch does not go without a notifier:   *)
(* one ends for it, or for a later run that made it wait no longer.  There *)
(* is no other way out than that the place of such a notifier was taken by *)
(* one that is skipped, or by one of an older run, run again by hand: not  *)
(* a failed call, a lost answer, or a notifier that is killed or slow.     *)
EveryRunNotified ==
  \A run \in 1 .. Runs :
    Len(runs) >= run /\ Trusted(run) ~> \E later \in handled \cup displaced : later >= run
=============================================================================
