-------------------------- MODULE IssueNotifierProofs --------------------------
(***************************************************************************)
(* For any number of runs, notifiers run again and edits: the types of the *)
(* issue notifiers, that they keep one issue, and that a notifier which    *)
(* ends well has told on it what its run was.                              *)
(*                                                                         *)
(* OneIssue is not inductive: a notifier that is about to create an issue, *)
(* or waits for the creation, must know that there is none but the late    *)
(* ones.  Counted says that, and Requests that a notifier has one request  *)
(* and that it names an issue that is there.  ToldTruly speaks of the end  *)
(* of a notifier; TInv says what it knows on the way there, and what the   *)
(* request that it waits for will leave behind.                            *)
(***************************************************************************)
EXTENDS IssueNotifier, SequenceTheorems, FiniteSetTheorems, TLAPS

States   == {"none", "failed", "recovered", "invalid"}
BodyType == [state : States, run : Nat]
Written  == [state : {"failed", "recovered"}, run : Nat]

Observed == {"failed", "recovered", "foreign"}

Queued ==
  /\ kind \in {"live", "drift"} /\ runs \in Seq(Observed) /\ Len(runs) <= Runs
  /\ pending \in 0 .. Len(runs) /\ running \in 0 .. Len(runs)
  /\ handled \subseteq 1 .. Len(runs) /\ displaced \subseteq 1 .. Len(runs)
  /\ pc \in {"idle", "search", "recent", "decide", "wait"}
  /\ pc = "idle" <=> running = Nobody
  /\ \A run \in handled \cup displaced \cup ({running} \ {Nobody}) : Trusted(run)
  /\ answer => pc = "wait"
  /\ reruns \in 0 .. Reruns /\ edits \in Nat
  /\ attempt \in Nat
  /\ attempt <= Len(runs) + reruns
  /\ pending # Nobody => attempt < Len(runs) + reruns

(* A list of issues: only an edit leaves a body without a state. *)
Listed(bodies) ==
  /\ bodies \in [Numbers -> BodyType]
  /\ \A n \in Numbers : bodies[n].state = "invalid" => edits > 0

Issues ==
  /\ Listed(found) /\ Listed(issues) /\ Listed(index)
  /\ Existing(found) \subseteq Existing(issues)
  /\ Existing(index) \subseteq Existing(issues)

Request(r) ==
  /\ r.attempt \in Nat /\ r.body \in Written
  /\ r.number # 0 => r.number \in Existing(issues)
  /\ r.attempt <= attempt
  /\ pc \in {"search", "recent", "decide"} => r.attempt < attempt

Requests ==
  /\ \A r \in sent : Request(r)
  /\ \A r, s \in sent : r.attempt = s.attempt => r = s

Creating ==
  \/ pc = "decide" /\ Existing(found) = {}
  \/ \E r \in sent : r.number = 0 /\ Awaited(r)

Counted ==
  /\ lateCreates \in Nat
  /\ Cardinality(Existing(issues)) <= 1 + lateCreates
  /\ Creating => Cardinality(Existing(issues)) <= lateCreates
  /\ pc = "wait" => Cardinality(Existing(found)) <= 1

IInv == Queued /\ Issues /\ Requests /\ Counted

-----------------------------------------------------------------------------
LEMMA ExistingFinite ==
  ASSUME NEW bodies
  PROVE  IsFiniteSet(Existing(bodies)) /\ Cardinality(Existing(bodies)) \in Nat
<1>1. Attempts \in Nat /\ IsFiniteSet(Numbers)
  BY NotifierAssumption, FS_Interval DEF Numbers, Attempts
<1>2. Existing(bodies) \in SUBSET Numbers
  BY DEF Existing
<1> QED
  BY <1>1, <1>2, FS_Subset, FS_CardinalityType

LEMMA InitEstablishes == Init => IInv
<1> SUFFICES ASSUME Init PROVE IInv
  OBVIOUS
<1> USE DEF Init
<1>1. Queued
  BY NotifierAssumption DEF Queued, Trusted, Nobody
<1>2. Existing(issues) = {} /\ Existing(found) = {} /\ Existing(index) = {}
  BY DEF Existing
<1>3. Listed(found) /\ Listed(issues) /\ Listed(index)
  BY DEF Listed, BodyType, States, Nothing, Nobody
<1>4. Requests
  BY DEF Requests
<1>5. Counted
  <2>1. Cardinality(Existing(issues)) = 0
    BY <1>2, FS_EmptySet
  <2> QED
    BY <2>1 DEF Counted
<1> QED
  BY <1>1, <1>2, <1>3, <1>4, <1>5 DEF IInv, Issues

(* What a step that leaves the issues or the requests alone keeps. *)
LEMMA IssuesStay ==
  ASSUME Issues, UNCHANGED <<found, issues, index, edits>> PROVE Issues'
  BY DEF Issues, Listed, Existing

LEMMA RequestsStay ==
  ASSUME Requests, UNCHANGED <<issues, sent, attempt>>,
         pc' \in {"search", "recent", "decide"} => pc \in {"search", "recent", "decide"}
  PROVE  Requests'
  BY DEF Requests, Request, Existing

LEMMA CountedStays ==
  ASSUME Counted, UNCHANGED <<pc, found, issues, sent, attempt, lateCreates>> PROVE Counted'
  BY DEF Counted, Creating, Awaited, Existing

-----------------------------------------------------------------------------
LEMMA CompleteKeeps == IInv /\ Complete => IInv'
<1> SUFFICES ASSUME IInv, Complete PROVE IInv'
  OBVIOUS
<1> USE DEF IInv, Complete
<1>1. PICK seen \in Observed : runs' = Append(runs, seen)
  BY DEF Inspect, Observed
<1>2. /\ runs' \in Seq(Observed) /\ Len(runs') = Len(runs) + 1 /\ Len(runs) \in Nat
      /\ \A run \in 1 .. Len(runs) : runs'[run] = runs[run]
  BY <1>1, AppendProperties, LenProperties DEF Queued
<1>3. PICK trusted : Queue(Len(runs) + 1, trusted)
  OBVIOUS
<1>4. UNCHANGED <<kind, reruns, pc, found, issues, index, sent, answer, edits, lateCreates>>
  BY DEF github, history
<1>5. Queued'
  BY <1>2, <1>3, <1>4, NotifierAssumption DEF Queued, Queue, Trusted, Nobody
<1> QED
  BY <1>3, <1>4, <1>5, IssuesStay, RequestsStay, CountedStays DEF Queue

LEMMA RunAgainKeeps == IInv /\ RunAgain => IInv'
<1> SUFFICES ASSUME IInv, RunAgain PROVE IInv'
  OBVIOUS
<1> USE DEF IInv
<1>1. PICK run \in 1 .. Len(runs) : Queue(run, Trusted(run))
  BY DEF RunAgain
<1>2. /\ reruns' = reruns + 1 /\ reruns < Reruns
      /\ UNCHANGED <<kind, runs, pc, found, issues, index, sent, answer, edits, lateCreates>>
  BY DEF RunAgain, github, history, producer
<1>3. Len(runs) \in Nat
  BY LenProperties DEF Queued
<1>4. Queued'
  BY <1>1, <1>2, <1>3, NotifierAssumption DEF Queued, Queue, Trusted, Nobody
<1> QED
  BY <1>1, <1>2, <1>4, IssuesStay, RequestsStay, CountedStays DEF Queue

LEMMA StartNotifierKeeps == IInv /\ StartNotifier => IInv'
<1> SUFFICES ASSUME IInv, StartNotifier PROVE IInv'
  OBVIOUS
<1> USE DEF IInv, StartNotifier
<1>1. UNCHANGED <<kind, runs, handled, displaced, reruns, found, issues, index, sent, answer, edits,
                  lateCreates>>
  BY DEF producer, github, history
<1>2. Len(runs) \in Nat /\ pc = "idle" /\ ~ answer
  BY LenProperties DEF Queued
<1>3. Queued'
  BY <1>1, <1>2, NotifierAssumption DEF Queued, Trusted, Nobody
<1>4. Issues'
  BY <1>1, IssuesStay
<1>5. Requests'
  <2>1. \A r \in sent : Request(r)
    BY DEF Requests
  <2>2. attempt \in Nat /\ attempt' = attempt + 1
    BY DEF Queued
  <2>3. \A r \in sent : Request(r)'
    BY <1>1, <2>1, <2>2 DEF Request, Existing
  <2> QED
    BY <1>1, <2>3 DEF Requests
<1>6. Counted'
  <2>1. ~ Creating'
    BY DEF Creating, Awaited
  <2> QED
    BY <1>1, <2>1 DEF Counted, Existing
<1> QED
  BY <1>3, <1>4, <1>5, <1>6

LEMMA SkipNotifierKeeps == IInv /\ SkipNotifier => IInv'
<1> SUFFICES ASSUME IInv, SkipNotifier PROVE IInv'
  OBVIOUS
<1> USE DEF IInv
<1>1. /\ pending' = Nobody
      /\ UNCHANGED <<kind, runs, running, handled, displaced, reruns, attempt, pc, found, issues, index,
                     sent, answer, edits, lateCreates>>
  BY DEF SkipNotifier, producer, github, history
<1>2. Queued'
  BY <1>1, LenProperties DEF Queued, Trusted, Nobody
<1> QED
  BY <1>1, <1>2, IssuesStay, RequestsStay, CountedStays

-----------------------------------------------------------------------------
LEMMA EndKeeps ==
  ASSUME IInv, pc # "idle", End, UNCHANGED <<producer, issues, index, sent, edits>> PROVE IInv'
<1> USE DEF IInv
<1>1. /\ pc' = "idle" /\ running' = Nobody /\ handled' = handled \cup {running} /\ ~ answer'
      /\ UNCHANGED <<kind, runs, pending, displaced, reruns, attempt, edits, issues, index, sent,
                     lateCreates>>
      /\ found' = [n \in Numbers |-> Nothing]
  BY DEF End, producer
<1>2. Queued'
  BY <1>1 DEF Queued, Trusted, Nobody
<1>3. Existing(found') = {} /\ Listed(found)'
  BY <1>1 DEF Existing, Listed, BodyType, States, Nothing, Nobody
<1>4. Issues'
  BY <1>1, <1>3 DEF Issues, Listed, Existing
<1>5. Requests'
  BY <1>1, RequestsStay
<1>6. Counted'
  BY <1>1 DEF Counted, Creating, Awaited, Existing
<1> QED
  BY <1>2, <1>4, <1>5, <1>6

LEMMA SearchKeeps == IInv /\ Search => IInv'
<1> SUFFICES ASSUME IInv, Search PROVE IInv'
  OBVIOUS
<1> USE DEF IInv
<1>1. /\ pc = "search" /\ pc' = "recent" /\ found' = index
      /\ UNCHANGED <<kind, runs, pending, running, handled, displaced, reruns, attempt, answer, edits,
                     issues, index, sent, lateCreates>>
  BY DEF Search, producer, queue, github
<1>2. Queued'
  BY <1>1 DEF Queued, Trusted, Nobody
<1>3. Issues'
  BY <1>1 DEF Issues, Listed, Existing
<1>4. Requests'
  BY <1>1, RequestsStay
<1>5. Counted'
  BY <1>1 DEF Counted, Creating, Awaited, Existing
<1> QED
  BY <1>2, <1>3, <1>4, <1>5

LEMMA RecentKeeps == IInv /\ Recent => IInv'
<1> SUFFICES ASSUME IInv, Recent PROVE IInv'
  OBVIOUS
<1> USE DEF IInv
<1>1. /\ pc = "recent" /\ pc' = "decide" /\ found' = Merged
      /\ UNCHANGED <<kind, runs, pending, running, handled, displaced, reruns, attempt, answer, edits,
                     issues, index, sent, lateCreates>>
  BY DEF Recent, producer, queue, github, history
<1>2. Queued'
  BY <1>1 DEF Queued, Trusted, Nobody
<1>3. Existing(Merged) = Existing(issues)
  BY DEF Merged, Existing, Issues
<1>4. Listed(found)'
  BY <1>1 DEF Issues, Listed, Merged
<1>5. Issues'
  BY <1>1, <1>3, <1>4 DEF Issues, Listed, Existing
<1>6. Requests'
  BY <1>1, RequestsStay
<1>7. Counted'
  <2>1. Existing(issues)' = Existing(issues) /\ Existing(found)' = Existing(issues)
    BY <1>1, <1>3 DEF Existing
  <2>2. Creating' => Existing(issues) = {}
    BY <1>1, <2>1 DEF Creating, Awaited
  <2> QED
    BY <1>1, <2>1, <2>2, FS_EmptySet DEF Counted
<1> QED
  BY <1>2, <1>5, <1>6, <1>7

(* What a notifier decides: it ends, or creates the issue when it knows    *)
(* none, or writes the one that it knows.                                  *)
LEMMA Decides ==
  ASSUME Decide
  PROVE  \/ End /\ UNCHANGED sent
         \/ /\ ~ Several
            /\ \E number, state :
                 /\ state \in {"failed", "recovered"}
                 /\ \/ number = 0 /\ Existing(found) = {}
                    \/ number \in Existing(found)
                 /\ Post(number, state)
<1>1. CASE Several
  BY <1>1 DEF Decide, Refuse
<1>2. CASE ~ Several /\ Existing(found) # {}
  <2>1. PICK n \in Existing(found) :
          IF runs[running] = "recovered" THEN RecoverKnown(n) ELSE FailKnown(n)
    BY <1>2 DEF Decide
  <2>2. (End /\ UNCHANGED sent) \/ Post(n, "recovered") \/ Post(n, "failed")
    BY <2>1 DEF RecoverKnown, FailKnown, Refuse, Report
  <2> QED
    BY <1>2, <2>2
<1>3. CASE ~ Several /\ Existing(found) = {}
  <2>1. (End /\ UNCHANGED sent) \/ Post(0, "failed")
    BY <1>3 DEF Decide, Report
  <2> QED
    BY <1>3, <2>1
<1> QED
  BY <1>1, <1>2, <1>3

LEMMA DecideKeeps == IInv /\ Decide => IInv'
<1> SUFFICES ASSUME IInv, Decide PROVE IInv'
  OBVIOUS
<1> USE DEF IInv
<1>1. pc = "decide" /\ UNCHANGED <<producer, issues, index, edits>>
  BY DEF Decide
<1>2. CASE End /\ UNCHANGED sent
  BY <1>1, <1>2, EndKeeps
<1>3. ASSUME ~ Several, NEW number, NEW state \in {"failed", "recovered"},
             (number = 0 /\ Existing(found) = {}) \/ number \in Existing(found),
             Post(number, state)
      PROVE  IInv'
  <2> DEFINE request == [attempt |-> attempt, number |-> number, body |-> Body(state, running)]
  <2>1. /\ pc' = "wait" /\ sent' = sent \cup {request}
        /\ UNCHANGED <<kind, runs, pending, running, handled, displaced, reruns, attempt, answer, edits,
                       found, issues, index, lateCreates>>
    BY <1>1, <1>3 DEF Post, producer, queue, history
  <2>2. Queued'
    BY <1>1, <2>1 DEF Queued, Trusted, Nobody
  <2>3. Issues'
    BY <2>1, IssuesStay
  <2>4. attempt \in Nat /\ running \in Nat
    BY LenProperties DEF Queued
  <2>5. request.body \in Written /\ request.attempt = attempt /\ request.number = number
    BY <1>3, <2>4 DEF Written, Body
  <2>6. \A r \in sent : Request(r) /\ r.attempt < attempt /\ r.attempt \in Nat
    BY <1>1 DEF Requests, Request
  <2> HIDE DEF request
  <2>7. number # 0 => number \in Existing(issues)
    BY <1>3 DEF Issues
  <2>8. Existing(issues)' = Existing(issues) /\ Existing(found)' = Existing(found)
    BY <2>1 DEF Existing
  <2>9. Requests'
    <3>1. \A r \in sent' : Request(r)'
      BY <2>1, <2>4, <2>5, <2>6, <2>7, <2>8 DEF Request
    <3>2. ASSUME NEW r \in sent', NEW s \in sent', r.attempt = s.attempt PROVE r = s
      <4>1. CASE r \in sent /\ s \in sent
        BY <3>2, <4>1 DEF Requests
      <4>2. CASE r = request /\ s = request
        BY <4>2
      <4>3. CASE r = request /\ s \in sent
        BY <2>4, <2>5, <2>6, <3>2, <4>3
      <4>4. CASE r \in sent /\ s = request
        BY <2>4, <2>5, <2>6, <3>2, <4>4
      <4> QED
        BY <2>1, <4>1, <4>2, <4>3, <4>4
    <3> QED
      BY <3>1, <3>2 DEF Requests
  <2>10. Counted'
    <3>1. Cardinality(Existing(found)) \in Nat
      BY ExistingFinite
    <3>2. Cardinality(Existing(found)) <= 1
      BY <1>3, <3>1 DEF Several
    <3>3. Creating' => Creating
      <4> SUFFICES ASSUME Creating' PROVE Creating
        OBVIOUS
      <4>1. PICK r \in sent' : r.number = 0 /\ r.attempt = attempt
        BY <2>1 DEF Creating, Awaited
      <4>2. r = request
        BY <2>1, <2>4, <2>6, <4>1
      <4>3. number \notin Existing(found)
        BY <2>5, <4>1, <4>2, NotifierAssumption DEF Existing, Numbers, Attempts
      <4> QED
        BY <1>1, <1>3, <4>3 DEF Creating
    <3> QED
      BY <2>1, <2>8, <3>2, <3>3 DEF Counted
  <2> QED
    BY <2>2, <2>3, <2>9, <2>10
<1> QED
  BY <1>2, <1>3, Decides

LEMMA SucceedKeeps == IInv /\ Succeed => IInv'
<1> SUFFICES ASSUME IInv, Succeed PROVE IInv'
  OBVIOUS
<1>1. pc # "idle" /\ End /\ UNCHANGED <<producer, issues, index, sent, edits>>
  BY DEF Succeed, github
<1> QED
  BY <1>1, EndKeeps

LEMMA StopKeeps == IInv /\ Stop => IInv'
<1> SUFFICES ASSUME IInv, Stop PROVE IInv'
  OBVIOUS
<1>1. pc # "idle" /\ End /\ UNCHANGED <<producer, issues, index, sent, edits>>
  BY DEF Stop, GiveUp, github
<1> QED
  BY <1>1, EndKeeps

-----------------------------------------------------------------------------
(* A body that has a state is written to issue n. *)
LEMMA Rewritten ==
  ASSUME Issues, NEW n \in Numbers, NEW body \in BodyType, body # Nothing,
         body.state = "invalid" => edits' > 0, edits \in Nat, edits' \in Nat, edits <= edits',
         issues' = [issues EXCEPT ![n] = body], UNCHANGED <<found, index>>
  PROVE  Issues' /\ Existing(issues)' = Existing(issues) \cup {n}
<1>1. issues \in [Numbers -> BodyType]
  BY DEF Issues, Listed
<1>2. Existing(issues)' = Existing(issues) \cup {n}
  BY <1>1 DEF Existing
<1>3. Listed(found)' /\ Listed(index)'
  BY DEF Issues, Listed
<1>4. Listed(issues)'
  BY <1>1 DEF Issues, Listed
<1>5. Existing(found)' = Existing(found) /\ Existing(index)' = Existing(index)
  BY DEF Existing
<1> QED
  BY <1>2, <1>3, <1>4, <1>5 DEF Issues

LEMMA WrittenBodies ==
  ASSUME NEW body \in Written
  PROVE  body \in BodyType /\ body # Nothing /\ body.state # "invalid"
  BY DEF Written, BodyType, States, Nothing

LEMMA ProcessKeeps == ASSUME IInv, NEW request \in sent, Process(request) PROVE IInv'
<1> USE DEF IInv
<1>1. /\ sent' = sent \ {request} /\ answer' = (answer \/ Awaited(request))
      /\ lateCreates' = IF request.number = 0 /\ ~ Awaited(request) THEN lateCreates + 1
                        ELSE lateCreates
      /\ UNCHANGED <<kind, runs, pending, running, handled, displaced, reruns, attempt, pc, found, index,
                     edits>>
  BY DEF Process, producer, queue
<1>2. PICK n \in Numbers :
        /\ IF request.number # 0 THEN n = request.number ELSE n \notin Existing(issues)
        /\ issues' = [issues EXCEPT ![n] = request.body]
  BY DEF Process, Patched
<1>3. Request(request) /\ edits \in Nat
  BY DEF Requests, Queued
<1>4. request.body \in BodyType /\ request.body # Nothing /\ request.body.state # "invalid"
  BY <1>3, WrittenBodies DEF Request
<1>5. Issues' /\ Existing(issues)' = Existing(issues) \cup {n}
  <2>1. /\ edits' \in Nat /\ edits <= edits' /\ UNCHANGED <<found, index>>
        /\ issues' = [issues EXCEPT ![n] = request.body]
        /\ request.body.state = "invalid" => edits' > 0
    BY <1>1, <1>2, <1>3, <1>4
  <2> QED
    BY <1>3, <1>4, <2>1, Rewritten
<1>6. Queued'
  BY <1>1 DEF Queued, Trusted, Awaited
<1>7. Requests'
  <2>1. \A r \in sent : Request(r)
    BY DEF Requests
  <2>2. \A r \in sent : Request(r)'
    BY <1>1, <1>5, <2>1 DEF Request
  <2> QED
    BY <1>1, <2>2 DEF Requests
<1>8. Counted'
  <2>1. /\ IsFiniteSet(Existing(issues)) /\ Cardinality(Existing(issues)) \in Nat
        /\ lateCreates \in Nat
    BY ExistingFinite DEF Counted
  <2>2. Creating' => Creating
    BY <1>1 DEF Creating, Awaited, Existing
  <2>3. Existing(found)' = Existing(found)
    BY <1>1 DEF Existing
  <2>4. CASE request.number # 0
    <3>1. Existing(issues)' = Existing(issues)
      BY <1>2, <1>3, <1>5, <2>4 DEF Request
    <3> QED
      BY <1>1, <2>2, <2>3, <2>4, <3>1 DEF Counted
  <2>5. CASE request.number = 0
    <3>1. Cardinality(Existing(issues)') = Cardinality(Existing(issues)) + 1
      BY <1>2, <1>5, <2>1, <2>5, FS_AddElement
    <3>2. CASE Awaited(request)
      <4>1. Creating /\ ~ Creating'
        BY <1>1, <2>5, <3>2 DEF Creating, Awaited, Requests
      <4> QED
        BY <1>1, <2>1, <2>3, <3>1, <3>2, <4>1 DEF Counted
    <3>3. CASE ~ Awaited(request)
      BY <1>1, <2>1, <2>2, <2>3, <2>5, <3>1, <3>3 DEF Counted
    <3> QED
      BY <3>2, <3>3
  <2> QED
    BY <2>4, <2>5
<1> QED
  BY <1>5, <1>6, <1>7, <1>8

LEMMA LoseKeeps == ASSUME IInv, NEW request \in sent, Lose(request) PROVE IInv'
<1> USE DEF IInv
<1>1. /\ sent' = sent \ {request}
      /\ UNCHANGED <<kind, runs, pending, running, handled, displaced, reruns, attempt, pc, found, issues,
                     index, answer, edits, lateCreates>>
  BY DEF Lose, producer, queue, history
<1>2. Queued' /\ Issues'
  BY <1>1, IssuesStay DEF Queued, Trusted
<1>3. Requests'
  BY <1>1 DEF Requests, Request, Existing
<1>4. Counted'
  BY <1>1 DEF Counted, Creating, Awaited, Existing
<1> QED
  BY <1>2, <1>3, <1>4

LEMMA ReindexKeeps == IInv /\ Reindex => IInv'
<1> SUFFICES ASSUME IInv, Reindex PROVE IInv'
  OBVIOUS
<1> USE DEF IInv
<1>1. UNCHANGED <<kind, runs, pending, running, handled, displaced, reruns, attempt, pc, found, issues,
                  sent, answer, edits, lateCreates>>
  BY DEF Reindex, producer, queue, history
<1>2. PICK n \in Existing(issues) : index' = [index EXCEPT ![n] = issues[n]]
  BY DEF Reindex
<1>3. n \in Numbers
  BY DEF Existing
<1>4. Listed(index)'
  BY <1>1, <1>2, <1>3 DEF Issues, Listed
<1>5. Existing(index)' \subseteq Existing(index) \cup {n}
  BY <1>2, <1>3 DEF Existing, Issues, Listed
<1>6. Existing(issues)' = Existing(issues) /\ Existing(found)' = Existing(found)
  BY <1>1 DEF Existing
<1>7. Issues'
  BY <1>1, <1>4, <1>5, <1>6 DEF Issues, Listed
<1>8. Queued'
  BY <1>1 DEF Queued, Trusted
<1> QED
  BY <1>1, <1>7, <1>8, RequestsStay, CountedStays

LEMMA EditKeeps == IInv /\ Edit => IInv'
<1> SUFFICES ASSUME IInv, Edit PROVE IInv'
  OBVIOUS
<1> USE DEF IInv
<1>1. /\ edits' = edits + 1
      /\ UNCHANGED <<kind, runs, pending, running, handled, displaced, reruns, attempt, pc, found, index,
                     sent, answer, lateCreates>>
  BY DEF Edit, producer, queue
<1>2. PICK n \in Existing(issues) : issues' = [issues EXCEPT ![n] = Body("invalid", Nobody)]
  BY DEF Edit
<1>3. n \in Numbers /\ edits \in Nat
  BY DEF Existing, Queued
<1>4. Body("invalid", Nobody) \in BodyType /\ Body("invalid", Nobody) # Nothing
  BY DEF Body, BodyType, States, Nothing, Nobody
<1>5. Issues' /\ Existing(issues)' = Existing(issues)
  <2>1. Issues' /\ Existing(issues)' = Existing(issues) \cup {n}
    <3>1. edits' \in Nat /\ edits <= edits' /\ edits' > 0 /\ UNCHANGED <<found, index>>
      BY <1>1, <1>3
    <3> QED
      BY <1>2, <1>3, <1>4, <3>1, Rewritten
  <2> QED
    BY <1>2, <2>1
<1>6. Queued'
  BY <1>1, <1>3 DEF Queued, Trusted
<1>7. Requests'
  <2>1. \A r \in sent : Request(r)
    BY DEF Requests
  <2>2. \A r \in sent : Request(r)'
    BY <1>1, <1>5, <2>1 DEF Request
  <2> QED
    BY <1>1, <2>2 DEF Requests
<1>8. Counted'
  <2>1. Existing(found)' = Existing(found)
    BY <1>1 DEF Existing
  <2>2. Creating' => Creating
    BY <1>1, <2>1 DEF Creating, Awaited
  <2> QED
    BY <1>1, <1>5, <2>1, <2>2 DEF Counted
<1> QED
  BY <1>5, <1>6, <1>7, <1>8

-----------------------------------------------------------------------------
LEMMA NextKeeps == IInv /\ [Next]_vars => IInv'
<1> SUFFICES ASSUME IInv, [Next]_vars PROVE IInv'
  OBVIOUS
<1>1. CASE UNCHANGED vars
  <2>1. UNCHANGED <<kind, runs, pending, running, handled, displaced, reruns, attempt, pc, found, issues,
                    index, sent, answer, edits, lateCreates>>
    BY <1>1 DEF vars, producer, queue, github, history
  <2>2. Queued'
    BY <2>1 DEF IInv, Queued, Trusted
  <2> QED
    BY <2>1, <2>2, IssuesStay, RequestsStay, CountedStays DEF IInv
<1>2. CASE Next
  BY <1>2, CompleteKeeps, RunAgainKeeps, StartNotifierKeeps, SkipNotifierKeeps, SearchKeeps, RecentKeeps,
     DecideKeeps, SucceedKeeps, StopKeeps, ProcessKeeps, LoseKeeps, ReindexKeeps, EditKeeps DEF Next, Notifier
<1> QED
  BY <1>1, <1>2

LEMMA Invariance == Spec => []IInv
  BY InitEstablishes, NextKeeps, PTL DEF Spec

-----------------------------------------------------------------------------
(* What a notifier knows of the issues when nothing has disturbed it, and  *)
(* what it asks for: the issue that it leaves behind is the only one.      *)

Knows ==
  /\ pc = "recent" => disturbed \/ stale \/ \A n \in Existing(found) : found[n] = issues[n]
  /\ pc = "decide" =>
       disturbed \/ (Existing(issues) \subseteq Existing(found) /\ (stale \/ found = issues))

Asks(r) ==
  /\ r.body = Body(runs[running], running)
  /\ runs[running] = "recovered" => disturbed \/ Existing(issues) \subseteq {r.number}

Tells ==
  /\ \A r \in sent : Awaited(r) => ~ answer /\ Asks(r)
  /\ pc = "wait" /\ answer => disturbed \/ Told

TInv == Knows /\ Tells

LEMMA AtWork ==
  ASSUME IInv, pc # "idle"
  PROVE  running \in 1 .. Len(runs) /\ runs[running] \in {"failed", "recovered"}
<1>1. running \in 1 .. Len(runs) /\ Trusted(running)
  BY LenProperties DEF IInv, Queued, Nobody
<1> QED
  BY <1>1, ElementOfSeq DEF IInv, Queued, Observed, Trusted

LEMMA TellsAway == ASSUME pc' \in {"idle", "search"} PROVE TInv'
  BY DEF TInv, Knows, Tells, Awaited

LEMMA TellsStay ==
  ASSUME TInv, UNCHANGED <<pc, found, issues, answer, attempt, running, stale>>,
         sent' \subseteq sent, disturbed => disturbed', pc # "idle" => runs'[running] = runs[running]
  PROVE  TInv'
<1>1. Existing(found)' = Existing(found) /\ Existing(issues)' = Existing(issues)
  BY DEF Existing
<1>2. Knows'
  BY <1>1 DEF TInv, Knows
<1>3. ASSUME NEW r \in sent', Awaited(r)' PROVE ~ answer' /\ Asks(r)'
  <2>1. Awaited(r) /\ Asks(r) /\ ~ answer /\ pc = "wait"
    BY <1>3 DEF TInv, Tells, Awaited
  <2> QED
    BY <1>1, <2>1 DEF Asks
<1>4. pc = "wait" /\ Told => Told'
  BY <1>1 DEF Told
<1> QED
  BY <1>2, <1>3, <1>4 DEF TInv, Tells

LEMMA CompleteTells == IInv /\ TInv /\ Complete => TInv'
<1> SUFFICES ASSUME IInv, TInv, Complete PROVE TInv'
  OBVIOUS
<1>1. PICK seen \in Observed : runs' = Append(runs, seen)
  BY DEF Complete, Inspect, Observed
<1>2. pc # "idle" => runs'[running] = runs[running]
  <2> SUFFICES ASSUME pc # "idle" PROVE runs'[running] = runs[running]
    OBVIOUS
  <2>1. running \in 1 .. Len(runs) /\ runs \in Seq(Observed)
    BY AtWork DEF IInv, Queued
  <2> QED
    BY <1>1, <2>1, AppendProperties
<1> QED
  BY <1>2, TellsStay DEF Complete, Queue, github, history

LEMMA SearchTells == IInv /\ TInv /\ Search => TInv'
<1> SUFFICES ASSUME Search PROVE TInv'
  OBVIOUS
<1>1. /\ pc' = "recent" /\ found' = index /\ UNCHANGED issues
      /\ stale' = (\E n \in Existing(index) : index[n] # issues[n])
  BY DEF Search, github
<1> QED
  BY <1>1 DEF TInv, Knows, Tells, Awaited, Existing

LEMMA RecentTells == IInv /\ TInv /\ Recent => TInv'
<1> SUFFICES ASSUME IInv, TInv, Recent PROVE TInv'
  OBVIOUS
<1>1. pc = "recent" /\ pc' = "decide" /\ found' = Merged /\ UNCHANGED <<issues, disturbed, stale>>
  BY DEF Recent, github, history
<1>2. found \in [Numbers -> BodyType] /\ issues \in [Numbers -> BodyType]
  BY DEF IInv, Issues, Listed
<1>3. Existing(issues) \subseteq Existing(Merged)
  BY DEF Existing, Merged
<1>4. (\A n \in Existing(found) : found[n] = issues[n]) => Merged = issues
  BY <1>2 DEF Existing, Merged
<1>5. Knows'
  <2>1. Existing(issues)' = Existing(issues) /\ Existing(found)' = Existing(Merged)
    BY <1>1 DEF Existing
  <2>2. disturbed \/ stale \/ Merged = issues
    BY <1>1, <1>4 DEF TInv, Knows
  <2> QED
    BY <1>1, <1>3, <2>1, <2>2 DEF Knows
<1> QED
  BY <1>1, <1>5 DEF TInv, Tells, Awaited

(* The notifier of a failed run writes that it failed; the notifier of a   *)
(* recovered one writes only to the issue that it knows.                   *)
LEMMA DecidesTruly ==
  ASSUME Decide, runs[running] \in {"failed", "recovered"}
  PROVE  \/ End
         \/ \E number :
              /\ Post(number, runs[running])
              /\ runs[running] = "recovered" =>
                   number \in Existing(found) /\ Cardinality(Existing(found)) <= 1
<1>1. CASE Several
  BY <1>1 DEF Decide, Refuse
<1>2. CASE ~ Several /\ Existing(found) # {}
  <2>1. PICK n \in Existing(found) :
          IF runs[running] = "recovered" THEN RecoverKnown(n) ELSE FailKnown(n)
    BY <1>2 DEF Decide
  <2>2. Cardinality(Existing(found)) <= 1
    BY <1>2, ExistingFinite DEF Several
  <2> QED
    BY <2>1, <2>2 DEF RecoverKnown, FailKnown, Refuse, Report
<1>3. CASE ~ Several /\ Existing(found) = {}
  BY <1>3 DEF Decide, Report
<1> QED
  BY <1>1, <1>2, <1>3

LEMMA DecideTells == IInv /\ TInv /\ Decide => TInv'
<1> SUFFICES ASSUME IInv, TInv, Decide PROVE TInv'
  OBVIOUS
<1>1. pc = "decide" /\ UNCHANGED <<runs, issues>> /\ ~ answer
  BY DEF Decide, producer, IInv, Queued
<1>2. running \in 1 .. Len(runs) /\ runs[running] \in {"failed", "recovered"}
  BY <1>1, AtWork
<1>3. CASE End
  BY <1>3, TellsAway DEF End
<1>4. ASSUME NEW number, Post(number, runs[running]),
             runs[running] = "recovered" =>
               number \in Existing(found) /\ Cardinality(Existing(found)) <= 1
      PROVE  TInv'
  <2> DEFINE request == [attempt |-> attempt, number |-> number, body |-> Body(runs[running], running)]
  <2>1. /\ pc' = "wait" /\ sent' = sent \cup {request}
        /\ UNCHANGED <<attempt, running, found, answer, disturbed>>
    BY <1>4 DEF Post, queue, history
  <2>2. request.body = Body(runs[running], running) /\ request.number = number
    OBVIOUS
  <2> HIDE DEF request
  <2>3. \A r \in sent : r.attempt < attempt /\ r.attempt \in Nat /\ attempt \in Nat
    BY <1>1 DEF IInv, Queued, Requests, Request
  <2>4. runs[running] = "recovered" => disturbed \/ Existing(issues) \subseteq {number}
    <3> SUFFICES ASSUME runs[running] = "recovered", ~ disturbed
                 PROVE  Existing(issues) \subseteq {number}
      OBVIOUS
    <3>1. Existing(issues) \subseteq Existing(found)
      BY <1>1 DEF TInv, Knows
    <3>2. IsFiniteSet(Existing(found)) /\ Cardinality(Existing(found)) \in Nat
      BY ExistingFinite
    <3>3. Existing(found) # {} /\ Cardinality(Existing(found)) = 1
      BY <1>4, <3>2, FS_EmptySet
    <3>4. \E n : Existing(found) = {n}
      BY <3>2, <3>3, FS_Singleton
    <3> QED
      BY <1>4, <3>1, <3>4
  <2>5. ASSUME NEW r \in sent', Awaited(r)' PROVE ~ answer' /\ Asks(r)'
    <3>1. r = request
      BY <2>1, <2>3, <2>5 DEF Awaited
    <3>2. Existing(issues)' = Existing(issues)
      BY <1>1 DEF Existing
    <3> QED
      BY <1>1, <2>1, <2>2, <2>4, <3>1, <3>2 DEF Asks
  <2> QED
    BY <1>1, <2>1, <2>5 DEF TInv, Knows, Tells
<1> QED
  BY <1>2, <1>3, <1>4, DecidesTruly

LEMMA ProcessTells == ASSUME IInv, TInv, NEW request \in sent, Process(request) PROVE TInv'
<1>1. /\ sent' = sent \ {request} /\ answer' = (answer \/ Awaited(request))
      /\ disturbed' = (disturbed \/ (pc # "idle" /\ ~ Awaited(request)))
      /\ UNCHANGED <<runs, running, attempt, pc, found, stale>>
  BY DEF Process, producer, queue
<1>2. CASE ~ Awaited(request)
  <2>1. pc # "idle" => disturbed'
    BY <1>1, <1>2
  <2>2. Knows'
    BY <1>1, <2>1 DEF Knows
  <2>3. ASSUME NEW r \in sent', Awaited(r)' PROVE ~ answer' /\ Asks(r)'
    <3>1. Awaited(r) /\ r \in sent /\ pc = "wait"
      BY <1>1, <2>3 DEF Awaited
    <3>2. ~ answer /\ r.body = Body(runs[running], running)
      BY <3>1 DEF TInv, Tells, Asks
    <3> QED
      BY <1>1, <1>2, <2>1, <3>1, <3>2 DEF Asks
  <2> QED
    BY <1>1, <2>1, <2>2, <2>3 DEF TInv, Tells
<1>3. CASE Awaited(request)
  <2>1. pc = "wait" /\ request.attempt = attempt /\ Asks(request)
    BY <1>3 DEF TInv, Tells, Awaited
  <2>2. PICK n \in Numbers :
          /\ IF request.number # 0 THEN n = request.number ELSE n \notin Existing(issues)
          /\ issues' = [issues EXCEPT ![n] = request.body]
    BY DEF Process, Patched
  <2>3. /\ issues \in [Numbers -> BodyType] /\ request.body = Body(runs[running], running)
        /\ runs[running] \in {"failed", "recovered"} /\ running \in Nat \ {0}
    <3>1. running \in 1 .. Len(runs) /\ Len(runs) \in Nat
      BY <2>1, AtWork, LenProperties DEF IInv, Queued
    <3> QED
      BY <2>1, <3>1, AtWork DEF IInv, Issues, Listed, Asks
  <2>4. issues'[n] = request.body /\ \A m \in Numbers \ {n} : issues'[m] = issues[m]
    BY <2>2, <2>3
  <2>5. Told' \/ disturbed'
    <3>1. CASE runs[running] = "failed"
      <4>1. n \in Existing(issues') /\ issues'[n] = Body("failed", running)
        BY <2>3, <2>4, <3>1 DEF Existing, Body, Nothing
      <4> QED
        BY <1>1, <3>1, <4>1 DEF Told, Existing
    <3>2. CASE runs[running] = "recovered" /\ ~ disturbed
      <4>1. Existing(issues) \subseteq {request.number}
        BY <2>1, <3>2 DEF Asks
      <4>2. Existing(issues') \subseteq {n}
        <5> SUFFICES ASSUME NEW m \in Existing(issues'), m # n PROVE FALSE
          OBVIOUS
        <5>1. m \in Existing(issues)
          BY <2>4 DEF Existing
        <5>2. m = request.number /\ m # 0
          BY <4>1, <5>1, NotifierAssumption DEF Existing, Numbers, Attempts
        <5> QED
          BY <2>2, <5>2
      <4>3. issues'[n].state = "recovered"
        BY <2>3, <2>4, <3>2 DEF Body
      <4> QED
        BY <1>1, <3>2, <4>2, <4>3 DEF Told, Existing
    <3> QED
      BY <1>1, <2>3, <3>1, <3>2
  <2>6. ASSUME NEW r \in sent' PROVE ~ Awaited(r)'
    <3>1. r \in sent /\ r # request
      BY <1>1
    <3> QED
      BY <1>1, <2>1, <3>1 DEF Awaited, IInv, Requests
  <2> QED
    BY <1>1, <2>1, <2>5, <2>6 DEF TInv, Knows, Tells
<1> QED
  BY <1>2, <1>3

LEMMA EditTells == IInv /\ TInv /\ Edit => TInv'
<1> SUFFICES ASSUME TInv, Edit PROVE TInv'
  OBVIOUS
<1>1. disturbed' = (pc # "idle") /\ UNCHANGED <<runs, running, attempt, pc, found, sent, answer>>
  BY DEF Edit, producer, queue
<1>2. ASSUME NEW r \in sent', Awaited(r)' PROVE ~ answer' /\ Asks(r)'
  <2>1. Awaited(r) /\ pc = "wait" /\ ~ answer /\ r.body = Body(runs[running], running)
    BY <1>1, <1>2 DEF TInv, Tells, Awaited, Asks
  <2> QED
    BY <1>1, <2>1 DEF Asks
<1> QED
  BY <1>1, <1>2 DEF TInv, Knows, Tells

LEMMA NextTells == IInv /\ TInv /\ [Next]_vars => TInv'
<1> SUFFICES ASSUME IInv, TInv, [Next]_vars PROVE TInv'
  OBVIOUS
<1>1. CASE StartNotifier \/ Succeed \/ Stop
  <2>1. pc' \in {"idle", "search"}
    BY <1>1 DEF StartNotifier, Succeed, Stop, GiveUp, End
  <2> QED
    BY <2>1, TellsAway
<1>2. CASE RunAgain \/ SkipNotifier \/ Reindex
  BY <1>2, TellsStay DEF RunAgain, Queue, SkipNotifier, Reindex, producer, queue, github, history
<1>3. ASSUME NEW request \in sent, Lose(request) PROVE TInv'
  BY <1>3, TellsStay DEF Lose, producer, queue, history
<1>4. CASE UNCHANGED vars
  BY <1>4, TellsStay DEF vars, producer, queue, github, history
<1> QED
  BY <1>1, <1>2, <1>3, <1>4, CompleteTells, SearchTells, RecentTells, DecideTells, ProcessTells,
     EditTells DEF Next, Notifier

LEMMA Knowledge == Spec => []TInv
<1>1. Init => TInv
  BY DEF Init, TInv, Knows, Tells
<1> QED
  BY <1>1, Invariance, NextTells, PTL DEF Spec

LEMMA KnowledgeTells == IInv /\ TInv => ToldTruly
<1> SUFFICES ASSUME IInv, TInv, EndsWell, ~ disturbed PROVE Told
  BY DEF ToldTruly
<1>1. CASE pc = "wait" /\ answer
  BY <1>1 DEF TInv, Tells
<1>2. CASE /\ pc = "decide" /\ runs[running] = "recovered"
           /\ \A n \in Existing(found) : found[n].state = "recovered"
  <2>1. Existing(issues) \subseteq Existing(found) /\ (stale \/ found = issues)
    BY <1>2 DEF TInv, Knows
  <2> QED
    BY <1>2, <2>1 DEF Told
<1> QED
  BY <1>1, <1>2 DEF EndsWell

-----------------------------------------------------------------------------
(* Every state of the notifiers is type-correct, there is no notifier more *)
(* than completed runs and runs again, only a run of the default branch    *)
(* has one at work (the condition of the job notify), and only an edit by  *)
(* hand leaves an issue without a state (livenotifier and driftnotifier).  *)
THEOREM NotifierTypeCorrect == Spec => []NotifierTypeOK
<1>1. IInv => NotifierTypeOK
  <2> SUFFICES ASSUME IInv PROVE NotifierTypeOK
    OBVIOUS
  <2>1. attempt \in 0 .. Attempts
    BY NotifierAssumption, LenProperties DEF IInv, Queued, Attempts
  <2>2. \A n \in Numbers : \A body \in {found[n], issues[n], index[n]} :
          /\ body.state \in {"none", "failed", "recovered", "invalid"}
          /\ body.state = "invalid" => edits > 0
    BY DEF IInv, Issues, Listed, BodyType, States
  <2> QED
    BY <2>1, <2>2 DEF IInv, Queued, Observed, NotifierTypeOK
<1> QED
  BY <1>1, Invariance, PTL

(* However often a notifier fails, is killed or is run again, it keeps one *)
(* issue, but for those that GitHub created when nobody waited any more,   *)
(* and it writes to none when it knows several (notifyWith).               *)
THEOREM OneIssueKept == Spec => []OneIssue
<1>1. IInv => OneIssue
  BY DEF IInv, Counted, OneIssue
<1> QED
  BY <1>1, Invariance, PTL

(* A notifier that ends well has told what its run was: an issue tells of  *)
(* a failed run, and after a recovery no issue is about a failure, unless  *)
(* something else changed the issues meanwhile or the search was stale     *)
(* (notifyWith, RecoverKnown and FailKnown).                               *)
THEOREM EndsToldTruly == Spec => []ToldTruly
  BY Invariance, Knowledge, KnowledgeTells, PTL
=============================================================================
