------------------------- MODULE ReleasePipelineProofs -------------------------
(***************************************************************************)
(* For any number of commits, versions, failures and runs started again:   *)
(* the types of the release pipeline, and that a public release is whole.  *)
(*                                                                         *)
(* PublicMeansVerified is not inductive, because the run that finalizes a  *)
(* crate has verified it some steps before, perhaps in an earlier attempt: *)
(* Working says what the job that is at work, or that may be started       *)
(* again, has established.                                                 *)
(***************************************************************************)
EXTENDS ReleasePipeline, SequenceTheorems, TLAPS

CrateStages == {"candidate", "publish", "poll", "reconcile", "finalize"}

(* The job at work, or the one that failed and may be started again. *)
At == IF stage = "idle" THEN retry ELSE stage

Working ==
  /\ stage # "idle" => retry = "none"
  /\ retry # "assets"
  /\ At \in CrateStages => work["sdk"] # 0
  /\ At \in {"reconcile", "finalize"} => Crate \in visible
  /\ At = "finalize" => Accepted

(* The parts of the type invariant, by who changes them. *)
States == [state : {"none", "draft", "public"}, target : 0 .. MaxCommits]

RepositoryOK ==
  /\ commits \in Seq([Components -> Versions]) /\ Main \in 1 .. MaxCommits
  /\ proposals \in [Components -> 0 .. MaxVersion]
  /\ tags \in [Components -> [Versions -> 0 .. MaxCommits]]

ReleasesOK ==
  /\ releases \in [Components -> [Versions -> States]]
  /\ \A c \in Components, v \in Versions :
       releases[c][v].target = 0 <=> releases[c][v] = Absent
  /\ releases["sdk"][Superseded] = Released("draft", 1)

CratesOK ==
  /\ assets \in [Versions -> SUBSET Assets]
  /\ registry \in [Versions -> 0 .. MaxCommits]
  /\ visible \subseteq {v \in Versions : registry[v] # 0}
  /\ uploads \subseteq [version : Versions, revision : Revisions]

RunOK ==
  /\ stage \in Stages /\ retry \in Stages \cup {"none"} /\ sha \in 1 .. Main
  /\ work \in [Components -> 0 .. MaxVersion] /\ work["sdk"] # Superseded
  /\ stage = "assets" => work["specification"] # 0
  /\ stage \in CrateStages => work["sdk"] # 0

WorkOK == \A c \in Components : work[c] # 0 => releases[c][work[c]] # Absent

BoundsOK == failures \in 0 .. MaxFailures /\ reruns \in 0 .. Reruns /\ hands \in 0 .. Hands

Parts == RepositoryOK /\ ReleasesOK /\ CratesOK /\ RunOK /\ WorkOK /\ BoundsOK

LEMMA TypeParts == Parts <=> ReleaseTypeOK
  BY DEF Parts, RepositoryOK, ReleasesOK, CratesOK, RunOK, WorkOK, BoundsOK, ReleaseTypeOK,
         States, CrateStages

IInv == Parts /\ PublicMeansVerified /\ Working

-----------------------------------------------------------------------------
LEMMA InitEstablishes == Init => IInv
<1> SUFFICES ASSUME Init PROVE IInv
  OBVIOUS
<1> USE ReleaseAssumption DEF Init, Components, Versions, NoWork, Absent, Released, Assets
<1>1. RepositoryOK /\ RunOK /\ BoundsOK
  BY DEF RepositoryOK, RunOK, BoundsOK, Main, Stages, Superseded, CrateStages
<1>2. ReleasesOK
  BY DEF ReleasesOK, States, Superseded
<1>3. CratesOK /\ WorkOK
  BY DEF CratesOK, WorkOK
<1>4. PublicMeansVerified
  BY DEF PublicMeansVerified
<1>5. Working
  BY DEF Working, At, CrateStages
<1> QED
  BY <1>1, <1>2, <1>3, <1>4, <1>5 DEF IInv, Parts

(* What a step that leaves the releases, the crates or the run alone keeps. *)
LEMMA RepositoryStays == ASSUME RepositoryOK, UNCHANGED repository PROVE RepositoryOK'
  BY DEF RepositoryOK, repository, Main

LEMMA ReleasesStay == ASSUME ReleasesOK, UNCHANGED releases PROVE ReleasesOK'
  BY DEF ReleasesOK

LEMMA CratesStay == ASSUME CratesOK, UNCHANGED <<assets, crates>> PROVE CratesOK'
  BY DEF CratesOK, crates

(* A tag is made, at a commit. *)
LEMMA TagMade ==
  ASSUME RepositoryOK, UNCHANGED <<commits, proposals>>, NEW c \in Components, NEW v \in Versions,
         NEW i \in 0 .. MaxCommits, tags' = [tags EXCEPT ![c][v] = i]
  PROVE  RepositoryOK'
  BY DEF RepositoryOK, Main

LEMMA RunStays == ASSUME RunOK, UNCHANGED <<commits, run>> PROVE RunOK'
  BY DEF RunOK, run, Main

LEMMA WorkStays == ASSUME WorkOK, UNCHANGED <<releases, work>> PROVE WorkOK'
  BY DEF WorkOK

LEMMA BoundsStay == ASSUME BoundsOK, UNCHANGED bounds PROVE BoundsOK'
  BY DEF BoundsOK, bounds

LEMMA PublicStays ==
  ASSUME PublicMeansVerified, UNCHANGED <<releases, assets, crates>>
  PROVE  PublicMeansVerified'
  BY DEF PublicMeansVerified, crates

LEMMA WorkingStays ==
  ASSUME Working, UNCHANGED <<releases, crates, run>> PROVE Working'
  BY DEF Working, At, Crate, Accepted, Revision, crates, run

-----------------------------------------------------------------------------
(* What happens around the runs. *)

LEMMA PushKeeps == IInv /\ Push => IInv'
<1> SUFFICES ASSUME IInv, Push PROVE IInv'
  OBVIOUS
<1> USE ReleaseAssumption DEF IInv, Parts, Push
<1>1. RepositoryOK' /\ Main \in Nat /\ Main' = Main + 1
  <2> DEFINE Manifests == [Components -> Versions]
  <2>1. Main \in Nat /\ commits \in Seq(Manifests) /\ commits[Main] \in Manifests
    BY ElementOfSeq DEF RepositoryOK, Main
  <2>2. PICK next \in Manifests : commits' = Append(commits, next)
    <3>1. CASE commits' = Append(commits, commits[Main])
      BY <2>1, <3>1
    <3>2. CASE \E c \in Components :
                 /\ proposals[c] # 0
                 /\ commits' = Append(commits, [commits[Main] EXCEPT ![c] = proposals[c]])
      <4>1. PICK c \in Components :
               /\ proposals[c] # 0
               /\ commits' = Append(commits, [commits[Main] EXCEPT ![c] = proposals[c]])
        BY <3>2
      <4>2. proposals[c] \in Versions
        BY <4>1 DEF RepositoryOK, Versions
      <4>3. [commits[Main] EXCEPT ![c] = proposals[c]] \in Manifests
        BY <2>1, <4>2
      <4> QED
        BY <4>1, <4>3
    <3> QED
      BY <3>1, <3>2
  <2>3. commits' \in Seq(Manifests) /\ Main' = Main + 1
    BY <2>1, <2>2, AppendProperties DEF Main
  <2>4. Main' \in 1 .. MaxCommits
    BY <2>1, <2>3 DEF RepositoryOK
  <2>5. proposals' \in [Components -> 0 .. MaxVersion]
    <3>1. 0 \in 0 .. MaxVersion /\ proposals \in [Components -> 0 .. MaxVersion]
      BY DEF RepositoryOK
    <3>2. proposals' = proposals \/ \E c \in Components : proposals' = [proposals EXCEPT ![c] = 0]
      OBVIOUS
    <3> QED
      BY <3>1, <3>2
  <2> QED
    BY <2>1, <2>3, <2>4, <2>5 DEF RepositoryOK
<1>2. ReleasesOK'
  BY ReleasesStay
<1>3. CratesOK'
  BY CratesStay DEF crates
<1>4. RunOK'
  <2>1. UNCHANGED <<stage, retry, sha, work>>
    BY DEF run
  <2> QED
    BY <1>1, <2>1 DEF RunOK
<1>5. WorkOK'
  BY WorkStays DEF run
<1>6. BoundsOK'
  BY BoundsStay DEF bounds
<1>7. PublicMeansVerified'
  BY PublicStays DEF crates
<1>8. Working'
  BY WorkingStays DEF crates, run
<1> QED
  BY <1>1, <1>2, <1>3, <1>4, <1>5, <1>6, <1>7, <1>8

LEMMA StartHeadKeeps == IInv /\ StartHead => IInv'
<1> SUFFICES ASSUME IInv, StartHead PROVE IInv'
  OBVIOUS
<1> USE ReleaseAssumption DEF IInv, Parts, StartHead, Start
<1>1. RepositoryOK'
  BY RepositoryStays
<1>2. ReleasesOK'
  BY ReleasesStay
<1>3. CratesOK'
  BY CratesStay DEF crates
<1>4. RunOK'
  <2>1. Main' = Main /\ sha' \in 1 .. Main
    BY DEF RepositoryOK, Main, repository
  <2>2. work' \in [Components -> 0 .. MaxVersion] /\ work'["sdk"] = 0
    BY DEF NoWork, Components
  <2>3. stage' = "detect" /\ retry' = "none"
    OBVIOUS
  <2> QED
    BY <2>1, <2>2, <2>3 DEF RunOK, Stages, CrateStages, Superseded
<1>5. WorkOK'
  BY DEF WorkOK, NoWork, Components
<1>6. BoundsOK'
  BY DEF BoundsOK, bounds
<1>7. PublicMeansVerified'
  BY PublicStays DEF crates
<1>8. Working'
  BY DEF Working, At, CrateStages
<1> QED
  BY <1>1, <1>2, <1>3, <1>4, <1>5, <1>6, <1>7, <1>8

LEMMA StartAgainKeeps == IInv /\ StartAgain => IInv'
<1> SUFFICES ASSUME IInv, StartAgain PROVE IInv'
  OBVIOUS
<1> USE ReleaseAssumption DEF IInv, Parts, StartAgain, Start
<1>1. RepositoryOK'
  BY RepositoryStays
<1>2. ReleasesOK'
  BY ReleasesStay
<1>3. CratesOK'
  BY CratesStay DEF crates
<1>4. RunOK'
  <2>1. Main' = Main /\ sha' \in 1 .. Main
    BY DEF RepositoryOK, Main, repository
  <2>2. work' \in [Components -> 0 .. MaxVersion] /\ work'["sdk"] = 0
    BY DEF NoWork, Components
  <2>3. stage' = "detect" /\ retry' = "none"
    OBVIOUS
  <2> QED
    BY <2>1, <2>2, <2>3 DEF RunOK, Stages, CrateStages, Superseded
<1>5. WorkOK'
  BY DEF WorkOK, NoWork, Components
<1>6. BoundsOK'
  BY DEF BoundsOK, bounds
<1>7. PublicMeansVerified'
  BY PublicStays DEF crates
<1>8. Working'
  BY DEF Working, At, CrateStages
<1> QED
  BY <1>1, <1>2, <1>3, <1>4, <1>5, <1>6, <1>7, <1>8

LEMMA StartJobAgainKeeps == IInv /\ StartJobAgain => IInv'
<1> SUFFICES ASSUME IInv, StartJobAgain PROVE IInv'
  OBVIOUS
<1> USE ReleaseAssumption DEF IInv, Parts, StartJobAgain
<1>1. RepositoryOK'
  BY RepositoryStays
<1>2. ReleasesOK'
  BY ReleasesStay
<1>3. CratesOK'
  BY CratesStay DEF crates
<1>4. RunOK'
  <2>1. Main' = Main
    BY DEF Main, repository
  <2>2. stage' \in Stages /\ stage' # "assets"
    BY DEF RunOK, Working
  <2>3. stage' \in CrateStages => work["sdk"] # 0
    BY DEF Working, At, Crate
  <2> QED
    BY <2>1, <2>2, <2>3 DEF RunOK
<1>5. WorkOK'
  BY WorkStays DEF run
<1>6. BoundsOK'
  BY DEF BoundsOK, bounds
<1>7. PublicMeansVerified'
  BY PublicStays DEF crates
<1>8. Working'
  BY DEF RunOK, Working, At, CrateStages, Crate, Accepted, Revision, crates, Stages
<1> QED
  BY <1>1, <1>2, <1>3, <1>4, <1>5, <1>6, <1>7, <1>8

LEMMA LandKeeps == IInv /\ Land => IInv'
<1> SUFFICES ASSUME IInv, Land PROVE IInv'
  OBVIOUS
<1> USE ReleaseAssumption DEF IInv, Parts, Land
<1>1. RepositoryOK'
  BY RepositoryStays
<1>2. ReleasesOK'
  BY ReleasesStay
<1>3. CratesOK'
  BY DEF CratesOK, Versions, Revisions
<1>4. RunOK'
  BY RunStays DEF run, repository
<1>5. WorkOK'
  BY WorkStays DEF run
<1>6. BoundsOK'
  BY BoundsStay DEF bounds
<1>7. PublicMeansVerified'
  BY DEF PublicMeansVerified, CratesOK, Versions
<1>8. Working'
  BY DEF RunOK, Working, At, Crate, Accepted, Revision, CratesOK, CrateStages, run, Components, Versions
<1> QED
  BY <1>1, <1>2, <1>3, <1>4, <1>5, <1>6, <1>7, <1>8

LEMMA ShowKeeps == IInv /\ Show => IInv'
<1> SUFFICES ASSUME IInv, Show PROVE IInv'
  OBVIOUS
<1> USE ReleaseAssumption DEF IInv, Parts, Show
<1>1. RepositoryOK'
  BY RepositoryStays
<1>2. ReleasesOK'
  BY ReleasesStay
<1>3. CratesOK'
  BY DEF CratesOK
<1>4. RunOK'
  BY RunStays DEF run, repository
<1>5. WorkOK'
  BY WorkStays DEF run
<1>6. BoundsOK'
  BY BoundsStay DEF bounds
<1>7. PublicMeansVerified'
  BY DEF PublicMeansVerified, CratesOK, Versions
<1>8. Working'
  BY DEF RunOK, Working, At, Crate, Accepted, Revision, CratesOK, CrateStages, run, Components, Versions
<1> QED
  BY <1>1, <1>2, <1>3, <1>4, <1>5, <1>6, <1>7, <1>8

LEMMA PublishByHandKeeps == IInv /\ PublishByHand => IInv'
<1> SUFFICES ASSUME IInv, PublishByHand PROVE IInv'
  OBVIOUS
<1> USE ReleaseAssumption DEF IInv, Parts, PublishByHand
<1>1. RepositoryOK'
  BY RepositoryStays
<1>2. ReleasesOK'
  BY ReleasesStay
<1>3. CratesOK'
  BY DEF CratesOK, Versions, RepositoryOK, Main
<1>4. RunOK'
  BY RunStays DEF run, repository
<1>5. WorkOK'
  BY WorkStays DEF run
<1>6. BoundsOK'
  BY DEF BoundsOK
<1>7. PublicMeansVerified'
  BY DEF PublicMeansVerified, CratesOK, Versions
<1>8. Working'
  BY DEF RunOK, Working, At, Crate, Accepted, Revision, CratesOK, CrateStages, run, Components, Versions
<1> QED
  BY <1>1, <1>2, <1>3, <1>4, <1>5, <1>6, <1>7, <1>8

LEMMA TagByHandKeeps == IInv /\ TagByHand => IInv'
<1> SUFFICES ASSUME IInv, TagByHand PROVE IInv'
  OBVIOUS
<1> USE ReleaseAssumption DEF IInv, Parts, TagByHand
<1>1. RepositoryOK'
  <2>1. PICK c \in Components, v \in Versions, i \in 1 .. Main : tags' = [tags EXCEPT ![c][v] = i]
    OBVIOUS
  <2>2. i \in 0 .. MaxCommits
    BY DEF RepositoryOK
  <2> QED
    BY <2>1, <2>2, TagMade
<1>2. ReleasesOK'
  BY ReleasesStay
<1>3. CratesOK'
  BY CratesStay DEF crates
<1>4. RunOK'
  BY RunStays DEF run
<1>5. WorkOK'
  BY WorkStays DEF run
<1>6. BoundsOK'
  BY DEF BoundsOK
<1>7. PublicMeansVerified'
  BY PublicStays DEF crates
<1>8. Working'
  BY WorkingStays DEF crates, run
<1> QED
  BY <1>1, <1>2, <1>3, <1>4, <1>5, <1>6, <1>7, <1>8

LEMMA InterruptKeeps == IInv /\ Interrupt => IInv'
<1> SUFFICES ASSUME IInv, Interrupt PROVE IInv'
  OBVIOUS
<1> USE ReleaseAssumption DEF IInv, Parts, Interrupt, Stop, Job
<1>1. RepositoryOK'
  BY RepositoryStays
<1>2. ReleasesOK'
  BY ReleasesStay
<1>3. CratesOK'
  BY CratesStay DEF crates
<1>4. RunOK'
  BY DEF RunOK, RepositoryOK, repository, Main, Stages, CrateStages
<1>5. WorkOK'
  BY WorkStays DEF run
<1>6. BoundsOK'
  BY DEF BoundsOK, Working
<1>7. PublicMeansVerified'
  BY PublicStays DEF crates
<1>8. Working'
  BY DEF RunOK, Working, At, CrateStages, Stages, Crate, Accepted, Revision, crates
<1> QED
  BY <1>1, <1>2, <1>3, <1>4, <1>5, <1>6, <1>7, <1>8

-----------------------------------------------------------------------------
(* The steps of a run. *)

(* What recovery finds: a version with a draft, or nothing. *)
LEMMA Todo ==
  ASSUME Parts, NEW todo, todo = [c \in Components |-> IF Unfinished(c) THEN Version(c) ELSE 0]
  PROVE  /\ todo \in [Components -> 0 .. MaxVersion] /\ todo["sdk"] # Superseded
         /\ \A c \in Components : todo[c] # 0 => releases[c][todo[c]] # Absent
<1> USE ReleaseAssumption DEF Parts
<1>1. \A c \in Components : Version(c) \in Versions
  BY DEF RepositoryOK, RunOK, Main, Version
<1>2. \A c \in Components : Unfinished(c) => releases[c][Version(c)] # Absent
  BY DEF Unfinished, Current, Absent, Released
<1>3. Unfinished("sdk") => Version("sdk") # Superseded
  BY DEF Unfinished, Ignored
<1> QED
  BY <1>1, <1>2, <1>3 DEF Components, Versions, Superseded

LEMMA DetectKeeps == IInv /\ Detect => IInv'
<1> SUFFICES ASSUME IInv, Detect PROVE IInv'
  OBVIOUS
<1> USE ReleaseAssumption DEF IInv, Parts, Detect
<1> DEFINE todo == [c \in Components |-> IF Unfinished(c) THEN Version(c) ELSE 0]
<1>1. UNCHANGED <<repository, releases, assets, crates, sha, bounds>>
  OBVIOUS
<1>2. \/ Stop /\ UNCHANGED work
      \/ work' = todo /\ NextJob(todo)
      \/ GoTo("releasePlease") /\ work' = NoWork
  OBVIOUS
<1>3. /\ todo \in [Components -> 0 .. MaxVersion] /\ todo["sdk"] # Superseded
      /\ \A c \in Components : todo[c] # 0 => releases[c][todo[c]] # Absent
  BY Todo
<1> HIDE DEF todo, Detect
<1>4. RunOK'
  <2>1. sha' \in 1 .. Main' /\ work \in [Components -> 0 .. MaxVersion] /\ work["sdk"] # Superseded
        /\ stage \in Stages /\ retry \in Stages \cup {"none"}
    BY <1>1 DEF RunOK, repository, Main
  <2>2. NoWork \in [Components -> 0 .. MaxVersion] /\ NoWork["sdk"] = 0
    BY DEF NoWork, Components
  <2>3. work' \in [Components -> 0 .. MaxVersion] /\ work'["sdk"] # Superseded
    BY <1>2, <1>3, <2>1, <2>2 DEF Superseded
  <2>4. stage' \in Stages /\ retry' \in Stages \cup {"none"}
    BY <1>2, <2>1 DEF Stop, Job, GoTo, NextJob, Stages
  <2>5. /\ stage' = "assets" => work'["specification"] # 0
        /\ stage' \in CrateStages => work'["sdk"] # 0
    BY <1>2 DEF Stop, GoTo, NextJob, CrateStages
  <2> QED
    BY <2>1, <2>3, <2>4, <2>5 DEF RunOK
<1>5. WorkOK'
  BY <1>1, <1>2, <1>3 DEF WorkOK, NoWork, Components
<1>6. Working'
  BY <1>1, <1>2, <1>3, Detect DEF Detect, RunOK, Working, At, CrateStages, Stages, Stop, Job,
                          GoTo, NextJob, NoWork, Components
<1> QED
  BY <1>1, <1>4, <1>5, <1>6, RepositoryStays, ReleasesStay, CratesStay, BoundsStay, PublicStays

LEMMA ProposeKeeps == IInv /\ Propose => IInv'
<1> SUFFICES ASSUME IInv, Propose PROVE IInv'
  OBVIOUS
<1> USE ReleaseAssumption DEF IInv, Parts, Propose, NextJob, GoTo
<1>1. RepositoryOK'
  <2>1. \A c \in Components : commits[Main][c] \in Versions
    BY ElementOfSeq DEF RepositoryOK, Main
  <2>2. PICK open \in SUBSET {c \in Components : proposals[c] = 0 /\ commits[Main][c] < MaxVersion} :
          proposals' = [c \in Components |->
                          IF c \in open THEN commits[Main][c] + 1 ELSE proposals[c]]
    OBVIOUS
  <2>3. proposals' \in [Components -> 0 .. MaxVersion]
    BY <2>1, <2>2 DEF RepositoryOK, Versions
  <2> QED
    BY <2>3 DEF RepositoryOK, Main
<1>2. ReleasesOK'
  BY ReleasesStay
<1>3. CratesOK'
  BY CratesStay DEF crates
<1>4. RunOK'
  BY DEF RunOK, RepositoryOK, Main, Stages, CrateStages
<1>5. WorkOK'
  BY WorkStays DEF run
<1>6. BoundsOK'
  BY BoundsStay DEF bounds
<1>7. PublicMeansVerified'
  BY PublicStays DEF crates
<1>8. Working'
  BY DEF RunOK, Working, At, CrateStages
<1> QED
  BY <1>1, <1>2, <1>3, <1>4, <1>5, <1>6, <1>7, <1>8

LEMMA DraftReleaseKeeps == IInv /\ DraftRelease => IInv'
<1> SUFFICES ASSUME IInv, DraftRelease PROVE IInv'
  OBVIOUS
<1> USE ReleaseAssumption DEF IInv, Parts
<1>1. PICK c \in Components, v \in Versions, i \in 1 .. Main :
        /\ releases[c][v] = Absent
        /\ releases' = [releases EXCEPT ![c][v] = Released("draft", i)]
        /\ work' = [work EXCEPT ![c] = v]
  BY DEF DraftRelease, Merged
<1>2. stage = "releasePlease" /\ UNCHANGED <<repository, assets, crates, stage, retry, sha, bounds>>
  BY DEF DraftRelease
<1>3. Released("draft", i) \in States /\ Released("draft", i).target # 0
      /\ Released("draft", i) # Absent /\ Released("draft", i).state = "draft"
  BY DEF RepositoryOK, Released, States, Absent
<1>4. ~ (c = "sdk" /\ v = Superseded)
  BY <1>1 DEF ReleasesOK, Absent, Released
<1>5. releases' \in [Components -> [Versions -> States]]
  BY <1>1, <1>3 DEF ReleasesOK
<1>6. \A d \in Components, w \in Versions :
        releases'[d][w] = IF d = c /\ w = v THEN Released("draft", i) ELSE releases[d][w]
  BY <1>1 DEF ReleasesOK
<1>7. ReleasesOK'
  BY <1>3, <1>4, <1>5, <1>6 DEF ReleasesOK, Components, Versions, Superseded
<1>8. RunOK'
  <2>1. sha' = sha /\ Main' = Main /\ stage' = "releasePlease" /\ retry' = retry
    BY <1>2 DEF repository, Main
  <2>2. work' \in [Components -> 0 .. MaxVersion]
    BY <1>1 DEF RunOK, Versions
  <2>3. work'["sdk"] # Superseded
    BY <1>1, <1>4 DEF RunOK, Components
  <2> QED
    BY <2>1, <2>2, <2>3 DEF RunOK, CrateStages, Stages
<1>9. WorkOK'
  <2>1. \A d \in Components : work'[d] = IF d = c THEN v ELSE work[d]
    BY <1>1 DEF RunOK
  <2>2. \A d \in Components : work'[d] # 0 => work'[d] \in Versions
    BY <2>1 DEF RunOK, Versions
  <2> QED
    BY <1>3, <1>6, <2>1, <2>2 DEF WorkOK
<1>10. PublicMeansVerified'
  BY <1>2, <1>3, <1>6 DEF PublicMeansVerified, Components, crates
<1>11. Working'
  BY <1>2 DEF Working, At, CrateStages
<1> QED
  BY <1>2, <1>7, <1>8, <1>9, <1>10, <1>11, RepositoryStays, CratesStay, BoundsStay

LEMMA TagReleaseKeeps == IInv /\ TagRelease => IInv'
<1> SUFFICES ASSUME IInv, TagRelease PROVE IInv'
  OBVIOUS
<1> USE ReleaseAssumption DEF IInv, Parts
<1>1. UNCHANGED <<commits, proposals, releases, assets, crates, run, bounds>>
  BY DEF TagRelease
<1>2. RepositoryOK'
  <2>1. PICK v \in Untagged, i \in 1 .. Main : tags' = [tags EXCEPT !["specification"][v] = i]
    BY DEF TagRelease
  <2>2. v \in Versions /\ i \in 0 .. MaxCommits /\ "specification" \in Components
    BY DEF Untagged, Merged, RunOK, RepositoryOK, Components, Versions
  <2> QED
    BY <1>1, <2>1, <2>2, TagMade
<1> QED
  BY <1>1, <1>2, ReleasesStay, CratesStay, RunStays, WorkStays, BoundsStay, PublicStays, WorkingStays
  DEF run

LEMMA PublicTags ==
  ASSUME RepositoryOK, ReleasesOK, UNCHANGED <<commits, proposals>>,
         NEW c \in Components, NEW v \in Versions, MakePublic(c, v)
  PROVE  RepositoryOK'
<1>1. releases[c][v].target \in 0 .. MaxCommits /\ tags[c][v] \in 0 .. MaxCommits
  BY DEF RepositoryOK, ReleasesOK, States
<1>2. tags' = [tags EXCEPT ![c][v] = IF tags[c][v] = 0 THEN releases[c][v].target ELSE tags[c][v]]
  BY DEF MakePublic
<1> QED
  BY <1>1, <1>2, TagMade

LEMMA UploadAssetsKeeps == IInv /\ UploadAssets => IInv'
<1> SUFFICES ASSUME IInv, UploadAssets PROVE IInv'
  OBVIOUS
<1> USE ReleaseAssumption DEF IInv, Parts
<1> DEFINE v == work["specification"]
<1>1. stage = "assets" /\ v \in Versions
      /\ UNCHANGED <<commits, proposals, crates, sha, work, bounds>>
  BY DEF UploadAssets, RunOK, Components, Versions
<1>2. CASE \E asset \in Assets \ assets[v] :
             assets' = [assets EXCEPT ![v] = @ \cup {asset}] /\ UNCHANGED <<tags, releases, stage, retry>>
  <2>1. CratesOK'
    BY <1>1, <1>2 DEF CratesOK, crates
  <2>2. PublicMeansVerified'
    BY <1>1, <1>2 DEF PublicMeansVerified, CratesOK, crates
  <2>3. UNCHANGED <<run, repository>>
    BY <1>1, <1>2 DEF run, repository
  <2> QED
    BY <1>1, <1>2, <2>1, <2>2, <2>3, RepositoryStays, ReleasesStay, RunStays, WorkStays, BoundsStay,
       WorkingStays
<1>3. CASE /\ Uploaded(v) /\ UNCHANGED assets
           /\ MakePublic("specification", v)
           /\ IF work["sdk"] # 0 THEN GoTo("candidate") ELSE GoTo("idle")
  <2>1. releases["specification"][v] \in States /\ releases["specification"][v] # Absent
    BY <1>1 DEF ReleasesOK, WorkOK, Components, Versions
  <2>2. /\ releases' \in [Components -> [Versions -> States]]
        /\ \A w \in Versions : releases'["sdk"][w] = releases["sdk"][w]
        /\ \A w \in Versions \ {v} : releases'["specification"][w] = releases["specification"][w]
        /\ releases'["specification"][v].target = releases["specification"][v].target
        /\ releases'["specification"][v].state = "public"
    BY <1>1, <1>3, <2>1 DEF MakePublic, ReleasesOK, States, Components
  <2>3. releases["specification"][v].target # 0
    BY <1>1, <2>1 DEF ReleasesOK, Components
  <2>4. releases'["specification"][v] # Absent
    BY <2>2 DEF Absent, Released
  <2>5. ReleasesOK'
    <3>1. ASSUME NEW c \in Components, NEW w \in Versions
          PROVE  releases'[c][w].target = 0 <=> releases'[c][w] = Absent
      <4>1. CASE c = "specification" /\ w = v
        BY <2>2, <2>3, <2>4, <4>1
      <4>2. CASE ~ (c = "specification" /\ w = v)
        BY <2>2, <4>2 DEF ReleasesOK, Components
      <4> QED
        BY <4>1, <4>2
    <3>2. releases'["sdk"][Superseded] = Released("draft", 1)
      BY <2>2 DEF ReleasesOK, Versions, Superseded
    <3> QED
      BY <2>2, <3>1, <3>2 DEF ReleasesOK
  <2>6. RunOK'
    BY <1>1, <1>3 DEF RunOK, RepositoryOK, Main, GoTo, Stages, CrateStages
  <2>7. WorkOK'
    BY <1>1, <2>2, <2>4 DEF WorkOK, RunOK, Components, Versions
  <2>8. PublicMeansVerified'
    BY <1>1, <1>3, <2>2 DEF PublicMeansVerified, Uploaded, crates
  <2>9. Working'
    BY <1>1, <1>3 DEF Working, RunOK, At, GoTo, CrateStages
  <2>10. RepositoryOK'
    BY <1>1, <1>3, PublicTags DEF Components
  <2> QED
    BY <1>1, <1>3, <2>5, <2>6, <2>7, <2>8, <2>9, <2>10, CratesStay, BoundsStay
<1> QED
  BY <1>2, <1>3 DEF UploadAssets

LEMMA CandidateKeeps == IInv /\ Candidate => IInv'
<1> SUFFICES ASSUME IInv, Candidate PROVE IInv'
  OBVIOUS
<1> USE ReleaseAssumption DEF IInv, Parts, Candidate, GoTo
<1>1. RepositoryOK'
  BY RepositoryStays
<1>2. ReleasesOK'
  BY ReleasesStay
<1>3. CratesOK'
  BY CratesStay DEF crates
<1>4. RunOK'
  BY DEF RunOK, RepositoryOK, repository, Main, Stages, CrateStages
<1>5. WorkOK'
  BY WorkStays DEF run
<1>6. BoundsOK'
  BY BoundsStay DEF bounds
<1>7. PublicMeansVerified'
  BY PublicStays DEF crates
<1>8. Working'
  BY DEF RunOK, Working, At, CrateStages
<1> QED
  BY <1>1, <1>2, <1>3, <1>4, <1>5, <1>6, <1>7, <1>8

LEMMA PublishKeeps == IInv /\ Publish => IInv'
<1> SUFFICES ASSUME IInv, Publish PROVE IInv'
  OBVIOUS
<1> USE ReleaseAssumption DEF IInv, Parts
<1>1. /\ stage = "publish" /\ GoTo("poll") /\ failures' \in {failures, failures + 1}
      /\ failures' # failures => failures < MaxFailures
      /\ UNCHANGED <<repository, releases, assets, visible, sha, work, reruns, hands>>
      /\ registry' \in {registry, [registry EXCEPT ![Crate] = IF @ = 0 THEN Revision ELSE @]}
      /\ uploads' \in {uploads, uploads \cup {[version |-> Crate, revision |-> Revision]}}
  BY DEF Publish
<1>2. Crate \in Versions /\ Revision \in Revisions
  <2>1. Crate \in Versions /\ releases["sdk"][Crate] # Absent
    BY <1>1 DEF RunOK, WorkOK, CrateStages, Crate, Versions, Components
  <2>2. releases["sdk"][Crate] \in States /\ releases["sdk"][Crate].target # 0
    BY <2>1 DEF ReleasesOK, Components
  <2> QED
    BY <2>1, <2>2 DEF Revision, Revisions, States
<1>3. CratesOK'
  BY <1>1, <1>2 DEF CratesOK, Versions, Revisions
<1>4. RunOK'
  BY <1>1 DEF RunOK, RepositoryOK, repository, Main, GoTo, Stages, CrateStages
<1>5. BoundsOK'
  BY <1>1 DEF BoundsOK
<1>6. PublicMeansVerified'
  BY <1>1, <1>2 DEF PublicMeansVerified, CratesOK
<1>7. Working'
  BY <1>1 DEF Working, RunOK, At, GoTo, CrateStages
<1> QED
  BY <1>1, <1>3, <1>4, <1>5, <1>6, <1>7, RepositoryStays, ReleasesStay, WorkStays

LEMMA PollKeeps == IInv /\ Poll => IInv'
<1> SUFFICES ASSUME IInv, Poll PROVE IInv'
  OBVIOUS
<1> USE ReleaseAssumption DEF IInv, Parts, Poll, GoTo, Stop, Job
<1>1. RepositoryOK'
  BY RepositoryStays
<1>2. ReleasesOK'
  BY ReleasesStay
<1>3. CratesOK'
  BY CratesStay DEF crates
<1>4. RunOK'
  BY DEF RunOK, RepositoryOK, repository, Main, Stages, CrateStages
<1>5. WorkOK'
  BY WorkStays DEF run
<1>6. BoundsOK'
  BY BoundsStay DEF bounds
<1>7. PublicMeansVerified'
  BY PublicStays DEF crates
<1>8. Working'
  BY DEF RunOK, Working, At, CrateStages, Crate, Accepted, Revision, crates
<1> QED
  BY <1>1, <1>2, <1>3, <1>4, <1>5, <1>6, <1>7, <1>8

LEMMA ReconcileKeeps == IInv /\ Reconcile => IInv'
<1> SUFFICES ASSUME IInv, Reconcile PROVE IInv'
  OBVIOUS
<1> USE ReleaseAssumption DEF IInv, Parts, Reconcile, GoTo, Stop, Job
<1>1. RepositoryOK'
  BY RepositoryStays
<1>2. ReleasesOK'
  BY ReleasesStay
<1>3. CratesOK'
  BY CratesStay DEF crates
<1>4. RunOK'
  BY DEF RunOK, RepositoryOK, repository, Main, Stages, CrateStages
<1>5. WorkOK'
  BY WorkStays DEF run
<1>6. BoundsOK'
  BY BoundsStay DEF bounds
<1>7. PublicMeansVerified'
  BY PublicStays DEF crates
<1>8. Working'
  BY DEF RunOK, Working, At, CrateStages, Crate, Accepted, Revision, crates
<1> QED
  BY <1>1, <1>2, <1>3, <1>4, <1>5, <1>6, <1>7, <1>8

LEMMA FinalizeKeeps == IInv /\ Finalize => IInv'
<1> SUFFICES ASSUME IInv, Finalize PROVE IInv'
  OBVIOUS
<1> USE ReleaseAssumption DEF IInv, Parts
<1>1. stage = "finalize" /\ UNCHANGED <<commits, proposals, assets, crates, sha, work, bounds>>
  BY DEF Finalize
<1>2. RunOK' /\ (stage' = "idle") /\ retry' \in {retry, "finalize"}
  BY <1>1 DEF Finalize, RunOK, RepositoryOK, Main, GoTo, Stop, Job, Stages, CrateStages
<1>3. CASE UNCHANGED <<tags, releases>>
  <2>1. Working'
    BY <1>1, <1>2, <1>3 DEF Working, RunOK, At, CrateStages, Crate, Accepted, Revision, crates
  <2> QED
    BY <1>1, <1>2, <1>3, <2>1, RepositoryStays, ReleasesStay, CratesStay, WorkStays, BoundsStay,
       PublicStays DEF repository
<1>4. CASE MakePublic("sdk", Crate) /\ GoTo("idle")
  <2>1. /\ Crate \in Versions /\ Crate # Superseded /\ Crate \in visible
        /\ registry[Crate] = releases["sdk"][Crate].target
        /\ releases["sdk"][Crate] # Absent
    BY <1>1 DEF RunOK, WorkOK, Working, At, CrateStages, Crate, Accepted, Revision, Versions, Components
  <2>2. releases["sdk"][Crate] \in States
    BY <2>1 DEF ReleasesOK, Components
  <2>3. /\ releases' \in [Components -> [Versions -> States]]
        /\ \A w \in Versions : releases'["specification"][w] = releases["specification"][w]
        /\ \A w \in Versions \ {Crate} : releases'["sdk"][w] = releases["sdk"][w]
        /\ releases'["sdk"][Crate].target = releases["sdk"][Crate].target
        /\ releases'["sdk"][Crate].state = "public"
    BY <1>4, <2>1, <2>2 DEF MakePublic, ReleasesOK, States, Components
  <2>4. releases["sdk"][Crate].target # 0
    BY <2>1 DEF ReleasesOK, Components
  <2>5. releases'["sdk"][Crate] # Absent
    BY <2>3 DEF Absent, Released
  <2>6. RepositoryOK'
    BY <1>1, <1>4, <2>1, PublicTags DEF Components
  <2>7. ReleasesOK'
    BY <2>1, <2>3, <2>4, <2>5 DEF ReleasesOK, Components, Versions, Superseded
  <2>8. WorkOK'
    BY <1>1, <2>1, <2>3, <2>5 DEF WorkOK, RunOK, Components, Versions, Crate
  <2>9. PublicMeansVerified'
    BY <1>1, <2>1, <2>3, <2>4 DEF PublicMeansVerified, crates, CratesOK
  <2>10. Working'
    BY <1>1, <1>4 DEF Working, RunOK, At, GoTo, CrateStages
  <2> QED
    BY <1>1, <1>2, <2>6, <2>7, <2>8, <2>9, <2>10, CratesStay, BoundsStay
<1> QED
  BY <1>3, <1>4 DEF Finalize

-----------------------------------------------------------------------------
LEMMA NextKeeps == IInv /\ [Next]_vars => IInv'
<1> SUFFICES ASSUME IInv, [Next]_vars PROVE IInv'
  OBVIOUS
<1>1. CASE UNCHANGED vars
  <2>1. UNCHANGED <<repository, commits, releases, assets, crates, run, bounds, work>>
    BY <1>1 DEF vars, repository, run
  <2> QED
    BY <2>1, RepositoryStays, ReleasesStay, CratesStay, RunStays, WorkStays, BoundsStay, PublicStays,
       WorkingStays DEF IInv, Parts
<1>2. CASE Step
  BY <1>2, DetectKeeps, DraftReleaseKeeps, TagReleaseKeeps, ProposeKeeps, UploadAssetsKeeps, CandidateKeeps,
     PublishKeeps, PollKeeps, ReconcileKeeps, FinalizeKeeps DEF Step
<1>3. CASE Interrupt \/ Push \/ StartHead \/ StartAgain \/ StartJobAgain
  BY <1>3, InterruptKeeps, PushKeeps, StartHeadKeeps, StartAgainKeeps, StartJobAgainKeeps
<1>4. CASE Land \/ Show \/ PublishByHand \/ TagByHand
  BY <1>4, LandKeeps, ShowKeeps, PublishByHandKeeps, TagByHandKeeps
<1> QED
  BY <1>1, <1>2, <1>3, <1>4 DEF Next

LEMMA Invariance == Spec => []IInv
  BY InitEstablishes, NextKeeps, PTL DEF Spec

(* Every state of the pipeline is type-correct; no run works on a release  *)
(* that is not there, and the superseded crate stays the draft that it was *)
(* (release-please.yml:114-125).                                           *)
THEOREM ReleaseTypeCorrect == Spec => []ReleaseTypeOK
<1>1. IInv => ReleaseTypeOK
  BY TypeParts DEF IInv
<1> QED
  BY <1>1, Invariance, PTL

(* Whatever fails, is started again or is published by hand: the assets of *)
(* a public release are both there, and the crate that a public release    *)
(* names is on crates.io from its revision (rust-crate-release.yml).       *)
THEOREM PublicReleasesVerified == Spec => []PublicMeansVerified
<1>1. IInv => PublicMeansVerified
  BY DEF IInv
<1> QED
  BY <1>1, Invariance, PTL
=============================================================================
