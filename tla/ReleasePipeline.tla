---------------------------- MODULE ReleasePipeline ----------------------------
(***************************************************************************)
(* The release workflow (.github/workflows/release-please.yml) and the     *)
(* crate release that it calls (rust-crate-release.yml).  A run looks for  *)
(* a release that an earlier one left unfinished, and asks Release Please  *)
(* for new ones only if there is none; then it publishes the release of    *)
(* the specification with its assets, and the crate on crates.io, whose    *)
(* GitHub release it makes public when the accepted crate is verified.     *)
(*                                                                         *)
(* One run works at a time.  It may stop at any step and be started again, *)
(* as a whole or from the job that failed, or be followed by the run of a  *)
(* later commit.  Release Please tags a release of the specification in a  *)
(* call of its own, the tag of a crate comes with its publication, and a   *)
(* tag that is there too early stops every run.                            *)
(*                                                                         *)
(* crates.io takes a version once, shows it later, and may take it after   *)
(* the client gave up; a version may be there already, packaged by hand    *)
(* from another revision.                                                  *)
(*                                                                         *)
(* An operator Mutant<X> is X with a plausible slip in the code.  No       *)
(* specification uses it: it replaces X when a property is shown to fail   *)
(* without what the code does.                                             *)
(***************************************************************************)
EXTENDS Integers, Sequences

CONSTANTS
  MaxCommits,   (* bounds the commits of main, which are their revisions    *)
  MaxVersion,   (* bounds the versions of each component                    *)
  MaxFailures,  (* bounds the steps that fail                               *)
  Reruns,       (* bounds the runs of older commits, started again          *)
  Hands         (* bounds the crates published and the tags made by hand    *)

ASSUME ReleaseAssumption ==
  /\ MaxCommits \in Nat \ {0} /\ MaxVersion \in Nat \ {0}
  /\ MaxFailures \in Nat /\ Reruns \in Nat /\ Hands \in Nat

Components == {"specification", "sdk"}
Versions   == 1 .. MaxVersion
Revisions  == 1 .. MaxCommits
Assets     == {"bundle", "checksum"}
Superseded == 1     (* the first candidate of the crate, a draft for ever *)
Stages == {"idle", "detect", "releasePlease", "assets", "candidate", "publish",
           "poll", "reconcile", "finalize"}

VARIABLES
  commits,    (* the manifest of each commit of main                        *)
  proposals,  (* the version that an open proposal would release            *)
  tags,       (* the commits that the tags of the versions name             *)
  releases,   (* the GitHub releases: none, draft or public, and the target *)
  assets,     (* the assets of the specification's releases                 *)
  registry,   (* the revision that crates.io has of a version               *)
  visible,    (* the versions that crates.io shows                          *)
  uploads,    (* the uploads on their way to crates.io                      *)
  stage,      (* where the run is                                           *)
  retry,      (* the job that may be started again                          *)
  sha,        (* GITHUB_SHA                                                 *)
  work,       (* the version that the run releases of each component        *)
  failures, reruns, hands

repository == <<commits, proposals, tags>>
crates     == <<registry, visible, uploads>>
run        == <<stage, retry, sha, work>>
bounds     == <<failures, reruns, hands>>
vars       == <<repository, releases, assets, crates, run, bounds>>

Main    == Len(commits)
NoWork  == [c \in Components |-> 0]
Released(state, target) == [state |-> state, target |-> target]
Absent  == Released("none", 0)

(* The repository's first crate release is a superseded draft. *)
Init ==
  /\ commits = <<[c \in Components |-> 1]>>
  /\ proposals = NoWork
  /\ tags = [c \in Components |-> [v \in Versions |->
               IF c = "specification" /\ v = 1 THEN 1 ELSE 0]]
  /\ releases = [c \in Components |-> [v \in Versions |->
                   IF v # 1 THEN Absent
                   ELSE Released(IF c = "sdk" THEN "draft" ELSE "public", 1)]]
  /\ assets = [v \in Versions |-> IF v = 1 THEN Assets ELSE {}]
  /\ registry = [v \in Versions |-> 0] /\ visible = {} /\ uploads = {}
  /\ stage = "idle" /\ retry = "none" /\ sha = 1 /\ work = NoWork
  /\ failures = 0 /\ reruns = 0 /\ hands = 0

-----------------------------------------------------------------------------
(* What happens around the runs. *)

(* A commit, perhaps the merge of a proposal, which raises the manifest.   *)
Push ==
  /\ Main < MaxCommits
  /\ \/ commits' = Append(commits, commits[Main]) /\ UNCHANGED proposals
     \/ \E c \in Components :
          /\ proposals[c] # 0
          /\ commits' = Append(commits, [commits[Main] EXCEPT ![c] = proposals[c]])
          /\ proposals' = [proposals EXCEPT ![c] = 0]
  /\ UNCHANGED <<tags, releases, assets, crates, run, bounds>>

Start(revision) ==
  /\ stage = "idle"
  /\ stage' = "detect" /\ retry' = "none"
  /\ sha' = revision /\ work' = NoWork
  /\ UNCHANGED <<repository, releases, assets, crates, failures, hands>>

StartHead == Start(Main) /\ UNCHANGED reruns

StartAgain ==
  /\ reruns < Reruns /\ reruns' = reruns + 1
  /\ \E revision \in 1 .. Main - 1 : Start(revision)

(* The failed job of the last run is started again, with the outputs of    *)
(* the jobs before it.                                                     *)
StartJobAgain ==
  /\ stage = "idle" /\ retry # "none"
  /\ reruns < Reruns /\ reruns' = reruns + 1
  /\ stage' = retry /\ retry' = "none"
  /\ UNCHANGED <<repository, releases, assets, crates, sha, work, failures, hands>>

Land ==
  /\ \E upload \in uploads :
       /\ uploads' = uploads \ {upload}
       /\ registry' = [registry EXCEPT ![upload.version] = IF @ = 0 THEN upload.revision ELSE @]
  /\ UNCHANGED <<repository, releases, assets, visible, run, bounds>>

Show ==
  /\ \E v \in Versions : registry[v] # 0 /\ v \notin visible /\ visible' = visible \cup {v}
  /\ UNCHANGED <<repository, releases, assets, registry, uploads, run, bounds>>

PublishByHand ==
  /\ hands < Hands /\ hands' = hands + 1
  /\ \E v \in Versions, revision \in 1 .. Main :
       registry[v] = 0 /\ registry' = [registry EXCEPT ![v] = revision]
  /\ UNCHANGED <<repository, releases, assets, visible, uploads, run, failures, reruns>>

(* The workflow makes the tags, but nothing keeps a person from making one. *)
TagByHand ==
  /\ hands < Hands /\ hands' = hands + 1
  /\ \E c \in Components, v \in Versions, revision \in 1 .. Main :
       tags[c][v] = 0 /\ tags' = [tags EXCEPT ![c][v] = revision]
  /\ UNCHANGED <<commits, proposals, releases, assets, crates, run, failures, reruns>>

-----------------------------------------------------------------------------
(* The job release-please. *)

(* The jobs by the stages they are at. *)
Job(at) ==
  CASE at \in {"detect", "releasePlease", "assets"} -> "detect"
    [] at \in {"publish", "poll"} -> "publish"
    [] OTHER -> at

Stop == stage' = "idle" /\ retry' = Job(stage)
GoTo(next) == stage' = next /\ UNCHANGED retry

Interrupt ==
  /\ stage # "idle" /\ failures < MaxFailures
  /\ failures' = failures + 1
  /\ Stop
  /\ UNCHANGED <<repository, releases, assets, crates, sha, work, reruns, hands>>

Version(c) == commits[sha][c]
Current(c) == releases[c][Version(c)]
Tag(c)     == tags[c][Version(c)]

MutantIgnored(c) == FALSE
(* The superseded candidate of the crate stays a draft. *)
Ignored(c) == c = "sdk" /\ Version(c) = Superseded

MutantUnfinished(c) == Current(c).state = "draft" /\ Current(c).target = sha
(* A draft whose target is this commit or an ancestor of it. *)
Unfinished(c) == Current(c).state = "draft" /\ Current(c).target <= sha /\ ~ Ignored(c)

(* A tag without a release, or, of the crate, with one that is a draft.    *)
Premature(c, v) ==
  /\ tags[c][v] # 0
  /\ releases[c][v].state \in IF c = "sdk" THEN {"none", "draft"} ELSE {"none"}

(* A draft or a published tag that this commit does not descend from, or   *)
(* the superseded candidate in another state.                              *)
Mismatched(c) ==
  IF Ignored(c) THEN Current(c).state \notin {"none", "draft"}
  ELSE \/ Current(c).state = "draft" /\ Current(c).target > sha
       \/ Current(c).state = "public" /\ Tag(c) > sha
Finished(c) == Current(c).state = "public" /\ Tag(c) = sha

NextJob(todo) ==
  IF todo["specification"] # 0 THEN GoTo("assets")
  ELSE IF todo["sdk"] # 0 THEN GoTo("candidate") ELSE GoTo("idle")

(* inspect_component, and the outputs of a recovery. *)
Detect ==
  /\ stage = "detect"
  /\ LET todo == [c \in Components |-> IF Unfinished(c) THEN Version(c) ELSE 0] IN
     IF \E c \in Components : Premature(c, Version(c)) \/ Mismatched(c) THEN Stop /\ UNCHANGED work
     ELSE IF \E c \in Components : Unfinished(c) \/ Finished(c)
     THEN work' = todo /\ NextJob(todo)
     ELSE GoTo("releasePlease") /\ work' = NoWork
  /\ UNCHANGED <<repository, releases, assets, crates, sha, bounds>>

(* Release Please works on main as it is: it drafts the releases of the    *)
(* merged proposals, one after the other, and opens proposals.  It tags    *)
(* what it drafts of the specification, before it or after it.             *)
Merged(c) ==
  {v \in Versions : releases[c][v] = Absent /\ \E i \in 1 .. Main : commits[i][c] = v}
MergedAt(c, v, i) == commits[i][c] = v /\ \A j \in 1 .. i - 1 : commits[j][c] # v

DraftRelease ==
  /\ stage = "releasePlease"
  /\ \E c \in Components : \E v \in Merged(c), i \in 1 .. Main :
       /\ MergedAt(c, v, i)
       /\ releases' = [releases EXCEPT ![c][v] = Released("draft", i)]
       /\ work' = [work EXCEPT ![c] = v]
  /\ UNCHANGED <<repository, assets, crates, stage, retry, sha, bounds>>

Untagged ==
  {v \in Merged("specification") \cup ({work["specification"]} \ {0}) : tags["specification"][v] = 0}

TagRelease ==
  /\ stage = "releasePlease"
  /\ \E v \in Untagged, i \in 1 .. Main :
       MergedAt("specification", v, i) /\ tags' = [tags EXCEPT !["specification"][v] = i]
  /\ UNCHANGED <<commits, proposals, releases, assets, crates, run, bounds>>

Propose ==
  /\ stage = "releasePlease" /\ Untagged = {} /\ \A c \in Components : Merged(c) = {}
  /\ \E open \in SUBSET {c \in Components : proposals[c] = 0 /\ commits[Main][c] < MaxVersion} :
       proposals' = [c \in Components |->
                       IF c \in open THEN commits[Main][c] + 1 ELSE proposals[c]]
  /\ NextJob(work)
  /\ UNCHANGED <<commits, tags, releases, assets, crates, sha, work, bounds>>

(* A draft is made public; with it comes its tag, if there is none.        *)
MakePublic(c, v) ==
  /\ releases' = [releases EXCEPT ![c][v].state = "public"]
  /\ tags' = [tags EXCEPT ![c][v] = IF @ = 0 THEN releases[c][v].target ELSE @]

MutantUploaded(v) == assets[v] # {}
Uploaded(v) == assets[v] = Assets

(* An asset that is there already is compared and left. *)
UploadAssets ==
  LET v == work["specification"] IN
  /\ stage = "assets"
  /\ \/ /\ \E asset \in Assets \ assets[v] : assets' = [assets EXCEPT ![v] = @ \cup {asset}]
        /\ UNCHANGED <<tags, releases, stage, retry>>
     \/ /\ Uploaded(v)
        /\ MakePublic("specification", v)
        /\ IF work["sdk"] # 0 THEN GoTo("candidate") ELSE GoTo("idle")
        /\ UNCHANGED assets
  /\ UNCHANGED <<commits, proposals, crates, sha, work, bounds>>

-----------------------------------------------------------------------------
(* The crate. *)

Crate    == work["sdk"]
Revision == releases["sdk"][Crate].target

(* The candidate is verified and packaged at the target of its release. *)
Candidate ==
  /\ stage = "candidate"
  /\ GoTo("publish")
  /\ UNCHANGED <<repository, releases, assets, crates, sha, work, bounds>>

(* The version is looked up, and published once if it is not there; the    *)
(* exit status of cargo decides nothing.                                   *)
Publish ==
  /\ stage = "publish"
  /\ GoTo("poll")
  /\ IF Crate \in visible THEN UNCHANGED <<registry, uploads, failures>>
     ELSE \/ /\ registry' = [registry EXCEPT ![Crate] = IF @ = 0 THEN Revision ELSE @]
             /\ UNCHANGED <<uploads, failures>>
          \/ /\ failures < MaxFailures /\ failures' = failures + 1
             /\ \/ uploads' = uploads \cup {[version |-> Crate, revision |-> Revision]}
                \/ UNCHANGED uploads
             /\ UNCHANGED registry
  /\ UNCHANGED <<repository, releases, assets, visible, sha, work, reruns, hands>>

(* Twenty looks, fifteen seconds apart, which may be too few. *)
Poll ==
  /\ stage = "poll"
  /\ IF Crate \in visible THEN GoTo("reconcile") ELSE Stop
  /\ UNCHANGED <<repository, releases, assets, crates, sha, work, bounds>>

MutantAccepted == TRUE
(* verify-crate-artifact: contents, checksum and revision are those of the *)
(* candidate.                                                              *)
Accepted == registry[Crate] = Revision

Reconcile ==
  /\ stage = "reconcile"
  /\ IF Accepted THEN GoTo("finalize") ELSE Stop
  /\ UNCHANGED <<repository, releases, assets, crates, sha, work, bounds>>

(* The draft is made public unless it has a tag; a release that is public  *)
(* already is left, if its tag names the candidate.                        *)
Finalize ==
  /\ stage = "finalize"
  /\ LET state == releases["sdk"][Crate].state
         tag   == tags["sdk"][Crate]
     IN CASE state = "draft" /\ tag = 0         -> MakePublic("sdk", Crate) /\ GoTo("idle")
          [] state = "public" /\ tag = Revision -> GoTo("idle") /\ UNCHANGED <<tags, releases>>
          [] OTHER                              -> Stop /\ UNCHANGED <<tags, releases>>
  /\ UNCHANGED <<commits, proposals, assets, crates, sha, work, bounds>>

-----------------------------------------------------------------------------
Step ==
  \/ Detect \/ DraftRelease \/ TagRelease \/ Propose \/ UploadAssets
  \/ Candidate \/ Publish \/ Poll \/ Reconcile \/ Finalize

Next ==
  \/ Step \/ Interrupt
  \/ Push \/ StartHead \/ StartAgain \/ StartJobAgain
  \/ Land \/ Show \/ PublishByHand \/ TagByHand

(* A run goes on while it can, crates.io shows what it has, and sooner or  *)
(* later there is a run of the last commit: it is pushed, or its run is    *)
(* started again.                                                          *)
Fairness == WF_vars(Step) /\ WF_vars(Show) /\ WF_vars(StartHead)

Spec == Init /\ [][Next]_vars /\ Fairness

-----------------------------------------------------------------------------
(* The type of the state.  A run works on releases that are there, and     *)
(* never on the superseded crate, which stays the draft that it was.       *)
ReleaseTypeOK ==
  /\ commits \in Seq([Components -> Versions]) /\ Main \in 1 .. MaxCommits
  /\ proposals \in [Components -> 0 .. MaxVersion]
  /\ tags \in [Components -> [Versions -> 0 .. MaxCommits]]
  /\ releases \in [Components -> [Versions -> [state : {"none", "draft", "public"},
                                              target : 0 .. MaxCommits]]]
  /\ assets \in [Versions -> SUBSET Assets]
  /\ registry \in [Versions -> 0 .. MaxCommits]
  /\ visible \subseteq {v \in Versions : registry[v] # 0}
  /\ uploads \subseteq [version : Versions, revision : Revisions]
  /\ stage \in Stages /\ retry \in Stages \cup {"none"} /\ sha \in 1 .. Main
  /\ work \in [Components -> 0 .. MaxVersion]
  /\ \A c \in Components :
       /\ work[c] # 0 => releases[c][work[c]] # Absent
       /\ \A v \in Versions : releases[c][v].target = 0 <=> releases[c][v] = Absent
  /\ releases["sdk"][Superseded] = Released("draft", 1) /\ work["sdk"] # Superseded
  /\ stage = "assets" => work["specification"] # 0
  /\ stage \in {"candidate", "publish", "poll", "reconcile", "finalize"} => work["sdk"] # 0
  /\ failures \in 0 .. MaxFailures /\ reruns \in 0 .. Reruns /\ hands \in 0 .. Hands

(* What is public is whole: a release of the specification has both of its *)
(* assets, and the crate of a public release is on crates.io and was       *)
(* packaged from the revision that the release names, whoever published it *)
(* and however often a run was interrupted.                                *)
PublicMeansVerified ==
  \A v \in Versions :
    /\ releases["specification"][v].state = "public" => assets[v] = Assets
    /\ releases["sdk"][v].state = "public" =>
         /\ registry[v] # 0 /\ registry[v] = releases["sdk"][v].target
         /\ v \in visible

(* A run has stopped between the tag of a specification and its draft, or  *)
(* somebody has made a tag: each run of the last commit stops at it.       *)
Blocked == stage = "idle" /\ \E c \in Components : Premature(c, commits[Main][c])

(* A release that a run leaves unfinished after its draft is finished by a *)
(* later run, of whatever commit, even when runs of older commits or       *)
(* failed jobs are started again in between: unless the manifest goes past *)
(* its version before, crates.io has the version from another revision, or *)
(* a tag blocks the runs.                                                  *)
InterruptedReleaseCompletes ==
  \A c \in Components, v \in Versions :
    releases[c][v].state = "draft" /\ ~ (c = "sdk" /\ v = Superseded) ~>
      \/ releases[c][v].state = "public"
      \/ commits[Main][c] # v
      \/ c = "sdk" /\ registry[v] \notin {0, releases[c][v].target}
      \/ Blocked
=============================================================================
