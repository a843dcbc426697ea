# Formal models of opendart

TLA+ specifications of the parts of this repository whose correctness depends
on the order of steps: interleavings, failing calls, deadlines and crashes.
They are checked by TLC on small instances, and what matters most is proved for
all parameters with TLAPS. Every definition follows the code; `PROJECT.json`
maps each to the lines it stands for, lists the hazards the properties are
aimed at, and names the runs, the mutants and the theorems.

## 1. The system

opendart is an OpenAPI description of the OpenDART service, the Go tooling that
refreshes and verifies it, a Rust SDK generated from it and a CLI over the SDK.

| Part | State | Operations | Hard behaviour |
| --- | --- | --- | --- |
| CLI artifact transaction (`opendart-cli/src/artifact/transaction.rs`) | commit authority (atomic), command channel of one slot, event channel, private staging directory, destination entry | start, enqueue, finish, commit, discard, abandon, drop; worker thread | owner and worker run concurrently; futures are dropped at a deadline; every filesystem call fails or stalls; another process takes the destination |
| CLI binary call (`artifact.rs`) | where the call is, the report | execute, stream_to_artifact, before_deadline | what is reported must agree with what was published |
| SDK client (`opendart/src/client.rs`) | chunks read so far, how the stream goes on, evidence, metadata | execute, execute_raw, execute_binary, classify_binary, poll_next | deadline against a late body; a limit met inside a chunk; consumed bytes replayed |
| Rust generator publication (`internal/sdkgen/generate.go`) | two output trees, staging and backup directories | stage, preflight, publish, roll back, clean up | failure or kill between renames; roll back fails too |
| Guide refresh (`internal/guide/sync.go`, `publish.go`) | managed entries, ownership marker, bundle, backup | sync, publish, roll back | as above, plus the marker and the derived bundle |
| Guide acquisition (`internal/guide/acquire.go`, `drift_acquire.go`) | job channel, first error, request budget | Fetch, mapConcurrent, reserve | worker pool and cancellation, retries, a shared budget |
| Live conformance (`internal/liveconformance`) | request budget, coordinates, results, report | preflight, discoveries, cases, report validation | fail closed, a listing that changes while it is read, every request counted |
| Notifiers (`internal/livenotifier`, `internal/driftnotifier`) | one GitHub issue | list, create, update | stale search index, lost responses, queued and replaced workflow runs |
| Release workflows (`.github/workflows/release-please.yml`, `rust-crate-release.yml`) | drafts, tags, registry, pull requests | propose, publish, reconcile | interruption at any step, at most one publication |
| The rest: OpenAPI tooling, SDK generator model and renderers, request and wire code, release guards, probes, command-line front ends | none, or a file written once | pure functions, sequential checks | - |

They meet in few places: the CLI binary call drives the artifact transaction
and reads the SDK's body stream; `sync` publishes what the acquisition read;
`generate-sdk` reads the sources that `sync` publishes; a notifier reads a
report that live conformance or the drift check wrote.

### What makes each part correct

* **Artifact transaction and binary call** - the destination holds the whole
  body or nothing of this call; no entry of somebody else is replaced; a call
  whose authority was revoked never publishes; the report agrees with the disk;
  nobody waits for ever, and the download keeps its deadline even when the
  filesystem does not answer.
* **The two publications** - all outputs are replaced or none; no accepted tree
  is lost, also by a kill or by a roll back that fails; nothing unowned is
  touched; a failed or killed run does not lock the next one out.
* **Acquisition** - all items or one error, all workers end, the budget is never
  exceeded.
* **Notifiers** - one issue, whatever is lost or late; a notifier that ends well
  has told what its run was; no completed run of the default branch goes without
  a notifier, with the exceptions of section 7.
* **Live conformance** - at most the budget is spent, coordinates come from
  listings that were read to their end, "passed" means that every case passed,
  and a failed report still says what failed.
* **Release** - what is public is complete and was packaged from the revision it
  names; a release that has a draft is completed by a later run, unless a tag
  that is there too early stops the runs (section 7).
* **SDK client** - the caller sees every byte of the body once and in order, or
  those that arrived and then one error; what a body is taken for does not
  depend on how it was cut into chunks.

## 2. The modules

| Module | Models |
| --- | --- |
| `AtomicPublication` | the contract of the destination name (`docs/rust-cli/public-contract.md`): a body, an authority to publish, an entry |
| `ArtifactTransaction` | `transaction.rs`: the owner with the most general client, and the worker |
| `ArtifactTransactionProperties` | its properties and the refinement of `AtomicPublication` |
| `ArtifactExecute` | `artifact.rs`: the one client there is, composed with the transaction |
| `ArtifactProofs` | the inductive invariant and theorems of the transaction, and that neither of its two waits for ever; every step of the call is a step of the transaction, so it inherits them; what the call reports is true |
| `ProductPublish`, `ProductPublishProofs` | `generate.go`: `stageProducts` to `cleanupProducts`, and the proof of its four properties for any number of products and runs |
| `GuidePublish`, `GuidePublishProofs` | `sync.go` and `publishGenerated`, and the proof of its four properties for any set of names and any number of runs |
| `GuideAcquire`, `GuideAcquireProofs` | `acquire.go`, `drift_acquire.go`: the worker pool, the attempts and the request budget, and the proof of its safety properties, and that it neither gets stuck nor goes round for ever, for any number of workers, groups and pages |
| `ClientResponse`, `ClientResponseProofs` | `client.rs`: one call from the request to the last byte of its response, and the proof that bytes arrive once and in order, that the reply fits the whole response and that the call ends, for any length of body and any cut |
| `LiveConformance`, `LiveConformanceProofs` | `preflight.go`, `discovery.go`, `run.go`, `validate.go`: the acceptance of a plan, the listings, the cases and the report, and the proof of its budget, its listings, its report and its end for any specification and plan |
| `IssueNotifier`, `IssueNotifierProofs` | `notifier.go` of both notifiers with their workflows and GitHub's queue, issues and search index, and the proof that there is one issue, and that it tells what a run was, for any number of runs |
| `ReleasePipeline`, `ReleasePipelineProofs` | `release-please.yml` and `rust-crate-release.yml` with crates.io, and the proof of what is public for any number of commits, versions and failures |
| `MC*` | one instance of each for TLC |

### ArtifactTransaction

The owner's task and the worker's thread are the two processes. The owner's
variables are where it is, the call it is in and the result of the last one; a
call is one step that begins it, one that sends its command (enabled when the
channel has room) and one that receives its event, so a dropped future can fall
between any two. `Cancel` is that drop for the two calls that borrow the
transaction, `Drop` for those that own it and for the transaction itself. The
worker's places are the filesystem calls of `run_worker` and
`StagedArtifact`, one step each; each may fail the way the code distinguishes.
`LastEvent` covers `mark_committed` and the send after it: the owner's revoke
fails in either state, so no one can see the difference. A chunk is its length:
content does not steer the code. `offered` counts the bytes of the enqueue
calls that succeeded; it is the one variable the code does not have.

What is abstracted: the four platform variants of `publish_retained` are one
atomic create-if-absent; that the published file is the retained one and not
one swapped in under its path is a property of `linkat`, outside the model. A
kill leaves what is on disk; loss of power is not modelled (the code does not
sync the file).

### ArtifactExecute

`cli` is the place in `execute` or `stream_to_artifact`. Each action that
touches the transaction conjoins an action of `ArtifactTransaction`; the
worker's own steps go on while the process runs and stop with it. The deadline
may pass at any pending enqueue or finish, the request may end in a failure, a
timeout, a source status or a body, and either report may fail to encode or to
be written.

### ProductPublish and GuidePublish

A step is one filesystem call with the bookkeeping around it. Every call may
fail, a failing `RemoveAll` may leave a torn tree, `Kill` may come between any
two calls, and the next run starts on what is there. Trees carry the number of
the run that made them, so that "the old one" and "the new one" can be told
apart over several runs. In `ProductPublish` a third party may put a tree of
its own under a free output name; Go's rename does not replace a directory, so
that makes a rename fail. `GuidePublish` has no such party: a rename replaces a
file, and the code relies on being alone in its output directory. Neither model
has two concurrent runs, which nothing in the repository allows or excludes.

### GuideAcquire

The calling goroutine (`sender`, `index`) and the workers of `mapConcurrent`
are the processes. Handing out a job is one step, because the channel has no
buffer, and stays possible when the context is done, because `select` chooses.
A worker goes through the reservation (drift checks only), the request, the
answer and the delay; an answer is accepted, breaks the contract, fails in a way
that may pass, or fails because the context is done. `sync.Once` and `cancel` are
one step: nobody can see the one without the other before the workers are
gone. `Gather` is everything from `wait.Wait` to the next `mapConcurrent` or to
the return. The extraction of the HTML is the choice between accepting and
refusing a page; the expected counts of the groups are one number; the name list
of `--only` is the number of endpoints it selects.

### ClientResponse

One process, the caller's task, against a wire that cuts the body as it likes
and may fail or pass the deadline at any read. A byte is its class (signature,
blank, `<`, other text) and is referred to by its position, so that replayed
bytes can be told from new ones. `Buffer`, `BufferBreaks` and `Interpret` are
`receive_structured`; `Sniff` to `CandidateEnds` are the three loops of
`classify_binary`; `Replay` and `Remaining` are what `BodyStream` gives the
caller. What the XML or JSON of a whole body says is chosen in advance
(`meaning`), so that it cannot depend on the chunks; the parsing itself is not
modelled.

### LiveConformance

A run is sequential; what it meets is not determined. `Inputs` are plans, of
which `Preflight` refuses most (the instance asks for pages out of order, with
gaps, twice, and before the first); a page may answer with any page number and any
total, so the listing may change between two pages. `Ask` is one request of a
discovery with everything done with its answer, `Resolve` the end of a
discovery, `RunCase` a case with its evidence and the pause after it. Every
failure goes through `FailReport`, which validates what it is about to return,
as the code does, and falls back on the sanitized report. `pages` is the one
variable that the code does not have. What a case compares is a choice between
evidence that a report may hold and evidence that it may not.

### IssueNotifier

The notifier (`pc`), GitHub's queue for a concurrency group (`pending`,
`running`) and GitHub's processing of requests (`sent`) are the actors. A
request that the notifier has given up, by its timeout or because the job was
killed, may still be processed, after any number of later notifiers. `Search`
and `Recent` are the two lists of the code, `Decide` is `notifyWith` with the
difference between the two notifiers in `kind`. External, modelled from how the
code and the workflows use it: the search index may lag behind by any amount,
the list of recent issues does not. `lateCreates`, `disturbed`, `stale` and
`displaced` record what the properties have to except.

The group of the workflow holds one notifier that runs and one that waits
(`Queue`); the job has a condition of its own (`Trusted`), and GitHub evaluates it
only when the notifier's turn comes. A workflow run dispatched on another branch
does nothing, but it completes (`Complete`, "foreign"); its notifier queues like
any other and is skipped (`SkipNotifier`). `displaced` holds the trusted runs
whose notifier made way for one that is skipped or is about an older run.

### ReleasePipeline

`stage` is the step of the run that works; the concurrency group of the workflow
lets one work at a time. `Detect` is `inspect_component` for both components and
the outputs of a recovery; `DraftRelease`, `TagRelease` and `Propose` are the
Release Please action; `UploadAssets` is one upload or the publication; `Candidate` to
`Finalize` are the jobs of the crate. `Interrupt` stops at any step; the run can
be started again from its failed job, or as a whole, or a run of another commit
follows. External: crates.io takes a version once (`registry`), shows it later
(`visible`), and may take an upload when the client has given up (`uploads`).
A commit is its number, its manifest two versions. `tags` are not part of the
releases: with `draft` and `force-tag-creation` Release Please tags a release of the
specification in a call of its own, which the model lets come before the draft or
after it; the tag of a crate comes with the publication of its draft
(`MakePublic`); a person may make one at any time (`TagByHand`). `Detect` stops at
a tag that has no release, at a draft of the crate that has one (`Premature`), and
at a release or tag of a commit that is not an ancestor (`Mismatched`).

Operators named `Mutant...` are not part of any specification; see section 6.

## 3. The runs

All pass. `CHECK_DEADLOCK FALSE` is set in all of them: a transaction, a call
and a run of a command end, and nothing has to follow; the notifiers and the
release runs stop where their bounds end.

| Run | Instance | Shows |
| --- | --- | --- |
| `artifact_transaction` | chunks of 1 or 2 bytes, budget 3, largest integer 3, 4 enqueue or finish calls | `PublishedWhole`, `RevokedUnpublished`, `AssertionsHold`, `NoClobber`, `IsAtomicPublication`; with fairness `CallsReturn`, `WorkerEnds` |
| `artifact_execute` | the same | `ReportMatchesDestination`, `CleanupTold`; with fairness `DownloadEnds`, `CallEnds` |
| `product_publish` | 2 products (the number there is), 2 runs | `PairReplaced`, `AcceptedKept`, `ForeignUntouched` |
| `guide_acquire` | 2 workers, 2 groups, up to 2 endpoints in each, 2 attempts, absolute limit 5 | `Complete`, `CauseReported`, `BudgetHolds`, `BudgetSuffices`; with fairness `AcquisitionReturns` |
| `guide_publish` | 3 names, one of them a file, 2 runs | `SourcesReplaced`, `MarkerGuards`, `SourcesKept` |
| `client_response` | all bodies of up to 5 bytes of 4 classes, cut in every way, limits 2 and 4 | `BytesOnceInOrder`, `ReplyFits` |
| `live_conformance` | 2 operations, 3 listings of 2 types, up to 2 discoveries of up to 3 pages, at most 7 requests | `ListingClosed`, `ReportTrue` |
| `issue_notifier` | either notifier, 3 runs on any branch, one notifier run again, one edit by hand | `OneIssue`, `ToldTruly` |
| `issue_notifier_ends` | 3 runs, one notifier run again | with fairness `EveryRunNotified` |
| `release_pipeline` | 4 commits, 2 versions, 2 failures, 2 jobs or runs started again, 1 crate published or tag made by hand | `PublicMeansVerified` |
| `release_pipeline_ends` | the same, 1 job or run started again | with fairness `InterruptedReleaseCompletes` |

Why the bounds suffice. A budget of 3 is met exactly, exceeded by one, and
exceeded past the largest integer by chunks of 1 and 2. Four calls fill the
one-slot channel, leave a chunk in it when the worker stops, and allow a second
finish after a cancelled one. Two runs show what a run finds after a failed or
killed one; a run keeps nothing of the one before but what is on disk. Two
products and three names give the loops a first, a middle and a last item, and
the roll back a published item in front of one that is not.

Two workers
and up to four pages let an item wait while both are busy, and one fail while
another still reads; six requests exceed the absolute limit by one. A body of
five bytes is one longer than a signature and than the larger limit; a limit of
2 is shorter than a signature, which the code has to treat apart. A discovery of
three requests reads two pages of one listing around one of another, or asks for
a page twice or with a gap, which `Preflight` refuses; seven requests are met
exactly and exceeded by the plans. Three runs give a failure, a recovery and a
failure, or a run of another branch between two that count; a notifier run again
can be an older one than the last. Four commits
hold the merges of a proposal of each component and one more; two failures
interrupt a run and the one that recovers; one run of an older commit comes in
between.

Every run has one type invariant. The others are aimed at the hazards of
`PROJECT.json`; each relates the state of one actor to that of another or to an
earlier state.

## 4. Fairness

* `FairSpec` (transaction): weak fairness of the steps that the executor takes
  by itself when a pending call can go on (`OwnerWaits`), and of the worker,
  whose thread the system schedules and whose filesystem calls return. Nothing
  makes the owner call anything.
* `PromptSpec` (binary call): weak fairness of the call alone. `DownloadEnds`
  holds although the worker may stall for ever: the deadline is a timer of the
  same executor. `CallEnds` states its own assumption, that the worker's
  calls return, because `start`, `commit` and `discard` have no deadline in
  the code.
* `GuideAcquire!FairSpec`: weak fairness of the calling goroutine and of each
  worker. Every attempt has a timeout of its own and the delay between two is a
  timer, so no step of a worker can take for ever.
* `IssueNotifier!Fairness`: GitHub starts or skips the notifier that waits, and the
  one that runs goes on or stops: a request has a timeout of thirty seconds and the
  job one of twenty minutes, so it cannot wait for ever. Nothing makes GitHub
  process a request or update its index.
* `ReleasePipeline!Fairness`: a run goes on while it can; crates.io shows what it
  has; there is a run of the last commit sooner or later, because it is pushed or
  somebody starts its run again. The last is an assumption about people: the
  workflow has no schedule. Nothing makes an upload land, a job be started again
  or a proposal be merged.
* The two publications, the client's call and the conformance run have only
  safety properties: each is a sequential program, and every wait in it has a
  timeout of its own. That the last two cannot go round for ever is proved
  without fairness, by a number that each step makes smaller (`CallAdvances`,
  `RunAdvances`).

## 5. Proofs

Checked by TLAPS for every set of positive chunk sizes, every budget, every
largest integer and every number of calls (`ConstantsAssumption`).

For the transaction, `ArtifactProofs` proves `TypeCorrect`, then that `Inv` is inductive
relative to it. `PublishedWhole` is not inductive alone, because the bytes of
the body travel: `Accounting` says where the bytes of the accepted chunks are
(in the file, in the command the worker holds, in the channel, or given up by a
worker that will not publish), `Holding` who has the commit authority at
each place of the worker, `CommitIsLast` that nothing follows a commit command,
`Publication` what is true of a worker about to publish or past it, and
`EntryForm` which entries the destination can hold. From `Inv` follow
`PublishedWholeAlways`, `RevokedUnpublishedAlways`, `AssertionsHoldAlways` and
`NoClobberAlways`. `Refinement` maps `offered` to the abstract body and the
four authority states to three, and shows each step to be a step of
`AtomicPublication` or a stutter.

For the binary call, it proves that each step of the binary call is a step of
the transaction or leaves it alone (`ExecuteIsTransaction`); the contract of the
CLI (`ExecuteKeepsContract`) follows without looking at the transaction again.
What the call reports is more than the transaction promises: it depends on what
the worker and the two channels may hold when the call is at a given place. The
inductive invariant `EInv` says so. `Staging` holds of the worker alone: when
there is a staging directory, what the ending says of its removal, and that only
a `Committed` ending has published. `Places` has a part for each stretch of the
call (`Fresh`, `Starting`, `Streaming`, `Finishing`, `Committing`, `Failed`,
`Discarding`): who owns the transaction, which command can still be in the
channel, and which one event the call can be given next, `Ready`, `Finished`,
the answer to the commit, or the ending of a worker that has stopped
(`Ending`). `Settled` adds to the two properties that a worker whose staging was
reported clean has nothing left to do. `ExecuteTypeCorrect`,
`ReportTrueToDestination` and `CleanupAlwaysTold` follow; a worker that is still
running when the report is out cannot make it false, because its authority is
revoked, the commit is done or it has stopped.

`CallsReturn` and `WorkerEnds` rest on fairness. What they need of the program is
proved: `NobodyStuck`, that while a call is pending the owner or the worker can go
on, and `StepsRunOut`, that each step the two take by themselves makes a number
smaller, so that there are finitely many between two calls. The invariant behind
the first, `Heard`, says why an owner who waits has an event, a command in the
channel, or a worker on its way to an answer; a call that was cut short after its
command was sent may leave its answer to the next one, and never takes one away.
The binary call inherits both through `ExecuteIsTransaction`. `CallNeverStuck` adds
that every place of the call is served, and that those of the download are served
without the worker, which is what `DownloadEnds` needs. How often a call enqueues
is for the body, its budget and the deadline to say, and in the model for `MaxCalls`;
no theorem is about that number.

`ProductPublishProofs` proves all four properties of `ProductPublish` for every
number of products and of runs (`ProductAssumption`). `AcceptedKept` says where
an accepted tree may be, not why it stays there; the inductive invariant `IInv`
adds that. `Custody`: while a run works, `backupOwned` tells exactly where the
tree is (in the copy, or else untouched under its name), a published output
carries the marker, and only an owned output was marked as existing. `NotYet`
and `Progress` say what each loop has not done and has done for the products
before and after the one it is at. `Report` says what the result the run is
about to return is worth: after a failure the products behind the roll back are
as they were found. There is one lemma for each action. `ForeignTreesUntouched`
is an action property and uses `Custody` of the product at hand.

`GuideAcquireProofs` proves all safety properties of `GuideAcquire`
(`AcquireAssumption`). `Complete` needs `Slots`: unless something failed, each
item sent is in its slot or in the hands of a worker, and when the workers are
gone only the first remains. `CauseReported` needs `Causes`: the context of
`mapConcurrent` is cancelled only after `firstError` is set. The budget needs
`Accounts`, which counts: requests sent plus workers about to send are at most
what was used, and that plus the workers about to reserve at most the pages
handed out, which the ceiling covers in both phases. `NobodyStuck` and
`StepsRunOut` are what `AcquisitionReturns` needs of the program: while items are
sent some worker has not left (`Attended`), and each step uses up a call of
`mapConcurrent`, or else an item, or else a step of one worker, whose attempts are
counted, and of no other.

`GuidePublishProofs` proves all four properties of `GuidePublish` for every set
of names, files among them or not, and every number of runs (`GuideAssumption`).
`Custody` says where an old entry is while a run works: still under its name, or
in the backup with a mark of it; `Progress` what the loops have done for the
names on either side of the one they are at; `Marked` in which states the
ownership marker has to be there, whole; `Untouched` that what a run has not
taken over is as it was; `Report` what the result about to be returned is worth.
`SourcesKept` needs all of them, because a roll back that fails half way leaves
the backup as the only copy.

`ClientResponseProofs` proves `ClientTypeOK` and `BytesOnceInOrder` for every
length of body and every set of limits (`ClientAssumption`). The bytes on their
way are in `replay`: `ToCome` says that its chunks are contiguous, from the byte
after the last one given to the caller to the last one received. `Wire` relates
how the raw stream goes on to how it failed, `Given` says what the caller has.
`ReplyFits` compares a decision made chunk by chunk with the whole body, of which
the call may have seen a part: `Inspected` says at each loop of `classify_binary`
which bytes were looked at and what they were, `Decided` that a result was
returned only when those bytes settle the question, so that no byte to come could
change it. `CallAdvances`: the bytes to come, the chunks kept and the places ahead
are a number that every step makes smaller.

`IssueNotifierProofs` proves `NotifierTypeOK` and `OneIssue` for every number of
runs, on whatever branch, notifiers run again and edits (`NotifierAssumption`).
That only trusted runs have a notifier at work is part of the first. Uniqueness rests on
one notifier at a time and the second list: `Creating` says that while a
notifier may still create, or waits for its creation, there is no issue but those
created late; `Counted` bounds their number by `lateCreates`; `Requests` that
what is on its way comes from this notifier or one that has given up. `ToldTruly`
adds `TInv`: `Knows` that what the notifier found in its two lists is the issue
as it stands, unless it was disturbed or the index was behind, `Tells` that the request
it waits for, once processed, leaves on the issue what its run was (`Asks`), also
when requests of older notifiers are processed in between.

`ReleasePipelineProofs` proves `ReleaseTypeOK` and `PublicMeansVerified` for
every number of commits, versions, failures and interventions
(`ReleaseAssumption`). `Working` is what the job at work has established and the
next one relies on: past `poll` the version is visible, past `reconcile` the
registry has it from the release's own target; it survives every step of the
others because crates.io never replaces a version.

`LiveConformanceProofs` proves `ConformanceTypeOK`, `ListingClosed` and
`ReportTrue` for every specification, input and limit; `ConformanceAssumption`
gives the inputs their types and nothing more, because `Preflight` finds out
what is wrong with them. The lemmas before the invariant are about `Preflight`:
what an accepted plan is (`PlanParts`, `DiscoveryParts`, `TargetParts`), that the
plan in its sorted order is still accepted (`PlansPrepared`), that a case is the
target of at most one discovery (`OneTarget`), and that the shares of the budget
add up (`BudgetParts`). In the invariant `CInv`, `SpendingOK` says that
a discovery has spent no more than the shares of those before it and the requests
it has made, and that each result is one request more. `SoFar` says of the
discovery being read what makes it closed in the end: the pages read of a listing
agree (`PagesAgree`), every page asked for was read or lies beyond the last one
(`NoneMissed`), the last one is among those that the plan asks for
(`WithinReach`), and each coordinate was on a page that was read
(`CoordinatesFound`). `SuppliedOnly`: exactly the targets of the resolved
discoveries have a coordinate. `Told`: the results are those of the first cases of
the plan, each about the listing that its coordinate came from, and until the run
is done all of them passed. `RunAdvances` gives a number, at
most the limit and the discoveries and two, that every step makes smaller.

Only model-checked: all liveness properties (`CallsReturn`, `WorkerEnds`,
`DownloadEnds`, `CallEnds`, `AcquisitionReturns`, `EveryRunNotified`,
`InterruptedReleaseCompletes`). They rest on fairness, which is out of the
prover's reach; for the first five, `NobodyStuck`, `StepsRunOut` and
`CallNeverStuck` are the part that does not rest on it. Every other property of the runs is a theorem.

## 6. Mutants

For each property `PROJECT.json` names a definition and a `Mutant` of it that
makes a plausible slip: a revoke that also takes a commit in progress back, a
byte count that wraps, an existing entry overwritten, a worker that goes on
after a failed write, a deadline that does not cover the finish, a discard that
does not ask the worker, a failed publication that is not rolled back, rollback
copies removed by the clean-up, a marker removed beside what could not be
removed, a limit checked per chunk, an error staged for the caller and lost, a
listing whose length may change, a failed case left out of the report, a second
list not taken, a draft recovered only from its own commit, a public crate whose
revision nobody compared. Some properties that guard several pieces of code have
more than one. With the mutant in place of the definition TLC finds the property
violated, so the property depends on what the code does.

## 7. Observations

The code does what its documentation says in all of this; no finding is
recorded. Some behaviours are worth knowing:

* A guide refresh that cannot finish writing the ownership marker leaves a part
  of it; every later refresh then refuses the directory. `SourcesReplaced`
  shows that this happens only in a directory with nothing in it.
* When a rollback copy cannot be removed, `generate-sdk` fails although both
  new trees are in place (outcome `leftover`).
* A guide refresh killed after its last rename leaves new sources beside the
  bundle of the old ones, until the next refresh or `bundle`.
* A notifier of a recovery reads the issue from the search index when it finds it
  there. If the index is behind, it takes a failed issue for a recovered one and
  changes nothing; the next recovery mends it. `ToldTruly` excepts this case
  (`stale`).
* A creation that GitHub processes after its notifier gave up may give a second
  issue; from then on every notifier refuses to write until a person takes the
  title or the marker from one (`OneIssue`). Closing it is not enough, because
  closed issues are listed too.
* The condition on branch and event is the job's, the concurrency group is the
  workflow's. A run dispatched on another branch queues a notifier that may take the
  one place from the notifier of a run of the default branch and is then skipped:
  nobody is told of that run until the next one. So may a notifier of an old run
  that is started again by hand. `EveryRunNotified` excepts these two (`displaced`)
  and shows that there is no third way.
* A tag without its release stops every run of the last commit. A release run
  interrupted between the tag of a specification and its draft leaves one, and a
  crate drafted by that run waits with it; so does a tag made by hand, on a draft
  of the crate too. A person has to remove the tag, or a run of an older commit,
  which looks at another version, makes the draft. `InterruptedReleaseCompletes` excepts these states (`Blocked`).
* Recovery looks at the version in the manifest. A proposal that is merged while an
  older release is still a draft passes that draft by
  (`InterruptedReleaseCompletes` excepts it with `commits[Main][c] # v`).
* A conformance run that ran out of requests at a case would name a case that has no
  result, and its report would be emptied. `ReportTrue` shows that no plan accepted
  by `Preflight` gets there.

## 8. Not modelled

Lines. The repository has about 63,000 lines of implementation, and about 50,000
of them are request and response types generated under
`src/sdk/rust/crates/opendart/src/generated/`. They hold no control flow of
their own: a record per operation and its fields. A model of them would be a
copy. Most of the rest is parsing, rendering and comparison. The models cover
the code that decides, keeps or publishes something in steps, so the share of
lines they stand for is small and will stay so.

| Part | Why not |
| --- | --- |
| Guide drift comparison and report | a pure function of two snapshots and one file written; the acquisition before it and the notifier after it are modelled |
| OpenAPI tooling, guide catalog and source generation, SDK generator model and renderers | pure functions over documents; what they write is published by the modelled publications |
| SDK requests, wire format, envelopes | parsing and encoding; the client's decisions on their results are in `ClientResponse` (`meaning`, `safe`) |
| CLI front end, repository tool front end | argument parsing and one call |
| Release and workflow guards, crate verification | sequential checks that read and refuse; where a release depends on the answer it is a guard (`Accepted`, `Mismatched`) |
| Probes and fixtures | tests |

Left out of the modelled parts:

* `ReleasePipeline`: the jobs of the workflow that dispatch checks to proposals
  and report to pull requests, which change no release; the pre-release flag; the check of the crate's
  owners; a tag that is moved or removed.
* `ProductPublish` and `GuidePublish`: two runs at the same time. Nothing
  serialises runs of these developer commands and nothing says that they may
  overlap; the third party of `ProductPublish` covers an entry put under a free
  name, not one exchanged for an accepted tree.
* `ArtifactTransaction`: loss of power, and an exchange of the staged file under
  its path.
* `LiveConformance`: an answer of status "013" that nevertheless has rows.
* `IssueNotifier`: the issues of the model are those that bear the title and the
  marker, open or closed, which the notifier never changes. An edit that takes the
  title or the marker away makes an issue invisible to the code; the edits of the
  model leave both.

What would come next: two runs of `generate-sdk` against each other; the cases of
`LiveConformance` with the assertions they make; the part of the liveness of the
notifiers and of the release that needs no fairness.
