# Lumi Trace in TLA+

Lumi Trace (`src/src/lumi_trace`) is a local command-line program.  It takes one
vulnerability finding, or a SARIF report of many, and a repository; it copies the
repository, indexes it, ranks candidate locations, optionally *reproduces* the
finding by running a bounded plan in locked-down Docker containers, classifies the
evidence and publishes a package of JSON files.  Its value is that what the package
says is true.  This directory holds specifications of the parts where that is hard
to get right, the model-checking runs over small instances, and machine-checked
proofs for every instance.

Paths below are relative to `src/`; line numbers are those of the commit kept there.

## 1. Inventory

| Component | Code | State it keeps | Operations | Correct means |
|---|---|---|---|---|
| Output capture | `sandbox.py` `_SharedBudget`, `_Stream` | a shared byte total and verdict; per stream a digest, a count, retained bytes | `drain` (two threads), `reserve` (under a lock) | retained bytes within the budget, a prefix of the stream, verdict exact, threads end with their pipes |
| Container execution | `sandbox.py` `_execute_container`, `_run_and_cleanup` | the container at the daemon, the attach process, deadline, flags, the result | create, inspect, start, poll, kill, wait, join, final inspect, find, remove | the result says what happened; only an attested container runs; removal is never claimed falsely; one result comes back |
| Reproduction of a plan | `sandbox.py` `validate_reproduction_plan`, `DockerSandbox.run`, `verify_reproduction_receipt` | qualification, executed steps, status, reason codes, receipt | status, qualify, run a step, search its witnesses, recompute the identity, verify | CONFIRMED only for a complete, clean, unchanged run; the verifier accepts what `run` returns |
| Repository snapshot | `repository.py` `RepositoryWorkspace` | private copy, manifest, identity | list, hash, copy, compare, extract, rehash | the copy is the source at one instant, up to what was put back between two readings, and has the hashed identity |
| Batch triage | `triage.py` `triage_sarif`, `verify_triage_package` | completed results, result errors, staged package | import, localize each, queue, stage, verify, replace | every result accounted for once; a bad result costs only itself |
| Review queue | `triage.py` `_build_review_queue`, `review_triage_package` | the queue of paths; the reader's position | build, page | every path once, in an order the input's order does not influence; the pages add up to the queue |
| Package publication | `pipeline.py` and `triage.py`, the staging directory and `replace` | output path, staging directory | check, stage, manifest, replace | the output is absent or a whole package, at every crash; nothing of anyone else is lost |
| Evidence bundle, SARIF export | `reporting.py` | none | classify, build, verify, export | the verifier accepts what is built; a failing SARIF result is a confirmed one |
| Trace pipeline | `pipeline.py` `trace_repository` | none of its own | import, snapshot, index, rank, reproduce, bundle, publish in that order | the order, and failure before publication |
| Repository index | `indexing.py`, `python_symbols.py` | global counters of symbols and references | extract, fallback | the budgets hold across files |
| Ranking, localization | `localization.py`, `ranking.py`, `learned_ranker.py`, `builder.py` | the candidates collected so far and the truncation flag | enumerate, rank, decide, verify, project | the universe is bounded, one that does not fit is told and abstained from, the shortlist is the order of the paths by their best candidates |
| Finding import | `findings.py` | none | validate, normalise | documents out of contract are refused |
| Canonical identities | `canonical.py` | none | hash, atomic write | equal content, equal identity |
| Command line | `cli.py`, `__main__.py` | none | dispatch, exit codes | each error has its code |
| Demonstration | `demo.py` | none | prepare a fixed input | |
| GitHub Action | `tools/github_action.py`, `action.yml` | step outputs, the artifact, which steps failed | configure, run the batch, verify, decide, summarise, write outputs, upload, apply the policy | a green job and a ready package stand for a verified one, whichever write fails |
| Natural pilot and recovery | `scripts/build_v0_3_1_natural.py`, `build_v0_3_2_*.py`, `seal_v0_3_*.py`; `trace_eval` intake, runner, replay, package | catalog, acquisitions, corpus, run packages, decisions, budget | prepare, acquire, construct, baseline, diagnostic, recover, development, qualify, seal | what is run was approved before it was fetched; the qualification partition is opened once over both versions |
| Corpus of V0.4 | `scripts/build_v0_4_assurance.py`; `trace_eval/assurance.py` | plan, cards, rejections, receipts, audit, seal | plan, acquire with threads, reconsider, audit, finalize | organizations stay apart; what is sealed was audited and admitted |
| Experiments of V0.4 | `scripts/run_v0_4_experiments.py`, `run_trace_001.py`, `record_v0_4_status.py`, `seal_v0_4.py` | governed files that are written once | prepare, lock, assess, train, score, qualify, record, seal | qualification labels are read once; a model is trained under an authority that stands |
| Integrity recovery of V0.4.1 | `scripts/build_v0_4_1_integrity.py`, `train_*`, `screen_*`, `validate_*`, `qualify_*`, `seal_v0_4_1.py` | rankings, labels, models, screens, validations, evidence | prepare, acquire fresh, train, screen, validate, package, seal | sealed evidence is of the source it names and tells one story |
| Other evaluation and release scripts | `eval/`, `scripts/` | frozen corpora | replay, measure, build | reports over fixed inputs |

How they interact.  `trace_repository` calls, in one thread: snapshot, index,
localization, `DockerSandbox.run`, bundle, export, publication.  `run` calls
`_run_and_cleanup` once for the qualification and once per step; each call starts one
`docker` client process after another, and, while the container runs, two daemon
threads that share a budget with each other and two flags with the thread that polls.
The containers belong to the Docker daemon, which goes on when a client is killed.
The snapshot is private to the command, but no lock keeps other processes of the same
user out of it, or out of the repository while it is being copied, or out of the
parent of the output directory.  There is no other shared state and no network.

The research scripts beside the product are commands that an operator runs in some
order, over weeks, on directories that outlive them.  They share nothing but files:
*governed* files, which are written once (to write one again is to compare), and
packages, directories that one command makes and seals.  A command that dies leaves
what it wrote, torn or whole; the next one has to cope with it.

What is hard.

* *Two threads, one budget*: hashing, counting, reserving and retaining are separate
  steps, and the poll loop reads `exceeded` while they run.
* *Requests to the daemon*: a client that timed out tells nothing about its request.
  The daemon may have carried it out, may do so any time later, or never.
* *Three ways to stop, one verdict*: the process ends, the deadline passes, the budget
  is exceeded, in any combination between two polls.
* *Partial failure everywhere*: each of nine commands fails, hangs or raises, and
  `finally` has to remove what may exist.
* *Reading what others write*: a copy needs several passes over a changing source.
* *Failing one by one*: a batch may not lose a good result to a bad one, and a crash
  may not leave half a package.
* *Authority that goes stale*: a command is allowed by documents that others may have
  superseded, on sources that may have been edited, while labels must be opened once.
* *Evidence written in many steps*: several attempts, each of which may die, write the
  parts of one seal.

`PROJECT.json`, "hazards", lists each of these at its line, with the property that
would catch it.

## 2. Modules

| Module | Models | EXTENDS / instantiates |
|---|---|---|
| `OutputBudget` | output capture | |
| `ExecutionResult` | the record `_execute_container` returns: which combinations exist, which the receipt verifier accepts | |
| `ExecutionContract` | abstract: a call that returns one such record, once, and ends | `ExecutionResult` |
| `ContainerExecution` | one container, the daemon, the clock | `OutputBudget`, `ExecutionResult`; refines `ExecutionContract` |
| `Reproduction` | the plan, the receipt, the evidence bundle, SARIF | `ExecutionResult` |
| `Snapshot` | taking the private copy | |
| `Ordering` | sorting and filtering a sequence | |
| `Localization` | from a repository to a shortlist | `Ordering` |
| `ReviewQueue` | the review queue and its pages, as operators, with what a queue promises | `Ordering` |
| `Triage` | a batch from its report to its last page | `ReviewQueue` |
| `GithubAction` | the action around a batch | `Triage` |
| `AtomicOutput` | abstract: a package appears whole or not at all, over nothing | |
| `PackagePublish` | several commands and a user at one output path | refines `AtomicOutput` |
| `IndexBudget` | the budgets of the repository index, file by file | |
| `NaturalPilot` | the pilot of V0.3.1 and the recovery of V0.3.2 | |
| `Corpus` | the corpus of V0.4 | |
| `Qualification` | the experiments of V0.4 | |
| `Recovery` | the integrity recovery of V0.4.1 | |
| `MC*` | an instance for TLC of the module named | the module |
| `ExecutionProofs` | theorems | `ContainerExecution` (with `OutputBudget`), `Reproduction` |
| `RepositoryProofs` | theorems | `Snapshot`, `IndexBudget` |
| `LocalizationProofs` | theorems | `Localization` |
| `PublishingProofs` | theorems | `PackagePublish`, `Recovery` |
| `GithubActionProofs` | theorems | `GithubAction` (with `Triage`) |
| `AssuranceProofs` | theorems | `Qualification`, `Corpus` |
| `NaturalPilotProofs` | theorems | `NaturalPilot` |
| `InductionLemmas` | induction, sums, orders and parts of sequences, for the proofs | `Ordering` |

`Reproduction` does not contain `ContainerExecution`: it picks each container's
result from `Results`, and `ContainerExecution` is shown to return nothing else, once,
and to end (`ReturnsAResult`).  That is what keeps both small.

### OutputBudget (`sandbox.py` 500-552)

A byte is only counted.  `pipe`, `chunk`, `keep`, `digested`, `count`, `retained` are
numbers of bytes, per stream; `total` and `exceeded` are the budget's fields.  A
thread goes `read` (the blocking `read(65_536)` and the digest update) → `count` →
`reserve` (one step: the lock is held throughout) → `extend` → `read`, or `done` at
the end of the pipe.  `BufferedReader.read(n)` blocks until `n` bytes or the end of
the pipe, which `Readable` states: a chunk is whole unless it is the last.  That is
why a limit below 64 KiB is only noticed at the end (section 5, 2).

### ContainerExecution (`sandbox.py` 839-1147)

One action per command and outcome: it succeeds, it returns an error, it raises
(a timeout of `subprocess.run`, or the client cannot be started).  `container`,
`policyHeld`, `ending`, `pending` are the daemon's; `pending` holds the requests of
clients that timed out, and `LateCreate`, `LateStart`, `LateKill`, `LateRemove` carry
them out at any later time, after the call returned included.  The poll loop is three
separate reads, as in the code.  `Finish` is every way out of the `try`, with the
execution it builds; `finally` is `find` and `remove`.

Abstractions.  `_policy_attested` compares what `docker inspect` shows with the policy
field by field: here one Boolean, `policyHeld`, which the daemon chooses at creation.
The probe of `docker inspect` by name (when `create` did not tell an identity) finds a
container iff it exists.  A container name is random, so no other client's container
is in the way.  The thread that is started for a stream runs from `start` on.  One
corner is left out: a client that cannot be started for a reason the `finally` block
does not catch (`PermissionError` on the docker executable, between two commands).

### Reproduction (`sandbox.py` 119-497, 589-705, 1150-1427; `reporting.py` 30-747)

`plan` says for each step what its working directory is in the snapshot (a directory,
missing, or a path below a regular file) and which predicates it has: on the exit code,
on the output, or both; a step without one makes the plan refused.  `StatusCodes` are
the ways in which `status` finds no usable daemon, the local endpoint included.
`HostChangesSnapshot` may change the snapshot, make it unreadable or put it back, at any
time before the identity is recomputed.  A result is any member of `Results`; whether an
output predicate matches is free, an exit-code predicate compares.  The receipt has the
fields that classification and verification read, and `Verifies` has the checks that a
receipt built by `run` could fail, in its three parts (head, steps, qualification).

`BuildEvidenceBundle` puts receipt, candidate set and index summary together,
`BundleVerifies` is `verify_evidence_bundle` with its checks of the ranking, the
reproduction and the telemetry, and `ExportSarif` gives the kind and the locations of
the one result.  A bundle that the verifier rejects ends the trace in `rejected`.

Abstractions.  The checks that hold by the way a document is formatted (digests, key
sets, identities recomputed over the same bytes) and the provenance fields are left out.
A candidate set is how many candidates were considered and shown, and why it abstained.

### Snapshot (`repository.py` 340-470, 640-822)

The source is a set of *units*, each as small as its writers make necessary, each
read in one go.  A unit has a content from a small set, which another process may change
to any other, one it had before included: the code compares contents and nothing else
(`repository.py:698`, `798`).  The order of reads is left open.  A directory is listed,
hashed, copied, each copied file compared with its hash; an archive is hashed, extracted,
hashed again.  `Fails` stands for every error the code raises on the way.  Hashes are
taken to be injective.

`boundary`, `gone` and `returned` are history variables.  `returned` are the units whose
hashed content came back after the end of the hashing and before it was compared: of
those, and of no others, the code cannot tell that they changed.  `SnapshotOfOneInstant`
therefore says that all other units were copied as they were at the end of the hashing,
and hashed so; that a directory has what was hashed, in every unit; and nothing of how
the returned units fit together (section 5, 13).

### Localization (`localization.py` 595-1645, `ranking.py` 378-483)

The walk visits the files in sorted order; a repository over the bounds of files or
bytes is refused, a file is excluded, or gives a candidate of its own and one for each
of its symbols.  The current runtime (`step1`) stops collecting at one candidate over
the bound, takes note and only counts on; the historical one (`v0.4.1`) collects
everything and selects at the end, and its decision does not look at the flag.  `Rank`
orders by score, with the tie-breaks of the code; the structured ranker then brings one
candidate of each path to the front, a symbol if there is one.  `Decide` cuts at `top_k`
and abstains for want of a signal or for truncation; `VerifyRaw` and `Project` are the
two readers, each with the checks a result could fail.  `universe` is a history
variable: what would have been collected without bounds.

Abstractions.  A score is a guided part and a prior; what makes them up is arithmetic on
text.  The legacy rankers of `ranking.py` and the learned ranker, which the product
refuses to run, are left out.  `MaxUniverse` keeps TLC's repositories small.

### ReviewQueue and Triage (`triage.py`, `findings.py` 611-655)

`ReviewQueue` translates `_build_review_queue` and the paging of
`review_triage_package` as operators: the contributions of each path, the sorts with
their key tuples, ranks, and the slice after the cursor.  No two keys that are compared
are equal, so the order of `by_path`, a dict, and the stability of the sorts do not
matter, and what is sorted is a set.  `IsQueueOf` says what the queue is for without the
sorts.  Paths, and the sources that result keys are ordered by, are numbers that stand
for their order.

`Ordering` defines a sorted list by the place of each element: the n-th has n - 1 before
it.  A filter of a sequence is the positions it keeps, in order.

`Triage` is the loop around it.  Its inputs are reports: each result is `malformed`
(the import gives it no finding), `unlocalizable` (its localisation raises one of the
two exceptions the loop catches) or `fine`, with a severity and the shortlist its
localisation gives.  A shortlist has distinct paths, at most `top_k`, and none if the
localisation abstained.  `Materialise` is the workspace and the index that all results
share.  `HostChangesSnapshot` acts between localisations, since each takes a copy of
the workspace again (`localization.py:1412`): a snapshot that differs raises an
`IntegrityError`, which the loop does not catch (`LocalizeRaises`), one that cannot be
read an `InputError`, which it does.  `Verify` recomputes what the verifier
recomputes: the key of each finding and error, the accounting, the queue, the summary.

Abstractions.  A key is a record of what is hashed into it.  What the verifier checks
of the formatting of a document, and of the candidate sets, bundles and index within
it, is left out: it holds by the way they were written.  A report has at most 256
runs, so that a key always has the length its pattern asks for.  `Verify` includes the
rename; that it can fail is `PackagePublish`.  The reader may read one limit for one
page and another for the next.

### GithubAction (`tools/github_action.py`, `action.yml`)

`apc` takes a job through configuration, the batch in a process of its own (`Triage`,
whose exit code and package are all the adapter sees), verification, loading, decision,
job summary, step outputs, and then the two later steps of `action.yml`: the upload,
which runs whenever a package is ready, and the policy, which runs always.  Each write
may fail and may leave a prefix of the outputs; the handlers start over once as an
adapter error, and what fails in a handler ends the process.  `HostChanges` may edit
the package between any two steps once it is published.  The same module also lets a
user run the batch and page through it.  The wording of the summary is left out.

### AtomicOutput and PackagePublish (`pipeline.py` 127-210, `triage.py` 280-430)

Each command has a `pc` along check → work → stage → (verify) → replace → cleanup,
and a staging directory of its own, in which artifacts appear whole (`dump_json`
writes a temporary file and renames it), in any order, and the manifest last.
`Path.replace` is `rename(2)` for directories: it replaces nothing or an empty
directory, and fails over a file or anything that is not empty.  (On Windows it also
fails over an empty directory; `ReplaceFails` allows both.)  Any command may be killed
at any step and be run again; `HostCreates`, `HostAddsFile` and `HostRemoves` are the
user, or another program, at the output path.  `removed` is a history variable.

Abstractions.  A file is its name and the command that wrote it.  Killing a process
is modelled, a loss of power is not: the code does not fsync.  Staging and output are
on one file system, as `dir=output_directory.parent` makes them.  Left out: the
creation of the parent directory, and a cleanup of the staging directory that fails
after the rename (it would turn a published package into an error).

### IndexBudget (`indexing.py` 376-577, 860-980)

One step indexes or excludes one file, the first by priority and then by path.  A file
is its priority, whether it is text and Python, how many tokens and declarations it
has, and whether it is `broken`: a Python text that the scanner refuses, which keeps no
symbol, or another text with an over-long name, at which `_lexical_symbols` stops as it
does at a limit.  `token_entry_count`, `symbol_count` and `global_limit_reached` are
the code's; the record of a file keeps the numbers of its tokens and symbols.
`Verifies` is what `verify_repository_index` recomputes of them.

Abstractions.  The current profile only: the legacy AST profile keeps partial symbols.
The size of the document is within its limits or not (`Finish`); order and identity of
records, and the checks of formatting, hold by the way they are written.

Of the symbols flag one direction has an exception, which `LimitsTell` names: an
over-long name met when less than `MAX_SYMBOLS_PER_FILE` is left raises the global
flag although nothing was lost to the global budget.

### NaturalPilot (`scripts/build_v0_3_1_natural.py`, `build_v0_3_2_recovery.py`, `build_v0_3_2_capability.py`, `seal_v0_3_1.py`, `seal_v0_3_2.py`; `trace_eval` intake, runner, replay, package)

A catalog names advisories with their fix and splits repositories into two partitions.
`PrepareIntake` approves it, the acquire command takes one repository after the other
(object store, one snapshot per case, a receipt that is compared with the proposal, a
record), `Construct` makes a corpus of what is acquired.  The commands that run a
registry are processes with a step each in `doing`; `runs` and `dirs` are the packages
they leave, `facts` what their decisions say, `opened` counts how often each version
opened the qualification partition.  `EditCatalog` may change the catalog between any
two steps, since every command reads it again; `AcquireDies` and `CommandDies` end any
process anywhere.

Abstractions.  An acceptance of a case at its diff, the metrics of a run and the outcome
of a replay are free.  A package is absent, open or sealed.  The runtimes are what their
packages say.  Commands that read sealed packages only are one step.  Two acquire
commands at once are left out (each would refuse the other's directories).

### Corpus (`scripts/build_v0_4_assurance.py`, `trace_eval/assurance.py`)

Candidates, of repositories of organizations, are planned into partitions, acquired
and finalized.  Plans are extended, augmented and rebalanced between acquisitions.  An
acquisition has `Workers` threads, each with repositories of its own, whose writes
interleave: lineage, card, transitions and receipt, or a rejection.  Any of these writes
may fail: an error within the audit of a candidate is caught and becomes its rejection
(`RejectCandidate`, `build_v0_4_assurance.py:3234`), with whatever was written before it
left in place, a card included; any other error ends the thread, while the others go on
(`FailAssignment`).  A candidate that an
earlier policy rejected is proposed again under a new identity.  Finalization writes the
corpus-wide audit, rejects what nothing decided, and seals the partitions.  `Die` ends
the command between any two writes.  A write that fails is taken to leave no file.  One command runs at a time, with the plan that
supersedes the others: the code assumes both and does not check them (section 5, 10).

### Qualification (`scripts/run_v0_4_experiments.py`, `run_trace_001.py`, `record_v0_4_status.py`, `seal_v0_4.py`)

`files` has the content of every governed file, `summaries` those with a name per run.
A command reads, checks and then writes; it is one step with all its writes, or one
that dies before or inside one of them and leaves a torn file.  The qualification run
is the exception: it opens the labels (`Qualify`), and ends (`Evaluate`) or does not
(`EvaluateFails`).  `Edit` changes the training code, the feature code, or the latter
with its cache token.  A document that holds the identity of another holds the document
here.

### Recovery (`scripts/build_v0_4_1_integrity.py` and the six scripts after it)

Four processes may overlap: preparing (rank, label and score each group in a pool of
threads), validating or packaging (which run commands on the source and compare its
version before and after), and sealing (seven documents and a manifest, one by one).
The rest are single steps.  `EditSource` makes a new version at any time, and every
process may die.  `rankings`, `scores`, `models`, `screens` and `validations` are sets
of sealed documents that only grow; a manifest takes those it finds.

## 3. Runs

| Run | Bounds | Distinct states | Shows |
|---|---|---|---|
| `container_execution` | `Limit=2 ReadSize=2 MaxBytes=3` | 285 381 | every order of commands, failures, late requests, output of both threads, clock |
| `reproduction` | `MaxSteps=2 MaxConsidered=1` | 3 397 362 | every pair of results, every plan, every change to the snapshot |
| `snapshot` | 3 units, 2 contents, `MaxWrites=4` | 501 144 | every interleaving of three passes with four changes, ones that put back what was there included |
| `triage` | `MaxResults=2 Paths={1,2,3} Severities={0,1} MaxContributions=4` | 235 062 | every report of two results, run by a user who pages through it or by the action, every failing write and edit of the package |
| `triage_localization` | `MaxResults=2 Paths={1} Severities={0} MaxContributions=2` | violation | section 5, 1 |
| `package_publish` | 2 commands, 2 artifacts, 1 interruption, 2 steps of the user | 27 572 | every race of two commands, one kill, and the user for one path |
| `index_budget` | 3 files, 2 priorities, 1 or 3 tokens and declarations, limits 2 and 3 | 1 572 864 | every repository of three files |
| `localization` | 3 files, 2 symbols each, universe of 5, 3 kinds of scores; bounds of 3 files, 4 bytes, 3 candidates | 1 600 200 | every such repository, for every runtime and ranker |
| `natural_pilot` | 2 repositories, 3 advisories, 4 fixes, 1 edit | 344 348 | every order of the commands of both versions, each of which may die |
| `corpus` | 2 organizations, 3 repositories, 5 candidates, 2 threads, 2 plans, 1 death of a command or thread | 1 522 236 | every order of plans, acquisitions and finalizations, every write that fails and is caught |
| `qualification` | 2 versions of each source, 5 summaries, 1 incident | 327 742 | every order of the phases, with one edit or one death |
| `recovery` | 1 group in each partition, 1 thread, 3 prepares, 1 screen, 2 validations, 1 incident | 291 874 | every overlap of the four processes, with one edit or one death |

Why the bounds are enough.  *Container*: with a limit of 2 and chunks of 2 the budget is
exceeded by a whole chunk, by a short one, or not at all, and a chunk is granted whole,
in part and not at all, by either thread; every other variable has its full range.
*Reproduction*: two steps are a first and a last one, so a failure before, at and after
either is there; the steps have every combination of predicates.  *Snapshot*: two
contents and four changes let two units change and be put back, as when a branch is
switched to and back between the passes, beside a third that does not.  *Triage*: two results with shortlists over three paths share one
path, several or none, at equal and different ranks and severities, so every key of
the sort decides some order; `MaxContributions = 4` is exceeded by some products of
the two arguments, met exactly by others; a queue of three has pages that end before,
with and after it.  What the action does depends on how the batch ended and not on its
shortlists, so `MCInit` gives the action's batches a `top_k` of 1.
*Publication*: two commands are a winner and a loser, one kill
meets every step of either, and two steps of the user put something in the way and
take it, or a package, away.  *Index*: a file may want less or more than its own limit
(2) and than what is left of the total (3, 2, 1 or 0); three files are one that takes,
one that is cut and one that finds nothing, in any order of path and priority.
*Localization*: five candidates against a bound of three are below, at, one over and
two over it, reached in a file's first or a later symbol, or at the next file; one of the
scores is all prior and one has its signal outweighed.  *Pilot*: three advisories in two
repositories have two that share one; one edit falls between any two commands.
`EditedUpToFirstRun` stops exploring an edited catalog when the first run is done: from
there on only the partitions and the sufficiency of the corpus matter, and the catalogs
that were never edited give them all.  The fixes are symmetric: only their equality is
used.  *Corpus*: two repositories of one organization can be torn apart, two candidates
share a fix, one exceeds the limit of its repository, one was rejected before; two plans
are one that is superseded and one that supersedes it.  *Qualification*: one incident
tears any file or outdates any lock; five summaries are those of every partition and one
that is scored again.  *Recovery*: two constraints cut orders that cannot matter.
`SupplyFirstOrLast`: a supply that suffices blocks sealing for good, so it is explored
before there are rankings and after the evidence says otherwise.  `WatchingAlone`:
validating and packaging share no document with preparing, training and screening.

CHECK_DEADLOCK is FALSE where the modelled commands end, or use up their bounds, and the
system stops with them.

Fairness.  `container_execution`: the calling thread runs and the clock reaches the
deadline; every docker command in the code has a `timeout`, every `wait` and `join`
too, so no step of the thread waits for anything else.  Nothing is assumed of the
daemon, the container, the attach process or the drain threads: the call returns even
if none of them ever moves (`ReturnsAResult`).  That the joins can succeed
(`JoinsCanReturn`) is stated under the assumption that the system runs the threads,
within the property.  `triage`: the batch and its reader, or the job, go on (`JobEnds`):
one process and its caller, which wait for nothing but each other.  The other
specifications state no fairness: their commands are an operator's, who may stop.

## 4. Proofs

TLC checks the small instances; the theorems hold for every value of the constants.
All are proved from the specification and the named ASSUMEs of the modules alone.

### Execution (`ExecutionProofs`)

* *Output capture*.  That the retained bytes fit is not inductive.  `BudgetInv`
  adds what ties the shared total to the threads' private positions: `total` is the
  sum of what both streams were charged, a thread between `count` and `reserve` being
  counted but not charged; what is held is what was charged, cut at the limit; and a
  gap in a stream exists only when `exceeded` is set.  From it follow the type
  invariant (`Available` is never negative), `RetainedWithinLimit`, `VerdictExact`
  and the action property `ExtendsPrefix`.
* *Container*.  First, the drain threads take only `OutputBudget`
  steps (`StepsDrain`, `DrainsImplementBudget`), so its invariant carries over.  Then
  `ExecInv`: `PolicyInv` (only an attested container gets past `inspect`, and a start
  can be pending only then), `WatchInv` (from `join` on, the attach process has ended
  and, past it, both threads have), `JudgedInv` and `ResultInv` (what a finished
  execution records, kept stable against every late request: an exit is final, a
  removed container never comes back), `RemovalTruthful`.  The hard step is the last
  kind: after the call returned the daemon still acts, and the invariant has to say
  why nothing it can do makes the record false.  Every step is a `Return` of the
  contract or a stutter (`ImplementsContract`).
* *Reproduction*.  `ConfirmedSound` speaks of the published package, far from
  where the evidence arises.  `ReproductionInv` carries it: `LaunchedInv` (the containers
  are those of a prefix of the plan, and a witness that matched had every predicate of
  its step), `ProgressInv` (the loop is only left with its status still COMPLETED when no
  step is left), `ReceiptInv` (a COMPLETED receipt is of all steps, as executed) and
  `OutcomeInv` (package and SARIF carry the classification of the receipt).  Nothing in
  it depends on the snapshot: the host may change it at will.
* *Rejection*.  `RejectedOnlyForFlags` says that two programs agree: the one that builds
  a bundle and the one that verifies it.  `RejectInv` takes every other check of the
  verifier back to where it is earned: a step that was followed by another completed, so
  its flags are right; every witness has a check; the reasons are known codes, and one of
  them belongs to the status (`ReasonsOfStep`); the receipt has its head, its
  qualification and one cleanup for each step (`AllButFlagsVerify`).  What remains for
  the last step is what the property names.

### Repository and localization (`RepositoryProofs`, `LocalizationProofs`)

* *Snapshot*.  `GoneInv` and `ListingInv`: what was there all along
  is listed.  `HashedInv`, from the end
  of the hashing on: a unit that has its hashed content had it at that end, or got it
  back since, so it is in `returned` unless it was compared before.  `ComparedInv`: what
  was compared had its hashed content then, with the same exception, and what a directory
  copied is what it hashed.  From that, `SnapshotOfOneInstant` and `NothingStableMissed`
  for every set of units and contents and every number of changes.
* *Index*.  Neither `LimitsTell` nor `NothingStarvedByLess` is inductive.
  `IndexInv` adds `Exhausted` (a file that lost anything to a global budget left it spent,
  so whoever comes later gets nothing) and `InOrder` (files that are done have no lower
  priority than those that are not, which hold nothing yet).  `TokensKept` and
  `SymbolsKept` are the arithmetic of one file.  `IndexVerifies` compares the counts with
  sums that the verifier computes over all files: `SumsInv` carries the equality through
  each file by `SumUpdate`, and `FilesInv` the limits of each record.
* *Localization*.  `CandidatesBounded` holds by itself; that truncation is always
  told needs the link to what would have been collected: `EnumerateInv` (until the flag
  is raised, the walk holds the whole universe) and `UniverseInv` (the flag is the truth
  about it).  `RawInv` takes it through the raw result to the candidate set.  The lemma
  that does the work is `AddCandidatesInv`, the arithmetic of one file.
* *Ranking*.  `BuiltVerifies` and `ShortlistExact` are about lists, from the walk to the
  candidate set.  `OrderInv` says of each list how it came from the one before:
  candidates are collected in the order of their places, so no two are the same
  (`PlacesInv`); the ranking is all of them, sorted (`Ranking`); the raw result is its cut
  with the decision about that cut (`RawIs`), and the candidate set its projection
  (`SetIs`).  `RawResultVerifies` and `SetResultVerifies` derive every check of the two
  verifiers.  For `ShortlistExact`, a path's first candidate in the ranking is its best;
  a candidate whose path is missing is behind the last that was shown, or was cut from
  the raw result, and then as many better ones fill it.

### Publication and the action (`PublishingProofs`, `GithubActionProofs`)

* *Publication*.  Neither `OutputWhole` nor `SuccessMeansPublished` is
  inductive.  `PublishInv` adds `StagedInv` (a command at `verify` or `replace` has
  staged all its files), `OutputInv` (only a directory has entries, and each is a file
  of some command's package or the user's) and `ResultInv` (a command whose result is
  `ok` owns what is at the path or had it removed, and none has a result before it
  concluded).  From it every step of every command, the user's and the kills included,
  is a step of `AtomicOutput` or a stutter (`PublishesAtomicallyAlways`), for any
  number of commands, artifacts and kills.
* *Batch*.  `LoopInv` says where the loop stands: each result before the current one is
  in one of the two lists, once, with its own key and code, and none after it.
  `PackageInv` says that what is staged was built of the two lists and is not touched
  again.  `AccountedFor` follows.  That the second check of the contributions never fails
  (`LostOnlyForLocalization`) is a bound on a union: no more results than the report has,
  no more contributions each than `top_k`, and the import has checked the product
  (`ContributionsCounted`).  That the verifier accepts the rest is that it recomputes the
  same queue from the same list, the same keys where no localization failed, and counts
  that agree.
* *Queue and reader*.  `QueueIs` shows that what `_build_review_queue` builds is what
  `IsQueueOf` promises.  A result has one contribution to each path it names
  (`ContributionsOfPath`), so those of a path tell its severity, its count and its best
  rank (`EntryIs`, `FirstIsBest`); entries of distinct paths are strictly ordered by their
  keys (`EntriesInOrder`).  The verifier has no such check: it builds the queue again with
  the same code.  `ReaderInv` says that up to the cursor all and nothing else has been
  read, for any limits; a page that has no cursor was the last.
* *Action*.  `ActionInv` says what the decision knew (the package had verified), that what
  is reported is what was decided, and that after a write that failed the last word is
  that of the last handler that could write.  A severity below the threshold is compared
  with the findings of the package; `AccountedFor` is what makes it a statement about the
  report (`GreenMeansVerified`).
* *Recovery*.  `SupplyInv`: a plan is made of an assessment that is good, a partition is
  opened by a plan, and what is sealed says that it was not.  `WatchInv`: versions only
  grow, so a version that is the same at both ends was the same throughout.
  `SealingInv`: an attempt has one story (`OneStory`), and what it is done with is its own
  or was equal to its own, whoever wrote it; `SealedInv` is what the manifest makes of it.

### The research protocol (`AssuranceProofs`, `NaturalPilotProofs`)

* *Qualification*.  `OpenedOnce` needs `SpentInv`: a run leaves its receipt before it
  opens a label, and a receipt is never taken back.  `TrainingInv` and `LearnedInv` tie a
  checkpoint, its scores and its comparison to the gates in force, which no command
  replaces once something was trained by them; `LockInv` says of which summaries the
  qualification lock is, and that a budget is of that lock: which is why writing it again
  finds the same content (`Recoverable`).  `EvidenceInv` is the one part that speaks of
  the past: evidence of no training was written under a readiness record that refuses.
* *Corpus*.  `PlanInv` is the heart: every repository that an acquisition has begun with
  has its place in the plan, and the plan keeps organizations apart; so a plan that
  supersedes it may move only what was not touched (`SupersedeInv`).  `ThreadInv` keeps the
  workers apart and, in `Written`, says what each has written so far; `CardInv` that a card
  is of a touched repository, filed where the plan has it, and has its evidence.  A card
  does not say that its group was admitted: a write that fails after it leaves it beside
  the rejection, a death leaves it alone.  The receipt does (`AdmittedInv`: with a receipt
  there is a card and no rejection), and `FinalInv` that between the audit, which wants the
  receipt of every card, and the seal nothing is acquired.  A death, and the end of one
  thread, between any two writes keep all of them.
* *Pilot*.  `PartitionOpenedOnce` is a sum of two counters that two commands
  write months apart.  `OpenedInv` ties each to the directory of its one run;
  `RunningInv` says that baseline cannot come back to its qualification, since its first
  package stays whatever dies; `BudgetInv` that a final budget that says unused is the
  last word, and that V0.3.2 opens the partition only behind a copy of it.  Catalog and
  intake, whatever they do, leave all of it alone (`EvaluationStays`).
  `SealedBudgetStaysTrue` needs what is over for good: `BaselineEnds` (sealed
  decisions have a final budget, and baseline is idle and cannot start again),
  `QualifyEnds` (a qualification package is only of a run, a run only behind its lock) and
  `Told` (the numbers are right, and no run of the version is left to start); sealing is
  then the only step with work in it.  `EvaluatedAsGoverned` goes through `GovernedInv`: an acquisition
  has backed each case of its repository that is not left (`WorkBacked`), so a record, the
  summary and the corpus only hold cases with an approved revision and a whole snapshot
  (`IntakeBacked`, `CorpusBacked`), and nothing is run before there is a corpus
  (`CorpusFirst`).  Edits of the catalog are harmless since no step takes a revision from
  it past the comparison with the proposal.

### Induction over data (`InductionLemmas`)

The induction theorems of the library take the predicate as an operator, which the
provers cannot instantiate.  Where the predicate is a *set* it can be cited:
`LeastNatural` is derived from the well-foundedness of inclusion on finite sets, and from
it `SetInduction` (over the naturals) and `SubsetInduction` (over the subsets of a finite
set).  That is enough to unfold the recursion of the community modules that the models
use: a sum over a set is what its equation says (`SumExists`, `SumIs`, `SumUpdate`).

The community modules sort and filter by definitions that are hidden from the provers, so
the models do it with those of `Ordering`.  A relation that is a strict order on a finite
set puts 0, 1, 2... members before its members (`NthExists`, by a bijection), so a list by
these numbers is in order and complete (`OrderIs`).  `AscendingIs`, `PickIs` and `PickRest`
are what follows for numbers and for positions of a sequence.

### Assumptions

The named ASSUMEs are what the code's constants are: positive limits, finite sets of
files, paths and severities that are ordered as numbers, a case order that lists every
identity of a candidate once (`stable_id` gives a total order).  TLC evaluates each on
its instance.

Only model-checked: liveness (`JoinsCanReturn`, `JobEnds`, the ending half of
`ReturnsAResult`), since TLAPS does not reason about fairness.  Every invariant and every
action property that a run checks is a theorem.

## 5. What the models say of the code

Where the code does something else than its documents say, or something that a reader
would not expect.  The first is shown by a run of its own; the others were met while
modelling, and the model contains them: the properties are stated so that they hold of
the code as it is.

The product.

1. **One result costs the batch** (`triage_localization`).  The key of an error of
   localisation is computed with the result's finding (`triage.py:300`), the verifier
   recomputes it without one (`triage.py:661`): `batch error result key is
   inconsistent`, and the package of all the other results is gone, where
   `docs/INPUTS_AND_OUTPUTS.md:68` promises that valid results complete and exit code
   5.  No test has such a result.  `LostOnlyForLocalization` shows that a batch is
   rejected for this reason only.
2. **Both limit flags.**  The deadline stops the poll loop, the kill closes the pipe, and
   the last chunk turns out to exceed the output limit.  The execution is a `timeout`
   with `output_limit_exceeded` set (`sandbox.py:1070-1080`), and
   `verify_reproduction_receipt` refuses exactly that (`sandbox.py:380`), so the trace
   ends in an error and without a package where `docs/REPRODUCTION.md:123` promises
   `INSUFFICIENT_EVIDENCE`.  `RejectedOnlyForFlags` shows that this is the only way a
   receipt, or a bundle, of the program is refused by its own verifier.
3. **Working directory below a file.**  `resolve(strict=True)` raises
   `NotADirectoryError`, which is neither of the two exceptions caught at
   `sandbox.py:1317`: `run` raises, and `STEP_WORKDIR_INVALID` is not reported for it,
   where `docs/ARCHITECTURE.md:172-173` has structured evidence for a failed setup.
4. **Abstention by the first candidate.**  The product abstains for want of a signal if
   the *first* candidate has none, and its score may be all prior while a later one has a
   signal (`localization.py:1302-1307`); `docs/GETTING_STARTED.md:258` says that no
   signal was found.
5. **A cut before the projection.**  The raw ranking is cut at `max(1000, top_k)` before
   paths that repeat are left out.  `ShortlistExact` has the exception.

The research scripts.

6. **Training after the qualification.**  `docs/research/TRACE_001_LOCAL.md:30-37` has
   training refused unless qualification is unopened; the code looks at a readiness
   record that was written before (`run_trace_001.py:66`), and trains after it as well.
   `SealedStaysTrue` holds all the same: evidence is sealed only if training was
   authorised exactly when there is a receipt of it.
7. **A torn governed file blocks the protocol.**  `dump_json` in these scripts writes in
   place; whoever reads half a file raises, and nothing removes it.  `Recoverable`
   has the exception.
8. **A premature assessment fixes failing gates**: the record is written once.  The
   remediation path makes a second one possible only where the first passed and the
   training code has changed since.
9. **A transient failure rejects for good.**  A candidate whose fetch fails, and one that
   finalization meets undecided, is rejected in a file that is never rewritten.  And a
   card whose receipt was not written, because the command died or because that write
   failed and was caught, which leaves the card beside a rejection
   (`build_v0_4_assurance.py:3234`), leaves a corpus that cannot be finalized, though the
   queue says `"resumable": True` (`build_v0_4_assurance.py:557`).
10. **One command at a time, with the plan of the day**: rebalancing and acquisition
   assume both and check neither.  Reconsidering a candidate changes its identity and so
   its place in the case order.  Two `qualify` commands at once both find the budget
   unspent.  A cached feature record is checked by its card and maximum only, and found
   by a token that whoever edits the feature code has to change as well.
11. **Recovery.**  The screen counts a ranking without scoring labels, and compares
   models without it; an
   edit that is taken back is not noticed; packaging is done once, so that an edit after
   it blocks the seal for good, as do a ranking with other options and a supply that
   grew; a training manifest that was written from part of the groups fixes them.
12. **Pilot.**  `catalog_sha256` is recorded and never compared
   (`build_v0_3_1_natural.py:325`); splits are those of the catalog at the time of
   `construct`; a receipt is compared with what was requested of the whole repository, so
   two advisories of one repository may swap their fixes (`EvaluatedAsGoverned` is stated
   accordingly); a death inside a repository blocks that repository, as acquiring resumes
   between repositories only; integrity floors are constants, not observations.

The product again.

13. **Changed and put back.**  The copy of a directory is compared file by file with the
   hashes taken before (`repository.py:698`), an archive by its hash before and after
   (`repository.py:798`).  With two branches that are switched back and forth during the
   passes every file may match its hash although the files were never in the source
   together, and the bytes extracted from an archive may be others than those of its
   `archive_sha256` although both hashes agree.  `docs/THREAT_MODEL.md:46` promises a
   per-file comparison of directories and no more; `SnapshotOfOneInstant` has the
   exception, which is what `returned` is for.

## 6. Plan

Done, in this order: `OutputBudget` → `ContainerExecution` → `Reproduction` →
`Snapshot` → `ReviewQueue` → `Triage` → `PackagePublish` → `IndexBudget`, with proofs;
then `Localization`, `GithubAction` (which composes `Triage`), `Qualification`,
`Corpus`, `Recovery`, `NaturalPilot`, plan validation, bundle and SARIF in
`Reproduction`, and proofs of `Reproduction`, `Localization` and `NaturalPilot`.

After that the proofs of `Qualification`, `Corpus`, `Recovery`, `Triage` and
`GithubAction`, of `IndexVerifies` and of `RejectedOnlyForFlags`, with the induction lemmas
that they needed; `Corpus` has the work of a thread as a set for it, from which the next
candidate is the first in the case order.

In the end the proofs of what rests on sorting and filtering: `BuiltVerifies`,
`ShortlistExact` and `PagesAddUp`, with `Ordering` for it.

Left: `ArchiveMembers` (`repository.py`), the acceptance of members by name, kind and
size, against a reference definition of what may be extracted; composed with `Snapshot`'s
archive branch.

## 7. Not modelled

* *Text and arithmetic*: the lexical extractors, tokenising, features, scores, metrics
  and the learned rankers; validation and normalisation of SARIF, CVE and advisory
  documents; the layout of JSON and SARIF output.  They have no state; TLC adds nothing
  to tests.
* *Identities*: hashes are injective wherever modules compare them.
* *Command line and demonstration*: dispatch and messages.
* *The scripts of V0.1 to V0.3.0, packaging of releases, reports*: sequential programs
  over fixed inputs, which write what they computed.
* *The second run of one command of the research protocol at the same time*, and the
  runtime executables that their runs start: they are verified when a run starts.
* *Loss of power*, *disk corruption* and *processes of other users*.
