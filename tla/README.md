# Verification of Cyrene Echo

TLA+ modules for the parts of Echo that keep state and can go wrong: the life of
an evaluation run, the evaluation of an imported input, what a run measures, the
creation of resources in one and in two transactions, the way of human feedback
to Catalyst, the lists, the staging of artifacts, the Workspace scope of rows and
the migration of the database. TLC checks the modules on small instances; TLAPS
proves the main results for every value of the constants. `PROJECT.json` lists
the runs, the code each definition models (`map`), the hazards and the
properties that watch them.

    tlc -workers 2 -config MCEvaluationRuns.cfg MCEvaluationRuns.tla
    tlapm InputEvaluation_proofs.tla

Paths below are relative to `src/cyrene_echo/`.

## The system

Echo is one process: FastAPI routes (`api.py`, `lifecycle.py`) run on a pool of
threads and call one `EchoService`, which keeps everything in one SQLite file
(`store.py`) and one content-addressed artifact directory (`engine.py`). It talks
to three things it does not own: the exact-match plugin and the Exchange judge,
which evaluate records, and Catalyst, which accepts feedback. A managed
installation also tells a runtime activity broker which runs are active.

| component | state | operations | what makes it correct |
|---|---|---|---|
| Evaluation runs (`service.py` 301-428, `store.py` 262-300, 469-502, 706-757) | `run`, `result`, `gate`, `sample` rows, the idempotency ledger, the report artifact | `create_run`, `get_run`, process start | outcomes are all or nothing; a run changes once; one key gives one answer; nothing stays RUNNING |
| Inputs and their evaluation (`lifecycle.py` 81-364) | `input` rows, the lifecycle's lock | import, preview, `evaluate` | no evaluation is lost; an input links a run of its own snapshot; it is measured once without a header |
| Measurement (`plugin_evaluation.py`, `engine.py` 202-314, `service.py` 483-672) | the measurement of one run | evaluate, align, report, persist | the score follows from stored evidence; evidence is at the row's index; the report accounts for every row |
| Transactional creation (`store.py` 179-257, 398-442) | `suite`, `input` rows and their receipts | `create_workspace_suite`, `create_input`, reads | resource and receipt together or not at all; one resource per key |
| Two-step creation (`service.py` 120-170, 247-276, 880-976) | `suite`, `judge_profile`, `feedback_set` rows and receipts | save, then remember | the same, which two transactions cannot give |
| Feedback and handoff (`service.py` 814-1052, `lifecycle.py` 366-511) | `annotation`, `feedback_set`, `feedback_handoff` rows, Catalyst's preparations | annotate, create a set, export, send | one preparation per set; a confirmed handoff is final; what was exported does not change |
| Artifact plane (`engine.py` 396-454) | artifacts, the staging directory | `publish`, `publish_bytes`, `resolve` | what is published is what was passed |
| Lists (`store.py` 603-704) | none | list samples, annotations, sets | a list is all the rows of the run |
| Scope (`workspace_auth.py`, `trial_auth.py`, `store.py` 144-177, 469-704) | the owner columns of rows and receipts, the deployment's tokens | resolve a principal; save, read and replay under it | rows that hang together have one owner, who sees them |
| Migration (`store.py` 40-142) | tables, columns, the ledger's primary key, `user_version` | `EchoStore.__init__` | no row is lost; nobody serves an old schema |
| Activity broker (`runtime_activity.py`) | the broker's tasks | admit, complete, start | a RUNNING run is known to the broker |
| HTTP errors, logging, page, release tools | | | not modelled, see below |

The parts meet in few places. `evaluate` calls `create_run` while it holds the
lifecycle's lock; a plain POST of a run holds nothing. `send_feedback` calls
`export_feedback_set` under the same lock; the export routes call it without.
All rows go through one connection and the store's lock, so each method of
`EchoStore` is atomic, and nothing between two of them is. A crash keeps rows,
artifacts and what Catalyst has, and loses threads, locks and answers on the way.

What is hard: two requests between two transactions of each other; a crash
between two transactions; copies of documents that are stale when they are
saved; answers of Catalyst that come late or never; a runner that answers
something else than it was asked; uncaught exceptions past the last `except`;
a file name that two threads share; a LIMIT that counts rows of other runs; a
restart under another configuration; a migration that dies half way.

## Modules

| module | models |
|---|---|
| `EvaluationRuns` | `create_run` and process start; implements `KeyedCreate` for the runs that took effect |
| `InputEvaluation` | extends `EvaluationRuns` with `LifecycleActions.evaluate` |
| `SampleMeasurement` | rows, engine answers, evidence, report of one run |
| `KeyedCreate` | what a keyed creation promises, in one step |
| `TransactionalCreate` | the same, statement by statement; implements `KeyedCreate` |
| `TwoStepCreate` | the same, saved and remembered in two transactions; implements `KeyedCreate` up to orphans |
| `FeedbackHandoff` | annotations, feedback sets, exports, `send_feedback`, Catalyst |
| `RowWindow` | lists as windows on the rows of all runs, and the handlers that look through them |
| `ArtifactStaging` | `publish_bytes` and the staging directory |
| `WorkspaceScope` | principals, the owners of rows and receipts, restarts with other tokens |
| `SchemaMigration` | `EchoStore.__init__` on every old file |
| `MC*` | instances for TLC: key assignments, selections, symmetry |
| `*_proofs` | theorems and proofs, named after the module they are about; `InputEvaluation_proofs` also holds those about `EvaluationRuns`, `Samples_proofs` those about `SampleMeasurement` and `RowWindow` |

### EvaluationRuns

A thread is a record with the step it is about to take. The steps follow the
code: `Resolve` (the ledger lookup), `Replay`, `Admit` (the broker), `SaveRun`,
`Remember` (the ledger INSERT), `Evaluate`, `Publish`, `Commit` (`save_outcome`)
or `Fail`, `Finish`. `Escape` is an exception the `except` clause at
`service.py:362` does not name, at any step: the client gets a 500 and the run
stays as it is. `Crash` and `Restart` are the process; `Restart` is
`interrupt_running_runs` and the broker's start, before any request. `run` holds
the state and the version of each document, `evidence` counts result, gate and
sample rows, `ledger` is the idempotency table. `answered`, `created` and
`abandoned` are history: what clients were told, which command a run was saved
for, which runs lost their thread to an uncaught error.

`create_run` saves the run and binds its key in two transactions, and others may
run or the process may die between them. `KeepsPromise` says what it promises all
the same: a command without a key takes effect when its run is saved, one with a
key when the ledger names its run (`Effective`), and up to the runs that never
took effect this is the one-step `KeyedCreate`. The promise is about the answers
to a POST: GET and the lists do show a run that took no effect, and nothing is
claimed of what they show. It contains `AnswersAgree`: all 201s of a key name
one run.

Left out: `RunState.CANCELLED`, which no code writes; refusals before any state
changes; principals, which are part of a key. When the broker refuses to start,
the process ends after `interrupt_running_runs`, which is a start that dies at once.

### InputEvaluation

Adds the `input` rows, the lifecycle's lock and what the thread in `evaluate`
has read. `Begin` takes the lock and reads; `Proceed` is a step of `create_run`;
`SaveInput` writes the changed copy; `Raise` leaves without. Other threads are
plain calls of `create_run`. A key is the header's, which may be any, another
input's own key included, or the input's own `evaluation-input:<id>`. Which commands a snapshot allows is a constant
(`BodiesOf`): what rows must look like decides that, and nothing else.

### SampleMeasurement

A snapshot is a sequence of lines, each blank or a row with a sampleId and a
reference and an actual value or not. `Read` decides what the engine gets,
`AskPlugin` takes any consistent answer, `AskJudge` any verdict per row, `Align`
restores indexes, `WriteReport` compares the evidence with the rows, `Store`
keeps it. Rows are named by their line; the three numberings of the code (the
line in the file, the preview's index, the index in the file without skipped
rows) are ranks of it. The names of the state machine start with `Measurement`,
so that one module of proofs can speak of it and of `RowWindow`.

### TransactionalCreate and KeyedCreate

`TransactionalCreate` has one action per SQL statement of
`create_workspace_suite` and `create_input`: lock and BEGIN, the lookup, the
fetch of a replayed resource, two INSERTs, COMMIT or ROLLBACK. Any of them but
the ROLLBACK may fail. The open transaction's rows (`pending`) are kept apart from the database,
and a SELECT on the shared connection sees both; readers need the lock.
`KeyedCreate` creates resource and receipt in one step; the refinement mapping
is the identity on the committed tables.

### TwoStepCreate

`Resolve`, `Fetch`, `Save`, `Remember` and `Raise` are the transactions of
`create_suite` without a Workspace, `create_judge_profile` and
`create_feedback_set`. A command that loses a race, fails or dies after its save
leaves an orphan: a row without a receipt. The refinement mapping leaves orphans
out: `Kept` are the rows that have their receipt, or were created without a key
and never get one. Up to these, two transactions implement the one step of
`KeyedCreate`: no 201 names an orphan, and all 201s of a key name one resource.

### FeedbackHandoff

`Annotate`, `Find`, `SaveAnnotation` are `annotate_sample`: a read and a write in
two transactions. `Export`, `ReadSet`, `PublishRows`, `StoreExport` are
`export_feedback_set`, used by the export routes without the lock and by
`send_feedback` inside it (`Send`, `Post`, `Receive` or `GiveUp`, `SaveHandoff`).
`Accept` is Catalyst: it imports a key once and may answer after Echo stopped
waiting. An artifact is its content, a selection a set of samples. `plain` is
history: whether an export route was called. Left out: versions of annotations
and the LIMIT of lists, which are in `RowWindow`; the ledger of
`create_feedback_set`, which is in `TwoStepCreate`; `candidate_count`.

### RowWindow

`Window` is `LIMIT ? OFFSET ?` over the rows of a kind in the order of their
random ids; `ListSamples` and `ListAnnotations` filter what is left by run.
`annotate_sample` looks for an annotation in one transaction (`Find`) and saves
one in another (`SaveAnnotation`, or `Abandon` when the save raises or the process
dies); `edit` is what a thread has found, and `overlapped`, history, the samples
and reviewers for which two calls were between the two steps at once. The other
handlers that look through a window are atomic here: `PersistSamples`,
`CreateSet` with its 422s (`Refused`), with a key or without, `Export`, and a
client that pages (`StartPaging`, `NextPage`). An id is its place in the order,
and a handler takes any free one, so new rows come between old ones. The sizes of
the windows, 10000 and 1000 in the code, are constants.

### ArtifactStaging

`Open`, `Write`, `Publish` and `Unlink` are the steps of `publish_bytes`. The
staging file is named after the digest of the bytes, so publications of equal
bytes share it. `writers` tells which open handles belong to the file that has
the name: a thread whose file was unlinked goes on writing to a file without
one. The provider stores what it reads, under the digest of what it read. `met`
is history: whether another publication of the same bytes overlapped. A crash
and a failed write leave the file (`left`).

### WorkspaceScope

A row is its kind, owner and parent. A request stands for one of the principals
the deployment's tokens allow (`PublicCallers`, `PrivateCallers`); `Sees` is the
WHERE clauses of the store, for a row and the rows above it. `Finish`, `Read` and
`Save` take a principal in one transaction and save under it in a later one.
`Restart` interrupts runs of all owners and may change the deployment from one
Workspace to another or to none, over the rows of the last.

### SchemaMigration

One action per statement of `EchoStore.__init__`: `Create` for the two tables,
then the transaction `Begin`, `AddColumn`, `CreateNew`, `Copy`, `Drop`, `Rename`,
`Commit`. `disk` is the committed file, `work` the open transaction's copy,
`writer` its process. `Init` is every file an earlier version, or nobody, may
have left (`OldFiles`). Processes overlap, as a new container and the one it
replaces do. `Serve` is a keyed creation, so that there are rows to lose; `owed`
is history: every row there ever was, with its owner.

## What TLC checks

| run | instance | shows |
|---|---|---|
| `runs` | 2 threads, 2 runs, 1 key or none, 2 bodies, both kinds of fault, broker, 2 crashes | outcomes are atomic, rows change once, `KeyedCreate` is implemented, RUNNING runs are accounted for and known to the broker, and runs end; the inductive invariant holds |
| `inputs` | 2 evaluators and a plain thread, 3 runs, 2 inputs with own keys, one shared header key, 1 crash | no evaluation is lost, links are own and final, one measurement without a header |
| `measurement` | snapshots of up to 3 lines over 3 sampleIds, answers of up to 2 samples | evidence, indexes and totals, whatever the plugin answers; an honest answer is not refused |
| `create` | 3 threads, 3 ids, 2 keys, 2 bodies, failing statements, 1 crash | implements `KeyedCreate`; failures leave nothing |
| `two_step` | 3 threads, 4 ids, 2 keys, 2 bodies, failing transactions, 1 crash | implements `KeyedCreate` up to orphans; the code's assertions hold |
| `feedback` | 2 senders, 2 plain exports, an annotator, 1 set, 2 datasets, 1 crash | one preparation per set; no handoff without its preparation; receipts agree; until a plain export, exports and handoffs are final and retries match |
| `window` | 3 runs of one sample, 2 reviewers, 2 annotating threads, a set with a key or without, a paging client, windows of 2 | nothing unselected is exported; paging misses nothing; while the rows fit, repeated commands pass, exports are complete, and calls that do not overlap annotate once |
| `staging` | 3 threads, 2 byte strings, failing writes and provider, 2 crashes | who publishes alone publishes exactly; staging files are accounted for |
| `migration` | 2 processes, 2 ids, 1 key, 2 Workspaces, 2 crashes or failures | no row is lost, the schema changes at once, old files are served at last |
| `scope` | 2 threads, 4 ids, 1 key, 2 Workspaces, 1 restart | rows that hang together have one owner, who sees them |
| `handoff_reverted`, `annotation_twice` | | two disagreements, below |

Type invariants are conjuncts of the proved `Inductive` invariants (in
`InputEvaluation`, `InputTypeOK` is one of `InputInductive`'s; in
`SampleMeasurement`, `MeasurementTypeOK` is one of `MeasurementInductive`'s). They
have no run of their own. Each inductive invariant was checked by TLC on its
module's instance before it was proved.

Bounds. Ids (`Runs`, `Ids`, `AnnIds`) bound how much is created: `Submit` and
`Arrive` stop when no id is free, which is why deadlock is not checked there.
Two runs under one key, or none, let a replay, a lost race and a crash retry
happen in one behaviour. Two threads reach every interleaving of pairs of
transactions; the third thread of `create`, `two_step` and `staging` can see what
two others left, and the plain thread of `inputs` takes runs beside the lock. One
crash separates before and after; the second, in `runs`, `staging` and
`migration`, hits a process that has recovered. `MaxVersion = 3` lets two
evaluations of one input follow each other. Three lines let a blank and a
skipped row stand before an evaluated one, two samples let an answer repeat,
permute, omit and invent. In `window` three rows of a kind meet windows of two, so
that every run may be the one that is hidden; two annotating threads can overlap
or follow each other, and runs that finish push rows across the borders of the
pages. Its constraint `Apart` keeps in one state only what can meet: a client that
pages reads samples and nothing else, so it pages while nothing is annotated; two
threads annotate at once where there is no feedback set and at most two samples;
with feedback sets or three samples one annotates at a time. The proofs have no
such constraint. Four rows in `scope` are a
lineage of profile or suite, run, evidence, and one more. Symmetry is over
interchangeable threads, ids and values, and is not used with liveness.

Fairness, in the two `FairSpec` only. In `EvaluationRuns`, threads that are in a
step take one, and a process that died is started again: threads are the
operating system's, and the engines have deadlines (30 s for the plugin, 60 s per
judged record). In `SchemaMigration`, a process that can go on does
(`WF_vars(Open(p))`), which includes that the container of one that died or
raised is started again; crashes and failures are finitely many. Clients owe
nothing. `RunsTerminate` leaves out runs whose thread was lost to an uncaught
error: they stay RUNNING until a restart that need not come. `ServedAtLast`
leaves out files with a NULL in an old receipt, on which every start raises.

Every property has a mutant in `PROJECT.json`: a changed definition, kept beside
the true one under "Faulty variants", under which TLC finds it violated.

### Disagreements found

1. `handoff_reverted`. A plain export that overlaps a send stores a stale copy:
   a HANDLED_OFF set is PREPARED again (`service.py:1050`), against
   `contracts/product/v1/README.md:47-48`. `FinalAlone` is what is left of the
   promise: it holds until a plain export is called.
2. `annotation_twice`. Two first annotations of one sample by one reviewer leave
   two rows, against `contracts/product/v1/README.md:45`. `OneAnnotationWhileTheyFit`
   is what is left: while the rows fit, a second row needs two calls that overlap.

What the conditions in other properties leave out, the code does:

- Two commands with one new key at once: both save a run, the second ledger
  INSERT raises outside the `try` block (`service.py:339`), and its run is RUNNING
  with no thread. `docs/API.md:64-65` says an execution failure is a failed run.
  `RunningAccountedFor` and `RunsTerminate` allow it as `abandoned`.
- A crash between the run and its ledger row (`service.py:331`): the same key
  creates a second run. `docs/API.md:81-82` says it replays the original.
  `KeepsPromise` is about answers only. The two-step creations leave orphans in
  the same two ways; `Kept` leaves them out.
- More rows than a window, of all runs together: a second annotation of the same
  reviewer, a 404 for a sample, a 422 where a replay is promised, a candidate
  missing from an export (`store.py:644`, `service.py:902`, `service.py:1031`).
  `ReplaysPassWhileTheyFit` and `ExportIsCompleteWhileTheyFit` say that nothing
  else leads to the last two; to a second annotation overlapping calls do as well,
  as above.
- A sample index that is listed twice: `candidate_count` counts it twice
  (`service.py:1133`), the export makes one row of it and corrects the count
  (`service.py:1045`), against the docstring at `service.py:1129`, "training
  candidates that will be produced on export". No module keeps the count.
- Two publications of equal bytes at once (`engine.py:440`): the later one may
  find no file, or publish a part of the bytes under another digest.
  `AloneIsExact` is about publications that met nobody.
- A second process that starts while the first one serves interrupts the runs
  of the first, whose threads then write their outcome over FAILED
  (`service.py:102`). `EvaluationRuns` assumes that a database is served by one
  process at a time, as one container does, and no property covers two.

Two observations have no property, because no document promises otherwise: the
preview and the engines number rows differently in a text input with blank lines
(`lifecycle.py:193`, `plugin_evaluation.py:192`), and outside target-bound inputs
the plugin's sample indexes are not compared with the rows it was sent.

## What is proved

Proofs are in the eight `*_proofs` modules. They hold for all sets of threads,
ids, keys, bodies and Workspaces and any number of crashes, from the named
assumptions of the modules: sentinels such as `NoRun` are outside the sets they
stand beside, `KeysOf`, `OwnKey` and `BodiesOf` are functions on them, selections
are non-empty sets of samples, bounds are natural numbers, and different inputs
have different own keys; in `RowWindow` ids are natural numbers and windows, pages
and samples per run are positive, as the code's constants are. There is one lemma
per action, another (`NextInductive` or `NextKeeps`) collects them, and a theorem
(`InductiveInvariant` or one named after its part) is `Spec => []Inductive`; the
properties follow from it.

*EvaluationRuns.* The safety properties are not inductive alone: `Commit` keeps
outcomes atomic only because its run is RUNNING, which holds because two threads
never hold one run, which holds because a fresh id is in no row and with no
thread. `Inductive` says this for every step: `HeldRuns` (what a thread knows
about its run), `HeldOnce`, `DownIsIdle`, `RowsWellFormed`, `LedgerFollows`.

`RunsKeepPromise` shows that every step is a step of `KeyedCreate` or a stutter:
`Remember` of a keyed command and `SaveRun` of one without a key are `Create`, a
replay and a successful end are `Respond`. That a run takes effect once needs a
fact that no thread knows: each saved run has one command, recorded before the
ledger can name it (`Recorded`, of `InputEvaluation`), so a run waiting for its
key is that key's own.

*InputEvaluation.* `RunsOfEvaluations` shows that every behaviour of the
composed system is one of `EvaluationRuns`, whose theorems it therefore inherits
(`EvaluationsKeepPromise` is one).
`InputInvariant` adds that the thread with the lock is the one in `evaluate`, that
its copy is the stored document (`Locked`), and that every run a thread or the
ledger holds is recorded for its command (`Recorded`). From it follow
`LinkedRunIsOwn` and `NoEvaluationLost`. `EvaluatedOnce` and `LinkIsFinal` are proved
under `Undisturbed`: no exception escapes `create_run`, and no plain call uses a
key of an evaluation; otherwise they fail as `create_run` does. Then the
commands of one key follow each other under the lock (`SerialInductive`): each
lost its process, is worked on, or is in the ledger with a terminal run, and who
finds no row in the ledger has no surviving rival.

*TransactionalCreate.* `Inductive` relates each thread to the open transaction;
`Implementation` shows that every step is a step of `KeyedCreate` or a stutter:
COMMIT is `Create`, the response is `Respond`, a read is `Show`. `ReplayAgreement`,
`FailureIsClean` and `ReceiptsResolve` follow.

*TwoStepCreate.* A thread that waits for its receipt has an orphan that is
nobody else's (`OwnId`), and an answer about to be given is backed by a kept row
(`AnswerIsBacked`). `Implementation`: `Remember`, or a `Save` without a key, is
`Create`; other saves are stutters, since an orphan is not `Kept`.

*FeedbackHandoff.* Every import Catalyst can get has version 2, because a set is
exported from version 1 only, so a set has one import key and Catalyst prepares
it once. A sender holds the lock from its read to its receipt, so its answer and
the stored receipt agree; a set is HANDLED_OFF only by a sender that saves its
copy after Catalyst prepared that copy's artifact, and a stale export that
overwrites it makes it PREPARED. Until a plain export is called, the sender's
copy is the stored document, from which `RetriesMatch` and `ExportsAreFinal`
follow.

*ArtifactStaging.* Overlap is mutual (`MetIsMutual`); a thread that met nobody
has the file of its bytes to itself (`OwnFile`), whatever was left there before;
and every file has a thread that will unlink it or was left (`FileHasOwner`).

*WorkspaceScope.* A row's parent has its owner and the right kind (`Linked`), ids
name one row, and a thread that will save a row has the row's principal (`Held`):
it was read under that principal, and no step changes owners.

*SchemaMigration.* `WriterHolds` says who is in the transaction and which tables
are there, `WorkFollows` what each statement has made of the copy: the receipts
are in the old ledger until they are in the new table, and the new schema is
complete at COMMIT.

*SampleMeasurement.* An accepted answer is consistent: its totals are counts of
its samples (`MeasuredIsConsistent`), and no later step changes the samples but
`Align`, which changes indexes only, so the gate follows from what is stored. Past
`Align` a sample lies where its sampleId does (`AlignedInPlace`), and past the
report the samples are the rows that could be evaluated, once each
(`ReportIsOfMeasured`). The index a preview shows is the rank of a line among the
rows, so that different rows have different indexes. `HonestAnswersPass` matches
the samples of an answer with one sample for each row sent, in any order, one to
one with the rows of the same sampleId: the totals of the answer are then those of
the report, so that the comparison of totals does not turn it away.

*RowWindow.* Rows are identified by their ids and stay (`RowsIdentified`), and
what a set selected names rows (`SelectionsResolve`). While the rows of a kind are
no more than its window, fewer than that lie before any of them, so the window
shows them all; rows are only added, so the step that was taken saw them all,
too. `annotate_sample` therefore finds the reviewer's annotation when there is one.
Until it saves, the row it found stays; and when it found none, there is none
until its save unless another call for the same sample and reviewer was between
its own two steps, which `overlapped` records (`EditsHold`). A repeated
feedback-set command finds what it found before. An export takes the last of the
annotations selected for a sample, and an annotator updates the first it finds:
that these exist is shown from the well-foundedness of strict inclusion on finite
sets (`GreatestExists`, `LeastExists`). A pager that has passed an offset has seen
every due sample with fewer rows before it (`SeenSoFar`): new rows only push
samples to later places, and a page covers every place from the old offset to the
new one.

Only model-checked: liveness (`RunsTerminate`, `ServedAtLast`), since fairness and
ENABLED are beyond the provers used. Every invariant and every action property of
a passing run is a theorem. What a recursive definition computes cannot be proved
by these provers; the modules have none. The two properties that runs find
violated are of course not proved.

## Not modelled

- Parsing of judge scores, usage and prompts; limits on lengths; the layout of
  reports: data that no property tells apart.
- The broker's SDK is not in the repository; its configuration checks happen
  before there is state.
- Tokens are compared and decoded before a handler runs: a deployment is the set
  of principals its tokens stand for.
- A second process on the same database while the first one serves: the
  deployment has one. Overlapping starts are in `SchemaMigration`, because the
  migration has a transaction to order them; the interruption of runs at start
  has nothing of the kind.
- HTTP routing and errors, logging, the page: formatting. The routes that change
  state are the first actions of the modelled calls.
- Release tools: not part of the running system.

## Plan

1. An abstract life of a run (absent, running, terminal) that `EvaluationRuns`
   implements, and one of a feedback set that `FeedbackHandoff` implements until a
   plain export is called.
2. `ArtifactStaging` composed with `Publish` and `PublishRows`, so that what two
   equal exports do to each other shows in the feedback set.
