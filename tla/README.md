# A TLA+ development of jupyter-mcp

jupyter-mcp is an MCP server that lets an agent edit and run Jupyter notebooks:
cells have names and revisions, a static dependency graph says what an edit makes
stale, runs go through one worker thread per notebook, and what a cell's outputs
are worth is stamped into its metadata.  The program is small and sequential in
each piece; what is hard is what happens between the pieces: the worker writes
back into a notebook that tools and an editor change meanwhile, stamps live in
memory, on disk and in snapshots, and interrupts and stops meet the worker at any
point.  These modules model that, TLC checks them on small instances, and TLAPS
proves the main results for all instances.

File names below are relative to `src/src/jupyter_mcp/`.

## The system

| Component | State | Operations | Hard part | Correct when |
|---|---|---|---|---|
| `OutputBuffer` (tasks.py 32-117) | `_head`, `_tail`, `_dropped`, `_pending_clear` | `add`, `clear`, `snapshot`, `last_line` | caps, coalescing and deferred clears together, messages of another cell | a snapshot is the whole output of its cell or the two ends, and says what is missing |
| `Batch`, `ExecTask`, `Executor` (tasks.py 120-236) | queue, current task, stopped flag; status and done event of each task | `submit`, `cancel_queued`, `stop`, `_loop`, `wait` | worker against tool thread | tasks run once, alone and in order, end exactly once, their waiters wake, a failed batch stops |
| `NotebookSession` (session.py 43-357) | notebook file, kernel, executor, lock, `_stopping` | `mutate`, `submit_cells`, `_run_task`, `interrupt`, `run_adhoc`, `stale_names`, `stop` | a run is two locked sections with the kernel in between; reloads | fresh means ran; an editor's save wins; runs change no source |
| `Registry` (session.py 367-416) | sessions by path | `get`, `evict`, `register_new`, `shutdown_all` | eviction during a run, idle timeout, a notebook created again | only the session of a notebook writes it, no kernel without a session, deleted notebooks stay deleted |
| `KernelSession` (kernel.py) | manager, client, epoch, `last_used` | `start`, `restart`, `shutdown`, `interrupt`, `execute` | messages of an earlier cell, replies that are late or never come, a kernel that hangs or dies | an epoch names one kernel; a run ends, with its own outputs and its own status |
| `NotebookFile` (model.py) | notebook, hash of the file, undo stack | `load`, `_ensure_names`, `save`, `disk_changed`, cell edits, `snapshot`, `undo_last` | names that clash, indices after a pop, snapshots across processes and crashes | a name identifies a cell; a change touches one cell; undo restores the last snapshot |
| dependency graph (dag.py 366-442) | none (pure) | `build_graph`, `stale_closure`, `ancestors` | last writer, wildcard imports, a cell that reads what it writes | a use is served by the latest earlier writer; the closure is complete |
| source analysis (dag.py 1-363) | none (pure) | `analyze_source` | the scoping rules of Python, in the order of evaluation | no dependency is missed and none invented, but for named blind spots |
| `Summarizer` (summaries.py) | summaries in cell metadata, `_disabled_reason` | `refresh`, `summarize_outputs` | the notebook changes while the LLM answers | what is shown describes what is there |
| tools (server.py) | none of their own | one function per MCP tool | check a condition, then act on it | as their docstrings say |
| condense.py, errors.py | none | formatting, exception classes | - | not modelled |

The tool functions of the server are synchronous and run one at a time: there is
one tool thread.  It shares the notebook with the executor thread of the session
under `NotebookSession._lock`, and the queue under `Executor._cond`.  The executor
owns the kernel connection.  Outside the program are the editor that has the same
file open, the kernel process, and the LLM.

## The modules

**Session** - one notebook session around the freshness stamps.  `mem`, `disk`
and `sync` are `nbfile.nb`, the file, and the content `_disk_sha` was taken of; a
notebook is a source and a stamp per cell.  Every section under `_lock` is an
action: `Mutate`, `RejectedMutation`, `UndoLast`, `SubmitCells`, and the run of a
task as `Dequeue`, `SkipTask` or `VoidStamp` (first locked section),
`EnsureStarted`, `SendRequest`, `KernelReplies`, `WriteBack` (second locked
section).  Around them an editor opens and saves (old) copies, the kernel dies or
is expired, and the server process is replaced.  `ranOk` and `lastRun` are history:
what the kernel has really run.  A rev is a hash of the source, so the source
stands for it.

**TaskLifecycle** and **TaskExecutor** - the promise about tasks and the executor
that keeps it. The promise: a batch goes whole behind what waits (`Submit`), the
first that waits starts when nothing runs (`Start`) and ends (`End`), all that waits
may be dropped (`Drop`) or the executor stopped for good (`Stop`), and every task
that waits is over in the end. `_queue` is what waits, the worker's local variable
`task` what runs (it has the task longer than `_current`), a set `done` event what
is over. TaskExecutor cuts the worker and the tool thread at every point where the
other can step in: between `popleft` and `_run_task`, around both calls that make
sure there is a kernel, between the clearing of `_current` and `done.set()`, between
reading the activity, cancelling the queue and signalling the kernel in
`interrupt()`, and between the three steps of `stop()`. Of the kernel it keeps
whether this session has started a process that nobody has shut down.
`KeepsLifecycle` is the refinement, liveness included.

**NotebookGraph** and **BuildGraph** - what the dependency graph is (by
position, declaratively), and the loops of `build_graph` and `stale_closure`, one
action per iteration, with the explicit stack and an arbitrary order of children.

**Staleness** - `stale_names()` with the fingerprint of a cell's providers,
the run tool in its two forms, edits and reorderings, and what the variables of
the kernel hold, told by the cell and the source that computed them.  A run chooses
its cells (`RunStale`, `RunCells`, into `wanted`) before `submit_cells` takes the
lock (`Submit`, or `Refuse`); the worker steps in between.  It builds on
NotebookGraph; the stamps' life across reloads is Session's, the queue's detail is
TaskExecutor's.

**OutputBuffer** and **Execute** - the methods of the buffer against a log of
everything written, and `execute()` as the client that fills it: `Call` (with
`ensure_started`), `Read` for every kind of iopub message, `Silence` (the timeout
on silence), `Drain`, `Reply`.  The kernel at the other end is modelled from how
the code uses it: it takes requests in order (`Begin`), prints, clears, raises,
hangs and dies, lets an interrupt through or swallows it, and sends a reply before
its idle status.  `made` is the history of what the cell at work printed, `lost`
the cells that ran into a timeout on the present kernel.

**Registry** - the sessions by path, the tool thread (`tpc`, `target`) with `get`
in its four cases, `evict` and the rest of `stop()`, `register_new`,
`shutdown_all`, and one worker per session cut at its two checks of `_stopping`
and at both calls of `ensure_started`.  Users delete and create the files.

**NotebookFile** - the cells of one notebook as a sequence, with names, the file,
the hash it was last seen with, the snapshot directory and `_undo_stack`.  A name
is a record of a base, which ends in no number of its own, and the numbers
`_ensure_names` appended to it ("load-2" is "load" with 2, so a file may also come
with that name); a snapshot's name is a time, which may be any: clocks go back.
Every tool that changes cells is an action with its snapshot and its save.  Servers restart and crash within
`undo_last`.

**Python** and **SourceAnalysis** - what running a piece of code does to names (the
reference, written from the language), and the visitor of `analyze_source` rule by
rule.  A cell is a tree of nodes; `Runs` is the set of its executions (branches
taken or not, loops run never, once or twice, exceptions after any statement of a
`try`), `Visit` the single walk over it.  `Complete` and `Exact` compare the two.
Only here the modules use recursive operators, so nothing is proved about them.

**Summaries** - one overview or summarize call with its LLM requests, while
runs end and an editor saves.

**SessionProofs**, **TaskExecutorProofs**, **BuildGraphProofs**,
**StalenessProofs**, **ExecuteProofs** (with the lemmas on OutputBuffer),
**SummariesProofs**, **RegistryProofs** and **NotebookFileProofs** hold the
theorems, the `MC*` modules the small instances.  An operator marked as a mutant is a plausible slip of the code: put in place of the
definition below it, it breaks a property.

## What is checked

| Run | Instance and bounds | Shows |
|---|---|---|
| `fresh` (MCSession_fresh.cfg) | 1 cell, 2 sources, 3 edits, 2 runs, 2 kernel starts, 2 snapshots; old editor copies and failing saves | `FreshRan`, `EditorWins`, `OnlyReloadsRevive`, `OnlyFailedSavesLinger` |
| `lingers` (MCSession_lingers.cfg) | as `fresh` | `RunsKeepSources` fails |
| `revived` (MCSession_revived.cfg) | 1 cell, 3 edits, saves that do not fail | `VoidStaysVoid` fails |
| `executor` (MCTaskExecutor.cfg) | a batch of two cells, one of one, an inspection; the first cell never ends by itself | `DoneIsSettled`, `DoneIsFinal`, `FailFast`, `NotRunMeansNotSent`, `NeverOversleeps`, `KeepsLifecycle`, `WorkerEnds` |
| `graph` (MCBuildGraph.cfg) | all notebooks of 3 cells over 2 variables | `ParentsRight`, `EdgesGoDown`, `ClosureRight` |
| `staleness` (MCStaleness.cfg) | 3 cells (load, clean, plot), 2 sources each, 3 variables of which one may have two writers, 2 batches at a time | `CalmInputsCurrent`, `RunFreshens` |
| `run_alone` (MCStaleness_alone.cfg) | 2 cells, 1 batch at a time | `EditsReachDependents` fails |
| `outputs` (MCExecute.cfg) | 2 cells one after the other, 1 stream and rich outputs, messages of 1 or 4 characters, 6 in all, 1 output kept at each end, the kernel 1 message ahead | `KeepsEnds`, `OwnOutputs`, `OwnOutcome`, `EndsUnlessPrinting`, `InterruptEnds` |
| `summaries` (MCSummaries.cfg) | 2 cells, 2 sources, 2 outputs, 2 edits, 2 runs | `SummaryDescribes`, `OutSummaryDescribes`, `EditsSurviveCall` |
| `notebook` (MCNotebookFile.cfg) | up to 3 cells, 3 names, 2 files that come unnamed or with a name twice, 4 calls of which 1 edits, 2 snapshots kept of 4 possible times | `NamesIdentify`, `UndoIsStack`, `ChangesOneCell` |
| `registry` (MCRegistry.cfg) | 2 notebooks, 3 sessions | `OnlyOwnersWrite`, `KernelsOwned`, `NeverResurrected` |
| `analysis` (MCSourceAnalysis.cfg) | all cells of one statement over 2 variables and a builtin, with bodies and expressions up to two deep, and all of two statements with one level less | `Complete`, `Exact` |

Why the bounds suffice.  A stamp goes wrong through one cell's history, so one
cell with two sources is the interesting case of `fresh`; three edits allow
"away, back, and away again", two kernel starts an old and a new epoch.  A second
cell matters where a batch has order, which is the business of `executor` and
`staleness`; the theorems on Session are for any number of cells.  In `executor` two batches make a
queue that is longer than the batch at work, and the inspection is the task
without a write-back.  Three cells are the first notebook with a chain and a
diamond through two variables, and with a wildcard import before and after a
writer.  The caps of `outputs` are small enough that both overflow between two
clears, and two cells are what it takes for a late message of one to meet the other; a
kernel that is further ahead only has longer channels.  In `registry` the third
session is the second one of a notebook, next to another notebook's.  In
`notebook` one edit among four calls leaves room for a snapshot, an undo, a crash
and a restart around it; more snapshots than are kept make the pruning happen.
In `analysis` the second statement is the one that is served, hidden or left
without by the first.  Deadlock is not checked where the system may really stop:
all bounds used up and nothing queued.

Symmetry is used over sources (`fresh`, `lingers`, `revived`), sources and
outputs (`summaries`), variables (`graph`) and paths (`registry`): the modules
only compare these for equality.  No run with a liveness property uses it.

Run `staleness` has the state constraint `Calm`: its properties speak about what
happens until this kernel is first disturbed, and every undisturbed state is
reached by undisturbed steps or by a new kernel, so nothing is lost.

### Fairness

TaskExecutor and Execute state fairness.  In TaskExecutor, `WF_vars(WorkerStep)`:
the worker thread is scheduled, and, for cells outside `Endless`, the kernel
answers in the end (`execute` has a timeout on silence and every status path
leaves its loop).  An endless cell, one that prints for ever, ends only by an
interrupt that meets it or with its kernel, and nobody is obliged to interrupt it:
the liveness properties are conditional on `EndlessEnd`, that no endless cell keeps
the worker for ever.
`WF_vars(ToolGoesOn)`: a tool call that has begun goes on; its steps do not block.
Tool calls themselves (`ToolCall`) need never come.

In Execute, `WF_vars(Client)`: the worker thread is scheduled, and its reads of
the channels return or run into their timeouts.  `WF_vars(Begin)`: a kernel that
is alive and free takes the next request.  `WF_vars(Heed)`: a cell that lets an
interrupt through ends.  Nothing else of the kernel is fair: it may hang, print
for ever or never answer, and `EndsUnlessPrinting` holds all the same.  No strong
fairness is assumed anywhere.

## What the failing runs say about the code

- `revived`: `_run_task` voids the old stamp in memory only (session.py 297-298).
  Whatever reloads the file before the write-back has saved, stamp included, brings
  it back: a mutation that is rejected during the run, a tool that reads, or the
  write-back itself when an editor has saved; and it is popped again only if the
  cell's source is still the one that ran (319-326).  If not, and the source is
  changed back, the cell reads as fresh although its last attempt failed or is not
  what the stamp says.  `OnlyReloadsRevive` says that there is no other way.
- `lingers`: `save()` in `mutate` is outside the `try` that reloads the notebook
  (session.py 100), although the comment there (96-98) promises that a failed
  mutation "can't linger in memory and get persisted by the next operation".  An
  edit whose save fails is reported as an error, stays in memory and is persisted
  by the next run.  `OnlyFailedSavesLinger` says that nothing else lingers.
- `run_alone`: the fingerprint says who provides a variable, not what was
  provided.  Edit a cell, run only that cell (or let the rest of the batch be
  skipped or cancelled), and its dependents read as fresh with the old value.

The other runs pass, but some of their properties name an exception, and each of
those is behaviour of the code worth knowing:

- While a kernel is starting, `interrupt()` finds no process to signal but reports
  the cell as interrupted; the cell then runs.  `InterruptEnds` speaks of signals
  that meet the cell.
- `_run_task` looks at `_stopping` when it begins (session.py 273) and again before
  the write-back, and `ensure_started()` is in between.  A session stopped there,
  because its notebook was deleted or the server ends, shuts down the kernel it
  has, and the worker starts another that nobody shuts down before the process ends
  (`late`).
- `create_notebook` over a notebook whose file was deleted replaces the session in
  the registry without stopping it (session.py 408): its kernel goes on, a run of
  it may still write into the new file, and the notebook may have two kernels
  (`overwritten`).
- The shell reply is not matched with its request (kernel.py 286): after a timeout
  the late reply of the cell that was given up on can turn the next cell into an
  error, and every reply after it comes one cell late (`lost`).  `OwnOutcome` says
  how far this goes: no cell becomes ok by it, and the error is always one that an
  earlier cell raised.
- A reply of the LLM about sources is filed under the revs the cells have by then
  (summaries.py 165).  If a write-back reloaded the notebook meanwhile, a cell that
  the reload changed has a summary of its old source that reads as current
  (`overtaken`).  `SummaryDescribes` says that the other cells of the request and
  all other edits are safe.
- Snapshots are named by the local clock (model.py 315).  If it goes back, or two
  snapshots fall into one millisecond, undo_last goes back in the order of names,
  and the second replaces the first (`steady`).
- What a cell read is judged by who writes the variable above it, not by what the
  kernel holds.  If two cells write `x`, one above and one below a cell that reads
  it, and only the reader is edited after a full run, a default run recomputes it
  alone, with the `x` of the cell below, and it reads as fresh.  `CalmInputsCurrent`
  therefore speaks of the variables that one cell alone writes (`Sole`); without
  that condition TLC finds this behaviour in `staleness`, for `z`.
- The analysis has blind spots; the properties list them (below).

### What the source analysis does not see

`Complete` and `Exact` hold for all cells of the instance but for these names, and
none of the exceptions can be left out:

- `r.skipped`: what only a block binds that this run did not enter.  The visitor
  takes blocks as entered.
- `InnerNames`: what a scope inside a function binds counts as bound in all of the
  function (`_free_names` has one set for both).
- `Unvisited`: names read by the type of an exception handler, and by the defaults
  of a function inside a function.
- `ClassNames`: a class body runs at once but is analyzed as if it ran later, and
  names it binds may count as the cell's.
- `HiddenNames`: the variable of a comprehension and the name of a handler, which
  are gone when those end.
- `Deleted`: after `del` the name is looked for in other cells, where Python
  raises.

Two more are part of the reference because the code means them so: builtins never
count as used, even where an earlier cell binds one, and changes of objects inside
functions are not writes.  Left out of the model: magics, annotations, several
generators in one comprehension, `match`, f-strings, `nonlocal`, and `global`, which the
visitor passes over: what a function assigns through it is not a write.

## What is proved

For all values of the constants that satisfy the modules' assumptions:

| Theorem | Says |
|---|---|
| Session `TypeCorrect` | types |
| Session `FreshCellsRan` | `FreshRan` |
| Session `EditorNeverOverwritten` | `EditorWins` |
| Session `RunsPersistOnlyLingering` | `OnlyFailedSavesLinger` |
| Session `StampsAreOfLatest` | `OnlyReloadsRevive` |
| TaskExecutor `TypeCorrect` | types |
| TaskExecutor `WaitersFindSettled`, `OutcomesAreFinal` | `DoneIsSettled`, `DoneIsFinal` |
| TaskExecutor `NotRunNeverSent` | `NotRunMeansNotSent` |
| TaskExecutor `BatchesFailFast` | `FailFast` |
| TaskExecutor `WakeUpsArrive` | `NeverOversleeps` |
| TaskExecutor `WorkerAdvances` | each step of the worker leaves it less to do; only a submission or a stop gives it more |
| TaskExecutor `ImplementsLifecycle` | every step is one of TaskLifecycle or a stutter: whole batches, in order, one task at a time, none after a stop |
| Registry `TypeCorrect` | types |
| Registry `KernelsHaveOwners` | `KernelsOwned` |
| Registry `OnlyOwnersWriteFiles`, `NotebooksStayDeleted` | `OnlyOwnersWrite`, `NeverResurrected` |
| BuildGraph `TypeCorrect` | types |
| BuildGraph `PassFindsParents`, `DependenciesGoDown` | `ParentsRight`, `EdgesGoDown` |
| BuildGraph `ClosureIsReach` | `ClosureRight` |
| BuildGraph `SearchEnds` | each step of the search brings its end nearer |
| Staleness `TypeCorrect` | types |
| Staleness `RunsFreshen` | `RunFreshens` |
| Staleness `FreshIsCurrent` | `CalmInputsCurrent` |
| Execute `TypeCorrect` | types |
| Execute `BufferKeepsEnds` | `KeepsEnds` |
| Execute `OutputsAreOwn`, `OutcomeIsOwn` | `OwnOutputs`, `OwnOutcome` |
| Execute `ClientAdvances` | each step of `execute()` brings its end nearer; only the kernel's messages and the next call put it off |
| Summaries `TypeCorrect` | types |
| Summaries `ShownIsTrue`, `OutShownIsTrue` | `SummaryDescribes`, `OutSummaryDescribes` |
| Summaries `EditsWin` | `EditsSurviveCall` |
| NotebookFile `TypeCorrect` | types; no more than `MaxSnapshots` snapshots |
| NotebookFile `NamesAreUnique` | `NamesIdentify` |
| NotebookFile `UndoGoesBack` | `UndoIsStack` |
| NotebookFile `ChangesAreLocal` | `ChangesOneCell` |

The assumptions on the constants ask for no more than shape: finitely many cells,
numbers for the bounds and caps (tails and the slack at least 1, as in the code),
special values that are none of the ordinary ones, names for what callers and
`_auto_name` come up with, notebooks for what an editor saves.  No theorem has
a hypothesis of its own: saves may fail, editors may hold old copies and reloads
may come at any time in all of them.

*Fresh cells ran.*  `FreshRan` speaks of the notebook in memory, but a stamp may
come back from the file, the undo stack or an editor's old copy.  The invariant
(`StampsEarned`) therefore says of every copy there is: a stamp with the live
kernel's epoch names a source that ran ok on it, and no stamp has a future epoch;
`ReplyEarned` says that an "ok" waiting to be written back was earned on the
kernel that is alive.  A new kernel empties `ranOk` but also takes a new epoch, so
every stamp becomes an old one.

*Latest.*  A voided stamp is still in the file, so "a fresh cell is one whose latest
attempt was ok" is not an invariant: `revived` breaks it.  What holds is about steps:
a stamp in memory stops telling of the latest attempt (`StampIsLatest`) only in a
step that reads it back from the file.  Every other step keeps a stamp, drops it, or
writes the one just earned: `ReplyIsLatest` says that what the write-back is about to
stamp is the outcome of the latest attempt.  The theorem also needs `StampsEarned`:
no stamp is of an epoch still to come, so a new kernel makes none current.

*Lingering.*  `OnlyFailedSavesLinger` goes by cases on the steps.  All but a mutation
leave memory with the sources last read or written (`sync`), if it had them; a
mutation does too when its save succeeds.  A write-back keeps what a reload brought in, so
what it changes in the file is what had lingered in memory.

*Executor.*  `ExecInv` ties the worker's program counter to its task, the
queue and the task's status: a queued task is "queued" and not done, a done task
has its outcome.  `FailFast` needs in addition that a batch's tasks wait in order,
that whatever comes before the task at work is over (`OrderInv`), and that a
failure is noted in the batch before the next task is looked at.  For the refinement
it is enough that a new task is nowhere yet and that the worker takes one only when
it has none.

*Progress.*  Liveness is out of the prover's reach, but what it rests on besides
fairness is not: the worker is never asleep while there is something to do
(`WakeUpsArrive`), and three natural numbers go down with every step of the worker,
of `execute()` and of the search in `stale_closure` (`WorkLeft`, `ReadsLeft`,
`SearchLeft`).  A task counts for its queue place and for how far the worker is with
it; a call for the messages it has not read and its loops; a search for the cells it
has not seen, each of which may push every other, and for its stack.

*Graph.*  What the pass remembers for each variable is the latest writer above
the cell it is at, or nothing; so the provider it finds is the one NotebookGraph
defines, and it lies above the cell.

*Closure.*  `SearchInv` says of every moment of the search in `stale_closure`: what
is in the result is reached from the changed cells, and a cell whose children were
looked at has all of them in the result.  When the stack is empty the result is a
set that contains the changed cells and that no edge leads out of, and it lies in
what they reach, so it is that: the order the stack is emptied in plays no part.

*Staleness.*  `QueueInv` describes the tasks of a default run on an undisturbed
kernel: they carry the sources the cells have, a batch has behind each cell all
that use what it writes (`FollowInv`: the stale set is closed under dependencies
and in document order), what a cell uses was computed, is running or is before it
in the batch (`LeadInv`), and what is in no batch is fresh (`RestInv`).  Between the
choice of the stale cells and their submission the worker may make chosen cells fresh
and others stale, for a task that begins voids its stamp; what stays true is
`WantedInv`: the choice is still closed under dependencies, what serves it from
outside is computed or in the kernel, and what is neither chosen nor fresh is queued.
So a cell
that ends ok has stamped the providers it will be compared with, and when the last
one ends nothing is stale.  `RunFreshens` needs no more than that.  That the stamps
also tell the truth about values takes two facts more: a cell's stamp says which
run left the variables it writes in the kernel (`ValueInv`), and the stamped
dependencies of a cell not in the queue say what it has read (`SeenInv`).
`ValueInv` is where a second writer breaks the argument, for the variable that has it
and no other.

*Output buffer.*  `Keeps` relates head, tail and count to the log of everything
said since the last clear: the head is its first outputs, the tail its last ones,
the count what lies between.  Each of the buffer's steps (join a stream message,
fill the head, push through the tail, cap a text) has its lemma.

*Execute.*  That a buffer has the cell's own outputs only speaks of the future:
what is still on the way will fill it.  `Replays` states that the messages in the
channel, those of other cells left out, turn what the buffer has been given into
what the cell at work has printed (`made`).  It holds through clears, timeouts and late
messages because `OrderInv` keeps owners in the order of their calls, and
`OwnOutcome` follows from where the cell's messages and its idle status can be
(`ReadInv`, `ReplyInv`); while no cell was given up on, the one shell reply under way is its
own (`AloneInv`), and otherwise it still tells how an earlier cell ended (`RepliesTell`).

*Summaries.*  A note may be in memory, in the file, or on its way.  `SummaryInv`
says of the first two that each note is filed under the source it was made from,
and of the third (`AskedNow`) that what the LLM was shown of a cell is what memory
has; all three but for the cells in `overtaken`, of which a reload brought another
source meanwhile.  That a call leaves sources and outputs alone (`EditsWin`) rests on
`ContentSynced`: between the file's last sync and now memory has changed in nothing
but summaries, so to load the file or to keep memory is the same unless an editor
saved.

*Notebook file.*  `NamesAreUnique` rests on `_ensure_names` alone: of as many
numbers as there are names seen, and one more, one is free, so the loop of the code
ends with a name nobody has; and a notebook whose names differ is left as it is.  The edits
keep that, each by its own lemma on the sequence (`InsertOne`, `RemoveOne`,
`ReplaceOne`).  For undo the invariant (`StackInv`) is that, as long as times
grow, the stack lists exactly the directory, in order; then pruning takes the
stack's first entry, a restart rebuilds the same stack by sorting, and a crash
before the unlink leaves a snapshot that is restored once more.

*Registry.*  `KernelsOwned` is not inductive: that no kernel loses its owner
needs to know who can have one.  `OwnInv` adds that a session which is not stopped
is registered or was replaced (`Unstopped`), that the registry holds no stopped
session while the server is up, that a tool call never has one (it would write
after `stop()`), that workers belong to sessions that were made, that nothing goes
on when the server is down, and that a stopped session has a kernel only until
the end of `stop()` or if it started that late.  Who writes follows
(`WriterFacts`): only a mutation and a write-back save, both after a look at the
file and for a session that is not stopped.

Only model-checked: SourceAnalysis (`Complete`, `Exact`), which computes by
recursion over trees and needs induction over data; every liveness property
(`WorkerEnds`, the liveness half of `KeepsLifecycle`, `EndsUnlessPrinting`,
`InterruptEnds`), which is out of the prover's reach but for the halves above; and
the three properties that fail (`VoidStaysVoid`, `RunsKeepSources`, `EditsReachDependents`).

## What is not modelled

`condense.py` and `errors.py` (formatting and messages), kernel discovery and
transports, prompts, and all rendering of tool results; of the source analysis the
constructs named above.  How a name may look and how an automatic one is made from
a source are abstracted (`AutoName`).  Time is too: the idle timeout may strike any
session that is not busy, a timeout on silence comes whenever the channel is empty.
A check of the file's hash and the write that follows it are one step, so an editor
that saves between the two is not seen.  There is one tool thread, as the server
has it: tools that check `busy()` and then act without a lock are safe only
because of that.

## Plan

Done, in this order: Session and its theorems; TaskLifecycle and TaskExecutor with
theirs; NotebookGraph and BuildGraph; Staleness; Summaries; OutputBuffer composed
with Execute; Registry and its theorems; NotebookFile; Python and SourceAnalysis;
then the theorems on BuildGraph's search, Staleness, OutputBuffer with Execute,
Summaries and NotebookFile; the refinement of TaskLifecycle in the order of the queue;
the progress theorems.

Next:

1. Theorems on how the modules fit: that Session's batches are TaskExecutor's, that
   NotebookFile's undo is the one Session steps through.
2. Composition: TaskExecutor's steps with Session's notebook, so that a stop in
   the middle of a write-back is seen with the stamps it writes.
3. Staleness over a notebook whose sources go through SourceAnalysis, so that a
   blind spot shows as a wrong result.
