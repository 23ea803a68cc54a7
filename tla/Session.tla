------------------------------ MODULE Session ------------------------------
(***************************************************************************)
(* One NotebookSession (session.py): the in-memory notebook, the file on   *)
(* disk, the snapshots kept for undo, the executor thread and the kernel,  *)
(* together with an external editor that shares the file and a kernel that *)
(* may die.  The module is about FRESHNESS: a cell carries the stamp       *)
(* (last_exec_rev, last_exec_epoch) of the run that produced its outputs,  *)
(* and a stamp that matches the cell's source and the live kernel says     *)
(* "this cell need not run again".                                         *)
(*                                                                         *)
(* A cell's rev is a hash of its source: here the source stands for it.    *)
(* Order, names, outputs, summaries and the dependency fingerprint are     *)
(* left out (module Staleness has the fingerprint).  Every section the     *)
(* code runs under NotebookSession._lock is one action; what happens       *)
(* between two such sections interleaves.                                  *)
(***************************************************************************)
EXTENDS Integers, Sequences

CONSTANTS
  Cells,          \* identities of code cells (the cell name)
  Sources,        \* the sources a cell may have
  Requests,       \* cell sequences the run tool submits, in document order
  Absent,         \* "this notebook has no such cell"
  NoStamp,        \* the cell carries no execution stamp
  NoTask,         \* the executor runs nothing
  MaxSnapshots,   \* model.MAX_SNAPSHOTS
  MaxChanges,     \* bound: edits of the notebook, by tools and by the editor
  MaxBatches,     \* bound: runs submitted
  MaxEpochs,      \* bound: kernel starts
  OldEditorCopy,  \* TRUE: the editor may save over a newer file
  SaveCanFail     \* TRUE: NotebookFile.save may raise

ASSUME RequestsAssumption == Requests \subseteq Seq(Cells)

ASSUME SpecialValues ==
  /\ Absent \notin Sources
  /\ NoStamp \notin [rev: Sources, epoch: Nat]
  /\ NoTask \notin [cell: Cells, rev: Sources, batch: Nat]

ASSUME BoundsAssumption ==
  /\ MaxSnapshots \in Nat \ {0}
  /\ MaxChanges \in Nat /\ MaxBatches \in Nat /\ MaxEpochs \in Nat
  /\ OldEditorCopy \in BOOLEAN /\ SaveCanFail \in BOOLEAN

VARIABLES
  mem,        \* nbfile.nb: the notebook the tools see
  disk,       \* the .ipynb file
  sync,       \* the content whose hash is nbfile._disk_sha
  undo,       \* nbfile._undo_stack: snapshots, oldest first
  queue,      \* Executor._queue
  task,       \* Executor._current
  pc,         \* how far _run_task is with it
  result,     \* ExecResult.status, once the kernel has replied
  failed,     \* the batches with Batch.failed
  batches,    \* batches submitted so far
  process,    \* the kernel process: KernelSession.alive
  epoch,      \* KernelSession.epoch: the kernel starts so far
  editor,     \* the copy an external editor has open
  changes,    \* edits so far (bounded by MaxChanges)
  ranOk,      \* history: <<cell, source>> that ran to "ok" on this kernel
  lastRun     \* history: each cell's latest attempt on this kernel

file     == <<disk, sync>>
exec     == <<queue, task, pc, result, failed, batches>>
kernel   == <<process, epoch>>
outside  == <<editor, changes>>
history  == <<ranOk, lastRun>>
vars     == <<mem, file, undo, exec, kernel, outside, history>>

----------------------------------------------------------------------------
(* Data.                                                                   *)

Stamps    == [rev: Sources, epoch: Nat]
Notebooks == [src: [Cells -> Sources \cup {Absent}], stamp: [Cells -> Stamps \cup {NoStamp}]]
Tasks     == [cell: Cells, rev: Sources, batch: Nat]
Statuses  == {"none", "running", "ok", "failed"}
Attempts  == [rev: Sources \cup {Absent}, status: Statuses]

NeverRun == [rev |-> Absent, status |-> "none"]

Present(nb) == {c \in Cells : nb.src[c] # Absent}

\* Source changes keep the stamp: it stops matching because the rev changed.
WithSource(nb, c, s) == [src |-> [nb.src EXCEPT ![c] = s], stamp |-> nb.stamp]
WithStamp(nb, c, st) == [src |-> nb.src, stamp |-> [nb.stamp EXCEPT ![c] = st]]
VoidForgotten(nb, c) == nb \* mutant: the old stamp is not popped
Void(nb, c)          == WithStamp(nb, c, NoStamp)
Without(nb, c)       == Void(WithSource(nb, c, Absent), c)
VoidAll(nb)          == [src |-> nb.src, stamp |-> [c \in Cells |-> NoStamp]]

\* snapshot(): the bytes on disk are pushed, the oldest copies pruned.
Snapshot ==
  LET pushed == Append(undo, disk)
  IN  IF Len(pushed) > MaxSnapshots THEN Tail(pushed) ELSE pushed

DiskChanged == disk # sync
Alive       == process = "alive"
Busy        == task # NoTask \/ queue # <<>>

\* stale_names(): what makes a cell fresh, but for the dependency fingerprint.
Fresh(c) ==
  /\ Alive
  /\ mem.src[c] # Absent
  /\ mem.stamp[c] # NoStamp
  /\ mem.stamp[c].rev = mem.src[c]
  /\ mem.stamp[c].epoch = epoch

----------------------------------------------------------------------------
Init ==
  \E s \in [Cells -> Sources \cup {Absent}] :
    LET nb == [src |-> s, stamp |-> [c \in Cells |-> NoStamp]]
    IN  /\ mem = nb /\ disk = nb /\ sync = nb /\ editor = nb
        /\ undo = <<>>
        /\ queue = <<>> /\ task = NoTask /\ pc = "idle" /\ result = "none"
        /\ failed = {} /\ batches = 0
        /\ process = "dead" /\ epoch = 0
        /\ changes = 0
        /\ ranOk = {} /\ lastRun = [c \in Cells |-> NeverRun]

\* Mutant: the hash of the file is taken, its content is not.
LoadHashOnly == sync' = disk /\ UNCHANGED <<mem, disk>>

\* NotebookFile.load()
Load == mem' = disk /\ sync' = disk /\ UNCHANGED disk

----------------------------------------------------------------------------
(* Tool threads.                                                           *)

\* refresh_reads() on the read paths and the rejection by guard_mutation()
\* on the mutating ones: both reload the file and change nothing else.
ReloadChanged ==
  /\ DiskChanged
  /\ Load
  /\ UNCHANGED <<undo, exec, kernel, outside, history>>

\* mutate(op, fn) for an fn that leaves the notebook new.  When save() raises
\* nothing was written, and the notebook in memory stays as fn left it.
Mutate(new) ==
  /\ ~DiskChanged
  /\ changes < MaxChanges
  /\ changes' = changes + 1
  /\ undo' = Snapshot
  /\ mem' = new
  /\ \/ disk' = new /\ sync' = new
     \/ SaveCanFail /\ UNCHANGED file
  /\ UNCHANGED <<exec, kernel, editor, history>>

UpdateCell(c, s) == c \in Present(mem) /\ s # mem.src[c] /\ Mutate(WithSource(mem, c, s))
AddCell(c, s)    == c \notin Present(mem) /\ Mutate(Void(WithSource(mem, c, s), c))
RemoveCell(c)    == c \in Present(mem) /\ Mutate(Without(mem, c))

\* mutate() whose fn raises: a stale expected_rev, a duplicate or unknown
\* name.  The snapshot has been taken, the notebook is read back from disk.
RejectedMutation ==
  /\ ~DiskChanged
  /\ undo' = Snapshot
  /\ Load
  /\ UNCHANGED <<exec, kernel, outside, history>>

\* The undo_last tool: refused while busy and after an external change; the
\* restored notebook keeps no stamp.
UndoLast ==
  /\ ~Busy
  /\ ~DiskChanged
  /\ undo # <<>>
  /\ LET snap     == undo[Len(undo)]
         restored == VoidAll(snap)
     IN  /\ mem' = restored
         /\ \/ disk' = restored /\ sync' = restored
            \/ SaveCanFail /\ disk' = snap /\ sync' = snap
  /\ undo' = SubSeq(undo, 1, Len(undo) - 1)
  /\ UNCHANGED <<exec, kernel, outside, history>>

\* submit_cells(names): guard, snapshot, and one task per cell with the
\* source it has now.
SubmitCells(names) ==
  /\ \A i \in DOMAIN names : names[i] \in Present(mem)
  /\ ~DiskChanged
  /\ batches < MaxBatches
  /\ batches' = batches + 1
  /\ undo' = Snapshot
  /\ queue' = queue \o [i \in DOMAIN names |->
       [cell |-> names[i], rev |-> mem.src[names[i]], batch |-> batches + 1]]
  /\ UNCHANGED <<mem, file, task, pc, result, failed, kernel, outside, history>>

\* interrupt(clear_queue=True).  The KeyboardInterrupt itself is one of the
\* ways an execution may end (KernelReplies).
Interrupt ==
  /\ queue # <<>>
  /\ queue' = <<>>
  /\ UNCHANGED <<mem, file, undo, task, pc, result, failed, batches, kernel, outside, history>>

\* Mutant: the new kernel keeps the old one's epoch.
StartKernelSameEpoch ==
  /\ process' = "alive"
  /\ ranOk' = {}
  /\ lastRun' = [c \in Cells |-> NeverRun]
  /\ UNCHANGED epoch

\* A kernel comes up empty, under a new epoch; or KernelError is raised and
\* there is no kernel.
StartKernel ==
  \/ /\ epoch < MaxEpochs
     /\ process' = "alive"
     /\ epoch' = epoch + 1
     /\ ranOk' = {}
     /\ lastRun' = [c \in Cells |-> NeverRun]
  \/ process' = "dead" /\ UNCHANGED <<epoch, history>>

\* restart_kernel, refused while busy.
RestartKernel ==
  /\ ~Busy
  /\ StartKernel
  /\ UNCHANGED <<mem, file, undo, exec, outside>>

----------------------------------------------------------------------------
(* The executor thread: _loop around _run_task.                            *)

\* Mutant: _current is not cleared.
FinishKeepsTask(ok) ==
  /\ pc' = "idle"
  /\ result' = "none"
  /\ failed' = IF ok THEN failed ELSE failed \cup {task.batch}
  /\ UNCHANGED <<task, queue, batches>>

\* The end of _loop's body; a task that raised or failed fails its batch.
Finish(ok) ==
  /\ task' = NoTask
  /\ pc' = "idle"
  /\ result' = "none"
  /\ failed' = IF ok THEN failed ELSE failed \cup {task.batch}
  /\ UNCHANGED <<queue, batches>>

Dequeue ==
  /\ task = NoTask
  /\ queue # <<>>
  /\ task' = Head(queue)
  /\ queue' = Tail(queue)
  /\ pc' = "popped"
  /\ UNCHANGED <<mem, file, undo, result, failed, batches, kernel, outside, history>>

Superseded == mem.src[task.cell] # task.rev

SkipTask ==
  /\ pc = "popped"
  /\ task.batch \in failed \/ Superseded
  /\ Finish(TRUE)
  /\ UNCHANGED <<mem, file, undo, kernel, outside, history>>

\* The first locked section: the old stamp is popped, in memory.
VoidStamp ==
  /\ pc = "popped"
  /\ task.batch \notin failed
  /\ ~Superseded
  /\ mem' = Void(mem, task.cell)
  /\ pc' = "starting"
  /\ UNCHANGED <<file, undo, queue, task, result, failed, batches, kernel, outside, history>>

\* ensure_started(): called before the run and again by execute(); what it
\* raises ends the task.
EnsureStarted ==
  /\ pc = "starting"
  /\ ~Alive
  /\ StartKernel
  /\ IF process' = "alive" THEN UNCHANGED exec ELSE Finish(FALSE)
  /\ UNCHANGED <<mem, file, undo, outside>>

\* execute() sends the request: the attempt begins.
SendRequest ==
  /\ pc = "starting"
  /\ Alive
  /\ pc' = "running"
  /\ lastRun' = [lastRun EXCEPT ![task.cell] = [rev |-> task.rev, status |-> "running"]]
  /\ UNCHANGED <<mem, file, undo, queue, task, result, failed, batches, kernel, outside, ranOk>>

\* execute() returns: "ok" from a live kernel, or an error, a timeout, an
\* interrupt, a dead kernel.
KernelReplies ==
  /\ pc = "running"
  /\ pc' = "replied"
  /\ \/ Alive /\ result' = "ok" /\ ranOk' = ranOk \cup {<<task.cell, task.rev>>}
     \/ result' = "failed" /\ UNCHANGED ranOk
  /\ lastRun' = [lastRun EXCEPT ![task.cell] = [rev |-> task.rev, status |-> result']]
  /\ UNCHANGED <<mem, file, undo, queue, task, failed, batches, kernel, outside>>

\* What WriteBack merges the outcome into: the file, if it changed meanwhile.
MergeIntoMemory == mem \* mutant: without looking at the file
MergeBase       == IF DiskChanged THEN disk ELSE mem

\* The second locked section: reload if the file changed, write the outcome
\* to the cell if it still has the source that ran, save.
WriteBack ==
  /\ pc = "replied"
  /\ LET base  == MergeBase
         stamp == IF result = "ok" THEN [rev |-> task.rev, epoch |-> epoch] ELSE NoStamp
         new   == IF base.src[task.cell] = task.rev
                  THEN WithStamp(base, task.cell, stamp)
                  ELSE base
     IN  /\ mem' = new
         /\ \/ disk' = new /\ sync' = new /\ Finish(result = "ok")
            \/ /\ SaveCanFail
               /\ sync' = disk \* after a reload; equal to it already otherwise
               /\ UNCHANGED disk
               /\ Finish(FALSE)
  /\ UNCHANGED <<undo, kernel, outside, history>>

----------------------------------------------------------------------------
(* The environment.                                                        *)

\* expire_idle_kernel() when not busy, or the kernel process dying any time.
KernelDies ==
  /\ Alive
  /\ process' = "dead"
  /\ UNCHANGED <<mem, file, undo, exec, epoch, outside, history>>

EditorOpens ==
  /\ editor # disk
  /\ editor' = disk
  /\ UNCHANGED <<mem, file, undo, exec, kernel, changes, history>>

\* The editor changes one cell of its copy and saves the copy, stamps and all.
EditorSaves(c, s) ==
  /\ changes < MaxChanges
  /\ changes' = changes + 1
  /\ OldEditorCopy \/ editor = disk
  /\ editor' = IF s = Absent THEN Without(editor, c) ELSE WithSource(editor, c, s)
  /\ disk' = editor'
  /\ UNCHANGED <<mem, sync, undo, exec, kernel, history>>

\* The server process ends and a new one opens the notebook; its undo stack
\* is seeded from the snapshot directory.
ServerRestarts ==
  /\ Load
  /\ queue' = <<>> /\ task' = NoTask /\ pc' = "idle" /\ result' = "none" /\ failed' = {}
  /\ process' = "dead"
  /\ UNCHANGED <<undo, batches, epoch, outside, history>>

----------------------------------------------------------------------------
EditStep ==
  \E c \in Cells :
    \/ \E s \in Sources : UpdateCell(c, s) \/ AddCell(c, s)
    \/ RemoveCell(c)

ToolStep ==
  \/ ReloadChanged
  \/ EditStep
  \/ RejectedMutation
  \/ UndoLast
  \/ \E names \in Requests : SubmitCells(names)
  \/ Interrupt
  \/ RestartKernel

WorkerStep ==
  \/ Dequeue \/ SkipTask \/ VoidStamp
  \/ EnsureStarted \/ SendRequest \/ KernelReplies
  \/ WriteBack

EditorStep == EditorOpens \/ \E c \in Cells, s \in Sources \cup {Absent} : EditorSaves(c, s)

Next == ToolStep \/ WorkerStep \/ EditorStep \/ KernelDies \/ ServerRestarts

Spec == Init /\ [][Next]_vars

----------------------------------------------------------------------------
(* Properties.                                                             *)

TypeOK ==
  /\ mem \in Notebooks /\ disk \in Notebooks /\ sync \in Notebooks
  /\ editor \in Notebooks
  /\ undo \in Seq(Notebooks)
  /\ queue \in Seq(Tasks)
  /\ task \in Tasks \cup {NoTask}
  /\ pc \in {"idle", "popped", "starting", "running", "replied"}
  /\ pc = "idle" <=> task = NoTask
  /\ result \in Statuses
  /\ failed \subseteq Nat /\ batches \in Nat
  /\ process \in {"alive", "dead"} /\ epoch \in Nat
  /\ changes \in Nat
  /\ ranOk \subseteq Cells \X Sources
  /\ lastRun \in [Cells -> Attempts]

\* A cell reads as fresh only if the source it has NOW ran to "ok" on the
\* kernel that is alive NOW: through reloads, old editor copies, failed saves,
\* undo, kernel deaths and a new server process reading persisted stamps
\* (stale_names: "persisted metadata can never claim freshness against empty
\* state").
FreshRan == \A c \in Cells : Fresh(c) => <<c, mem.src[c]>> \in ranOk

\* The stamp a cell has in memory tells of the LATEST attempt at the cell on
\* the live kernel, and while an attempt is made there is none.
Attempted(c) == pc \in {"starting", "running", "replied"} /\ c = task.cell

StampIsLatest(c) ==
  LET st == mem.stamp[c]
  IN  /\ Attempted(c) => st = NoStamp
      /\ Alive /\ st # NoStamp /\ st.epoch = epoch =>
           lastRun[c] = [rev |-> st.rev, status |-> "ok"]

\* It does so until a reload: whatever is edited, undone, interrupted, killed or
\* not saved, at any point of an attempt, a cell comes to have a stamp that an
\* attempt voided or that is not of its latest one only by reading that stamp
\* back from the file, where _run_task has not voided it (_run_task: "freshness
\* must be re-earned by a successful run").
OnlyReloadsRevive ==
  [][\A c \in Cells : StampIsLatest(c) /\ ~StampIsLatest(c)' =>
       mem'.stamp[c] # mem.stamp[c] /\ mem'.stamp[c] = disk.stamp[c]]_vars

\* Once the executor is done with its task, a fresh cell's source is what the
\* kernel ran last for that cell, and that run was ok (_run_task: "any execution
\* attempt voids the old stamp: a failed or interrupted run can still mutate
\* kernel state").  The reloads above break it.
VoidStaysVoid ==
  task = NoTask =>
    \A c \in Cells : Fresh(c) => lastRun[c] = [rev |-> mem.src[c], status |-> "ok"]

\* No step of the server ever replaces an edit it has not loaded: if the file
\* changed since the last load or save, whatever the server writes next still
\* has every source the editor saved (_run_task: "its edits win").
EditorWins ==
  [][disk # sync /\ disk' # disk => EditorStep \/ disk'.src = disk.src]_vars

\* Running cells never changes the sources on disk, so that a mutation that
\* raised is not persisted by the next run (mutate: a failed mutation "can't
\* linger in memory and get persisted by the next operation").  It does not
\* hold: save() is outside the try that reloads the notebook.
RunsKeepSources == [][WorkerStep => disk'.src = disk.src]_vars

\* Nothing else lingers: memory comes to differ in a source from what was last
\* read or written only by a mutation whose save failed, never by a rejected
\* one, an undo, a merge or a reload; and what a run changes on disk besides
\* its outcome is what lingered.
OnlyFailedSavesLinger ==
  [][/\ mem.src = sync.src /\ mem'.src # sync'.src => EditStep /\ disk' = disk
     /\ WorkerStep /\ disk'.src # disk.src => mem.src # sync.src /\ disk'.src = mem.src]_vars
============================================================================
