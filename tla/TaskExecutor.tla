---------------------------- MODULE TaskExecutor ----------------------------
(***************************************************************************)
(* The executor of one notebook (tasks.py): its worker thread and the tool *)
(* thread that submits, interrupts and stops, step by step between the     *)
(* sections each runs under Executor._cond.  The notebook is reduced to    *)
(* what _run_task may report (module Session has the rest), the kernel to  *)
(* its process (restart_kernel and the idle timeout, which come only when  *)
(* nothing runs or waits, are in Session).                                 *)
(***************************************************************************)
EXTENDS Naturals, Sequences

CONSTANTS
  Tasks,      \* the ExecTasks ever made
  Batches,    \* the submissions: sequences of tasks
  Adhoc,      \* inspections, submitted by run_adhoc
  Endless,    \* cells that end only if interrupted
  NoTask

ASSUME BatchesAssumption ==
  /\ Batches \subseteq Seq(Tasks)
  /\ \A b \in Batches : \A i, j \in DOMAIN b : b[i] = b[j] => i = j
  /\ \A b, d \in Batches : \A i \in DOMAIN b, j \in DOMAIN d : b[i] = d[j] => b = d
  /\ Adhoc \subseteq Tasks
  /\ \A b \in Batches : (\E i \in DOMAIN b : b[i] \in Adhoc) => Len(b) = 1
  /\ NoTask \notin Tasks

VARIABLES
  queue,      \* Executor._queue
  current,    \* Executor._current
  stopped,    \* Executor._stopped
  stopping,   \* NotebookSession._stopping
  status,     \* ExecTask.status; "new" before it is submitted
  done,       \* the tasks whose done event is set
  failed,     \* the batches with Batch.failed
  wpc,        \* where the worker is
  held,       \* _loop's local variable task
  tpc,        \* where the tool thread is
  seen,       \* interrupt()'s local variable current
  kernel,     \* "up" once a process was started, until it is shut down
  signalled,  \* the cell now running was interrupted or lost its kernel
  sent        \* history: the tasks whose code went to the kernel

shared   == <<queue, current, stopped, stopping>>
outcome  == <<status, done, failed>>
worker   == <<wpc, held>>
tool     == <<tpc, seen>>
cell     == <<kernel, signalled, sent>>
vars     == <<shared, outcome, worker, tool, cell>>

Statuses == {"new", "queued", "running", "ok", "error", "timeout",
             "skipped", "cancelled", "superseded"}
Terminal == Statuses \ {"new", "queued", "running"}

Elements(s) == {s[i] : i \in DOMAIN s}
BatchOf(t)  == {b \in Batches : t \in Elements(b)}

Busy == current # NoTask \/ queue # <<>>

Init ==
  /\ queue = <<>> /\ current = NoTask /\ stopped = "no" /\ stopping = "no"
  /\ status = [t \in Tasks |-> "new"] /\ done = {} /\ failed = {}
  /\ wpc = "loop" /\ held = NoTask
  /\ tpc = "free" /\ seen = NoTask
  /\ kernel = "down" /\ signalled = "no" /\ sent = {}

\* Mutant: notify() forgotten.
NoNotify == UNCHANGED wpc

\* Condition.notify(): the one thread that waits on _cond is the worker.
Notify == wpc' = IF wpc = "waiting" THEN "loop" ELSE wpc

----------------------------------------------------------------------------
(* The tool thread.                                                        *)

\* submit(): submit_cells() and run_adhoc(), which is refused when busy.
Submit(b) ==
  /\ tpc = "free"
  /\ \A t \in Elements(b) : status[t] = "new" /\ (t \in Adhoc => ~Busy)
  /\ stopped = "no"
  /\ queue' = queue \o b
  /\ status' = [t \in Tasks |-> IF t \in Elements(b) THEN "queued" ELSE status[t]]
  /\ Notify
  /\ UNCHANGED <<current, stopped, stopping, done, failed, held, tool, cell>>

\* Mutant: the running task is cancelled with the queued ones.
DropAll ==
  LET gone == Elements(queue) \cup ({current} \ {NoTask})
  IN  /\ status' = [t \in Tasks |-> IF t \in gone THEN "cancelled" ELSE status[t]]
      /\ done' = done \cup gone
      /\ queue' = <<>>

\* Mutant: the queue is not cleared.
DropNothing ==
  /\ status' = [t \in Tasks |-> IF t \in Elements(queue) THEN "cancelled" ELSE status[t]]
  /\ done' = done \cup Elements(queue)
  /\ UNCHANGED queue

\* Cancel whatever is queued: cancel_queued() and stop().
DropQueue ==
  /\ status' = [t \in Tasks |-> IF t \in Elements(queue) THEN "cancelled" ELSE status[t]]
  /\ done' = done \cup Elements(queue)
  /\ queue' = <<>>

\* interrupt(clear_queue) first looks at what runs ...
ReadActivity(clear) ==
  /\ tpc = "free"
  /\ stopping = "no"
  /\ Busy
  /\ seen' = current
  /\ tpc' = IF clear THEN "cancel" ELSE "signal"
  /\ UNCHANGED <<shared, outcome, worker, cell>>

\* ... then clears the queue ...
CancelQueued ==
  /\ tpc = "cancel"
  /\ DropQueue
  /\ tpc' = "signal"
  /\ UNCHANGED <<current, stopped, stopping, failed, worker, seen, cell>>

\* ... and signals the kernel, which only a running cell notices.
SignalKernel ==
  /\ tpc = "signal"
  /\ signalled' = IF seen # NoTask /\ wpc = "running" THEN "yes" ELSE signalled
  /\ seen' = NoTask
  /\ tpc' = "free"
  /\ UNCHANGED <<shared, outcome, worker, kernel, sent>>

\* NotebookSession.stop(): the flag, the executor, the kernel.
BeginStop ==
  /\ tpc = "free"
  /\ stopping = "no"
  /\ stopping' = "yes"
  /\ tpc' = "stop"
  /\ UNCHANGED <<queue, current, stopped, outcome, worker, seen, cell>>

StopExecutor ==
  /\ tpc = "stop"
  /\ stopped' = "yes"
  /\ DropQueue
  /\ Notify
  /\ tpc' = "kill"
  /\ UNCHANGED <<current, stopping, failed, held, seen, cell>>

StopKernel ==
  /\ tpc = "kill"
  /\ kernel' = "down"
  /\ signalled' = IF wpc = "running" THEN "yes" ELSE signalled
  /\ tpc' = "gone"
  /\ UNCHANGED <<shared, outcome, worker, seen, sent>>

----------------------------------------------------------------------------
(* The worker: _loop.                                                      *)

Wait ==
  /\ wpc = "loop" /\ queue = <<>> /\ stopped = "no"
  /\ wpc' = "waiting"
  /\ UNCHANGED <<shared, outcome, held, tool, cell>>

Exit ==
  /\ wpc = "loop" /\ stopped = "yes"
  /\ wpc' = "exited"
  /\ UNCHANGED <<shared, outcome, held, tool, cell>>

Take ==
  /\ wpc = "loop" /\ queue # <<>> /\ stopped = "no"
  /\ held' = Head(queue)
  /\ current' = Head(queue)
  /\ queue' = Tail(queue)
  /\ wpc' = "taken"
  /\ UNCHANGED <<stopped, stopping, outcome, tool, cell>>

\* Mutant: the local variable is cleared too early.
ClearHeld ==
  /\ wpc = "returned"
  /\ current' = NoTask /\ held' = NoTask
  /\ wpc' = "cleared"
  /\ UNCHANGED <<queue, stopped, stopping, outcome, tool, cell>>

\* The finally clause: _current is cleared, and only then the event is set.
ClearCurrent ==
  /\ wpc = "returned"
  /\ current' = NoTask
  /\ wpc' = "cleared"
  /\ UNCHANGED <<queue, stopped, stopping, outcome, held, tool, cell>>

SetDone ==
  /\ wpc = "cleared"
  /\ done' = done \cup {held}
  /\ held' = NoTask
  /\ wpc' = "loop"
  /\ UNCHANGED <<shared, status, failed, tool, cell>>

----------------------------------------------------------------------------
(* The worker: _run_task(held), as far as task and batch can tell.         *)

ReturnDone(st, fails) == \* mutant: the event is set before _current is cleared
  /\ status' = [status EXCEPT ![held] = st]
  /\ failed' = IF fails THEN failed \cup BatchOf(held) ELSE failed
  /\ done' = done \cup {held}
  /\ wpc' = "returned"
  /\ UNCHANGED <<shared, held, tool, cell>>

Return(st, fails) ==
  /\ status' = [status EXCEPT ![held] = st]
  /\ failed' = IF fails THEN failed \cup BatchOf(held) ELSE failed
  /\ wpc' = "returned"
  /\ UNCHANGED <<shared, done, held, tool, cell>>

BatchNeverFailed == FALSE \* mutant: the check is dropped
BatchFailed == held \notin Adhoc /\ BatchOf(held) \subseteq failed

Refuse ==
  /\ wpc = "taken"
  /\ \/ stopping = "yes" /\ Return("cancelled", FALSE)
     \/ stopping = "no" /\ BatchFailed /\ Return("skipped", FALSE)
     \/ stopping = "no" /\ ~BatchFailed /\ held \notin Adhoc /\ Return("superseded", FALSE)

Accept ==
  /\ wpc = "taken"
  /\ stopping = "no"
  /\ ~BatchFailed
  /\ wpc' = "starting"
  /\ UNCHANGED <<shared, outcome, held, tool, cell>>

\* kernel().ensure_started(): a kernel of whoever owns the session, if anybody
\* still does.
EnsureStarted ==
  /\ wpc = "starting"
  /\ kernel' = "up"
  /\ status' = [status EXCEPT ![held] = "running"]
  /\ wpc' = "ready"
  /\ UNCHANGED <<shared, done, failed, held, tool, signalled, sent>>

\* Either raises for want of a kernel: the except clause of _loop.
StartFails ==
  /\ wpc \in {"starting", "ready"}
  /\ Return("error", TRUE)

\* execute() makes sure once more that there is a kernel, and sends the code.
Send ==
  /\ wpc = "ready"
  /\ kernel' = "up"
  /\ sent' = sent \cup {held}
  /\ signalled' = "no"
  /\ wpc' = "running"
  /\ UNCHANGED <<shared, outcome, held, tool>>

\* execute() returns or raises; an endless cell must have been interrupted, or
\* its kernel be gone.
Reply ==
  /\ wpc = "running"
  /\ held \in Endless => signalled = "yes"
  /\ \/ /\ \E st \in {"ok", "error", "timeout"} : status' = [status EXCEPT ![held] = st]
        /\ wpc' = "replied"
        /\ UNCHANGED <<shared, done, failed, held, tool, cell>>
     \/ Return("error", TRUE)

\* Mutant: a stop during the run turns its outcome into "cancelled".
ConcludeCancelled ==
  /\ wpc = "replied"
  /\ Return(IF stopping = "yes" THEN "cancelled" ELSE status[held], status[held] # "ok")

\* The write-back may raise; an inspection has none.
Conclude ==
  /\ wpc = "replied"
  /\ \/ Return(status[held], held \notin Adhoc /\ status[held] # "ok")
     \/ held \notin Adhoc /\ stopping = "no" /\ Return("error", TRUE)

----------------------------------------------------------------------------
\* The process dies under a cell: the kernel manager stays, and starts another
\* one for the next cell.
KernelDies ==
  /\ wpc = "running"
  /\ signalled' = "yes"
  /\ UNCHANGED <<shared, outcome, worker, tool, kernel, sent>>

RunTask ==
  \/ Refuse \/ Accept
  \/ EnsureStarted \/ StartFails \/ Send
  \/ Reply \/ Conclude
WorkerStep == Wait \/ Exit \/ Take \/ RunTask \/ ClearCurrent \/ SetDone

ToolCall ==
  \/ \E b \in Batches : Submit(b)
  \/ \E clear \in BOOLEAN : ReadActivity(clear)
  \/ BeginStop

ToolGoesOn == CancelQueued \/ SignalKernel \/ StopExecutor \/ StopKernel

Next == WorkerStep \/ ToolCall \/ ToolGoesOn \/ KernelDies

\* A thread that can go on does; tool calls need never come.  For cells out
\* of Endless this says that the kernel answers in the end.
Fairness == WF_vars(WorkerStep) /\ WF_vars(ToolGoesOn)

SafeSpec == Init /\ [][Next]_vars
Spec     == SafeSpec /\ Fairness

----------------------------------------------------------------------------
(* Properties.                                                             *)

TypeOK ==
  /\ queue \in Seq(Tasks)
  /\ current \in Tasks \cup {NoTask} /\ held \in Tasks \cup {NoTask}
  /\ stopped \in {"no", "yes"} /\ stopping \in {"no", "yes"}
  /\ status \in [Tasks -> Statuses]
  /\ done \subseteq Tasks /\ failed \subseteq Batches
  /\ wpc \in {"waiting", "loop", "taken", "starting", "ready", "running", "replied", "returned",
              "cleared", "exited"}
  /\ tpc \in {"free", "cancel", "signal", "stop", "kill", "gone"}
  /\ seen \in Tasks \cup {NoTask}
  /\ kernel \in {"up", "down"}
  /\ signalled \in {"no", "yes"} /\ sent \subseteq Tasks

\* Whoever is woken by a task's done event finds its outcome settled and the
\* executor finished with it: not current, so the caller may restart, undo or
\* inspect, and not queued (_loop: _current is cleared before done.set()).
DoneIsSettled ==
  \A t \in done : status[t] \in Terminal /\ t # current /\ t \notin Elements(queue)

\* An outcome that may have been read never changes, although the worker
\* writes it without a lock while the tool thread cancels.
DoneIsFinal == [][\A t \in done : t \in done' /\ status'[t] = status[t]]_vars

\* After a cell of a batch failed, for whatever reason, no later cell of the
\* batch reaches the kernel (Batch: "fails fast within itself").
FailFast ==
  \A b \in Batches : \A i, j \in DOMAIN b :
    i < j /\ b[i] \in done /\ status[b[i]] \in {"error", "timeout"} => b[j] \notin sent

\* A task reported as skipped, cancelled or superseded never touched the
\* kernel, also when the session was stopped under it.
NotRunMeansNotSent ==
  \A t \in done \cap sent : status[t] \in {"ok", "error", "timeout"}

\* No wake-up is lost: the worker sleeps on _cond only while nothing waits in
\* the queue and nobody has stopped the executor (submit and stop notify under
\* the lock, _loop looks again each time it wakes).
NeverOversleeps == wpc = "waiting" => queue = <<>> /\ stopped = "no"

Lifecycle == INSTANCE TaskLifecycle
               WITH waiting <- queue, running <- held, over <- done, open <- stopped = "no"

\* No endless cell keeps the worker: each is interrupted, or loses its kernel.
EndlessEnd == \A t \in Endless : []<>(held # t)

\* The executor keeps the promises of TaskLifecycle: batches go whole into one
\* queue, which is worked off in its order or dropped whole, no task runs twice
\* or next to another or after a stop, and every task submitted is over in the
\* end, unless an endless cell keeps the worker.
KeepsLifecycle == Lifecycle!SafeSpec /\ (EndlessEnd => Lifecycle!AllEnd)

\* The worker of a stopped executor ends: it is not left asleep on _cond.
WorkerEnds == EndlessEnd => (stopped = "yes" ~> wpc = "exited")
============================================================================
