------------------------ MODULE TaskExecutorProofs ------------------------
(***************************************************************************)
(* What TaskExecutor promises for any number of tasks and batches: types,  *)
(* the outcome a waiter reads, and the abstract lifecycle of TaskLifecycle *)
(* without its liveness.                                                   *)
(***************************************************************************)
EXTENDS TaskExecutor, SequenceTheorems, TLAPS

----------------------------------------------------------------------------
(* Sequences of tasks.                                                     *)

NoRepeat(s) == \A i, j \in DOMAIN s : s[i] = s[j] => i = j

\* Taking the first task off a queue without repetitions.
LEMMA TakeFirst ==
  ASSUME NEW s \in Seq(Tasks), s # <<>>, NoRepeat(s)
  PROVE  /\ Head(s) \in Tasks /\ Tail(s) \in Seq(Tasks)
         /\ Elements(s) = Elements(Tail(s)) \cup {Head(s)}
         /\ Head(s) \notin Elements(Tail(s))
         /\ NoRepeat(Tail(s))
<1>1. Len(s) \in Nat \ {0} /\ DOMAIN s = 1..Len(s) /\ Head(s) = s[1] /\ Head(s) \in Tasks
  OBVIOUS
<1>2. /\ Tail(s) \in Seq(Tasks) /\ DOMAIN Tail(s) = 1..(Len(s) - 1)
      /\ \A i \in 1..(Len(s) - 1) : Tail(s)[i] = s[i + 1]
  BY <1>1
<1>3. Elements(s) = Elements(Tail(s)) \cup {Head(s)}
  <2>1. \A i \in DOMAIN s : i = 1 \/ (i - 1 \in DOMAIN Tail(s) /\ s[i] = Tail(s)[i - 1])
    BY <1>1, <1>2
  <2>2. \A i \in DOMAIN Tail(s) : i + 1 \in DOMAIN s /\ Tail(s)[i] = s[i + 1]
    BY <1>1, <1>2
  <2>3. \A i \in DOMAIN s : s[i] = Head(s) \/ s[i] \in Elements(Tail(s))
    BY <1>1, <2>1 DEF Elements
  <2>4. Elements(Tail(s)) \subseteq Elements(s) /\ Head(s) \in Elements(s)
    BY <1>1, <2>2 DEF Elements
  <2> QED BY <2>3, <2>4 DEF Elements
<1>4. Head(s) \notin Elements(Tail(s))
  BY <1>1, <1>2 DEF NoRepeat, Elements
<1>5. NoRepeat(Tail(s))
  BY <1>1, <1>2 DEF NoRepeat
<1> QED BY <1>1, <1>2, <1>3, <1>4, <1>5

\* Putting a batch of other tasks behind a queue.
LEMMA PutBehind ==
  ASSUME NEW s \in Seq(Tasks), NEW b \in Seq(Tasks),
         NoRepeat(s), NoRepeat(b), Elements(s) \cap Elements(b) = {}
  PROVE  /\ s \o b \in Seq(Tasks)
         /\ Elements(s \o b) = Elements(s) \cup Elements(b)
         /\ NoRepeat(s \o b)
<1>1. /\ s \o b \in Seq(Tasks) /\ Len(s) \in Nat /\ Len(b) \in Nat
      /\ DOMAIN s = 1..Len(s) /\ DOMAIN b = 1..Len(b) /\ DOMAIN (s \o b) = 1..(Len(s) + Len(b))
      /\ \A i \in 1..(Len(s) + Len(b)) :
           (s \o b)[i] = IF i <= Len(s) THEN s[i] ELSE b[i - Len(s)]
  OBVIOUS
<1>2. Elements(s \o b) = Elements(s) \cup Elements(b)
  <2>1. \A i \in DOMAIN (s \o b) :
          (i \in DOMAIN s /\ (s \o b)[i] = s[i])
            \/ (i - Len(s) \in DOMAIN b /\ (s \o b)[i] = b[i - Len(s)])
    BY <1>1
  <2>2. \A i \in DOMAIN s : i \in DOMAIN (s \o b) /\ (s \o b)[i] = s[i]
    BY <1>1
  <2>3. \A i \in DOMAIN b : i + Len(s) \in DOMAIN (s \o b) /\ (s \o b)[i + Len(s)] = b[i]
    BY <1>1
  <2>4. Elements(s \o b) \subseteq Elements(s) \cup Elements(b)
    BY <2>1 DEF Elements
  <2>5. Elements(s) \subseteq Elements(s \o b) /\ Elements(b) \subseteq Elements(s \o b)
    BY <2>2, <2>3 DEF Elements
  <2> QED BY <2>4, <2>5
<1>3. NoRepeat(s \o b)
  <2> SUFFICES ASSUME NEW i \in DOMAIN (s \o b), NEW j \in DOMAIN (s \o b),
                      (s \o b)[i] = (s \o b)[j]
               PROVE  i = j
    BY DEF NoRepeat
  <2> i \in Nat /\ j \in Nat /\ Len(s) \in Nat
    BY <1>1
  <2>1. CASE i <= Len(s) /\ j <= Len(s)
    BY <1>1, <2>1 DEF NoRepeat
  <2>2. CASE i > Len(s) /\ j > Len(s)
    <3>1. i - Len(s) \in DOMAIN b /\ j - Len(s) \in DOMAIN b /\ b[i - Len(s)] = b[j - Len(s)]
      BY <1>1, <2>2
    <3>2. i - Len(s) = j - Len(s)
      BY <3>1 DEF NoRepeat
    <3> QED BY <1>1, <3>2
  <2>3. CASE i <= Len(s) /\ j > Len(s)
    <3>1. i \in DOMAIN s /\ j - Len(s) \in DOMAIN b /\ s[i] = b[j - Len(s)]
      BY <1>1, <2>3
    <3> QED BY <3>1 DEF Elements
  <2>4. CASE i > Len(s) /\ j <= Len(s)
    <3>1. j \in DOMAIN s /\ i - Len(s) \in DOMAIN b /\ s[j] = b[i - Len(s)]
      BY <1>1, <2>4
    <3> QED BY <3>1 DEF Elements
  <2> QED BY <2>1, <2>2, <2>3, <2>4
<1> QED BY <1>1, <1>2, <1>3

\* Elements of a queue of tasks are tasks.
LEMMA ElementsAreTasks ==
  ASSUME NEW s \in Seq(Tasks)
  PROVE  Elements(s) \subseteq Tasks
BY DEF Elements

----------------------------------------------------------------------------
(* The inductive invariant: where each task is, and what its status says.  *)

HoldsTask == {"taken", "starting", "ready", "running", "replied", "returned", "cleared"}

\* The worker's local variable and _current.
HeldOK ==
  /\ wpc \in HoldsTask <=> held # NoTask
  /\ current = IF wpc \in HoldsTask \ {"cleared"} THEN held ELSE NoTask
  /\ held \notin done /\ held \notin Elements(queue)

QueueOK ==
  /\ NoRepeat(queue)
  /\ \A t \in Elements(queue) : status[t] = "queued" /\ t \notin done

\* The status of the worker's task follows its progress.
HeldStatus ==
  /\ wpc \in {"taken", "starting"} => status[held] = "queued"
  /\ wpc \in {"ready", "running"} => status[held] = "running"
  /\ wpc = "replied" => status[held] \in {"ok", "error", "timeout"}
  /\ wpc \in {"returned", "cleared"} => status[held] \in Terminal

\* A task that is over has an outcome; one that was sent a real one.
DoneOK == \A t \in done : status[t] \in Terminal
SentOK == \A t \in sent : status[t] \in {"running", "ok", "error", "timeout"}

ExecInv == TypeOK /\ HeldOK /\ QueueOK /\ HeldStatus /\ DoneOK /\ SentOK

\* The invariant holds initially.
LEMMA InitInv == Init => ExecInv
<1> SUFFICES ASSUME Init PROVE ExecInv
  OBVIOUS
<1>1. queue = <<>> /\ queue \in Seq(Tasks) /\ Elements(queue) = {}
  BY DEF Init, Elements
<1>2. TypeOK
  BY <1>1 DEF Init, TypeOK, Statuses
<1>3. NoRepeat(queue)
  BY <1>1 DEF NoRepeat
<1>4. NoTask \notin Tasks
  BY BatchesAssumption
<1> QED BY <1>1, <1>2, <1>3, <1>4 DEF Init, ExecInv, HeldOK, QueueOK, HeldStatus, DoneOK, SentOK, HoldsTask

\* What the tool thread and a dying kernel do.
LEMMA ToolInv ==
  ASSUME ExecInv, ToolCall \/ ToolGoesOn \/ KernelDies
  PROVE  ExecInv'
<1> USE DEF shared, outcome, worker, tool, cell, Statuses, Terminal
<1>0. NoTask \notin Tasks
  BY BatchesAssumption
<1>1. ASSUME NEW b \in Batches, Submit(b) PROVE ExecInv'
  <2>1. b \in Seq(Tasks) /\ NoRepeat(b) /\ Elements(b) \subseteq Tasks
    BY BatchesAssumption, ElementsAreTasks DEF NoRepeat
  <2>2. Elements(queue) \cap Elements(b) = {}
    BY <1>1 DEF Submit, ExecInv, QueueOK
  <2>3. /\ queue' \in Seq(Tasks) /\ NoRepeat(queue')
        /\ Elements(queue') = Elements(queue) \cup Elements(b)
    BY <1>1, <2>1, <2>2, PutBehind DEF Submit, ExecInv, TypeOK, QueueOK
  <2>4. \A t \in Elements(b) : t \notin done /\ t # held /\ t \notin sent
    BY <1>0, <1>1, <2>1
      DEF Submit, ExecInv, TypeOK, HeldOK, HeldStatus, DoneOK, SentOK, HoldsTask
  <2>5. wpc' \in HoldsTask <=> wpc \in HoldsTask
    BY <1>1 DEF Submit, Notify, HoldsTask
  <2>6. wpc' = wpc \/ (wpc = "waiting" /\ wpc' = "loop")
    BY <1>1 DEF Submit, Notify
  <2>7. \A t \in Tasks : status'[t] = IF t \in Elements(b) THEN "queued" ELSE status[t]
    BY <1>1 DEF Submit
  <2>8. TypeOK'
    BY <1>1, <2>3, <2>6 DEF Submit, ExecInv, TypeOK
  <2>9. HeldOK' /\ QueueOK'
    <3>1. Elements(queue) \subseteq Tasks
      BY ElementsAreTasks DEF ExecInv, TypeOK
    <3>2. HeldOK'
      BY <1>1, <2>3, <2>4, <2>6 DEF Submit, ExecInv, HeldOK, HoldsTask
    <3>3. QueueOK'
      BY <1>1, <2>1, <2>3, <2>4, <2>7, <3>1 DEF Submit, ExecInv, QueueOK
    <3> QED BY <3>2, <3>3
  <2>10. HeldStatus'
    BY <1>0, <1>1, <2>4, <2>6, <2>7 DEF Submit, ExecInv, TypeOK, HeldOK, HeldStatus, HoldsTask
  <2>11. DoneOK' /\ SentOK'
    BY <1>1, <2>4, <2>7 DEF Submit, ExecInv, TypeOK, DoneOK, SentOK
  <2> QED BY <2>8, <2>9, <2>10, <2>11 DEF ExecInv
<1>2. ASSUME DropQueue, wpc' \in {wpc, "loop"}, wpc' # wpc => wpc = "waiting",
             UNCHANGED <<current, failed, held, seen, cell>>,
             stopping' \in {"no", "yes"}, stopped' \in {"no", "yes"},
             tpc' \in {"signal", "kill"}
      PROVE  ExecInv'
  <2>1. queue' = <<>> /\ queue' \in Seq(Tasks) /\ Elements(queue') = {} /\ NoRepeat(queue')
    BY <1>2 DEF DropQueue, Elements, NoRepeat
  <2>2. Elements(queue) \subseteq Tasks
    BY ElementsAreTasks DEF ExecInv, TypeOK
  <2>3. \A t \in Tasks : status'[t] = IF t \in Elements(queue) THEN "cancelled" ELSE status[t]
    BY <1>2 DEF DropQueue
  <2>4. \A t \in Elements(queue) : t # held /\ t \notin sent
    BY DEF ExecInv, HeldOK, QueueOK, SentOK
  <2>5. TypeOK'
    BY <1>2, <2>1, <2>2, <2>3 DEF DropQueue, ExecInv, TypeOK
  <2>6. HeldOK' /\ QueueOK'
    BY <1>2, <2>1, <2>4 DEF DropQueue, ExecInv, TypeOK, HeldOK, QueueOK, HoldsTask
  <2>7. HeldStatus'
    BY <1>0, <1>2, <2>3, <2>4 DEF ExecInv, TypeOK, HeldOK, HeldStatus, HoldsTask
  <2>8. DoneOK' /\ SentOK'
    BY <1>2, <2>2, <2>3, <2>4 DEF DropQueue, ExecInv, TypeOK, DoneOK, SentOK
  <2> QED BY <2>5, <2>6, <2>7, <2>8 DEF ExecInv
<1>3. ASSUME CancelQueued PROVE ExecInv'
  BY <1>2, <1>3 DEF CancelQueued, ExecInv, TypeOK
<1>4. ASSUME StopExecutor PROVE ExecInv'
  BY <1>2, <1>4 DEF StopExecutor, Notify, ExecInv, TypeOK
<1>5. ASSUME \/ \E clear \in BOOLEAN : ReadActivity(clear)
             \/ BeginStop \/ SignalKernel \/ StopKernel \/ KernelDies
      PROVE  ExecInv'
  <2>1. UNCHANGED <<queue, current, stopped, status, done, failed, wpc, held, sent>>
    BY <1>5 DEF ReadActivity, BeginStop, SignalKernel, StopKernel, KernelDies
  <2>2. /\ stopping' \in {"no", "yes"} /\ signalled' \in {"no", "yes"} /\ kernel' \in {"up", "down"}
        /\ seen' \in Tasks \cup {NoTask}
        /\ tpc' \in {"free", "cancel", "signal", "stop", "kill", "gone"}
    BY <1>5 DEF ReadActivity, BeginStop, SignalKernel, StopKernel, KernelDies, ExecInv, TypeOK
  <2> QED BY <2>1, <2>2
    DEF ExecInv, TypeOK, HeldOK, QueueOK, HeldStatus, DoneOK, SentOK, Elements, NoRepeat, HoldsTask
<1> QED BY <1>1, <1>3, <1>4, <1>5 DEF ToolCall, ToolGoesOn

\* What the worker does.
LEMMA WorkerInv ==
  ASSUME ExecInv, WorkerStep
  PROVE  ExecInv'
<1> USE DEF shared, outcome, worker, tool, cell, Statuses, Terminal, HoldsTask
<1>0. NoTask \notin Tasks /\ \A b \in Batches : b \in Seq(Tasks)
  BY BatchesAssumption
<1>1. ASSUME Wait \/ Exit PROVE ExecInv'
  BY <1>1 DEF Wait, Exit, ExecInv, TypeOK, HeldOK, QueueOK, HeldStatus, DoneOK, SentOK, Elements, NoRepeat
<1>2. ASSUME Take PROVE ExecInv'
  <2>1. /\ held' \in Tasks /\ queue' \in Seq(Tasks) /\ NoRepeat(queue')
        /\ Elements(queue) = Elements(queue') \cup {held'} /\ held' \notin Elements(queue')
    BY <1>2, TakeFirst DEF Take, ExecInv, TypeOK, QueueOK
  <2>2. status[held'] = "queued" /\ held' \notin done
    BY <2>1 DEF ExecInv, QueueOK
  <2>3. TypeOK'
    BY <1>2, <2>1 DEF Take, ExecInv, TypeOK
  <2>4. HeldOK' /\ QueueOK' /\ HeldStatus'
    BY <1>0, <1>2, <2>1, <2>2 DEF Take, ExecInv, HeldOK, QueueOK, HeldStatus
  <2> QED BY <1>2, <2>3, <2>4 DEF Take, ExecInv, DoneOK, SentOK
<1>3. ASSUME ClearCurrent PROVE ExecInv'
  BY <1>0, <1>3
    DEF ClearCurrent, ExecInv, TypeOK, HeldOK, QueueOK, HeldStatus, DoneOK, SentOK, Elements, NoRepeat
<1>4. ASSUME SetDone PROVE ExecInv'
  <2>1. held \in Tasks /\ status[held] \in Terminal
    BY <1>4 DEF SetDone, ExecInv, TypeOK, HeldOK, HeldStatus
  <2>2. Elements(queue') = Elements(queue) /\ (NoRepeat(queue) => NoRepeat(queue'))
    BY <1>4 DEF SetDone
  <2>3. held \notin Elements(queue) /\ NoTask \notin Elements(queue)
    BY <1>0, ElementsAreTasks DEF ExecInv, TypeOK, HeldOK
  <2>4. TypeOK'
    BY <1>4, <2>1 DEF SetDone, ExecInv, TypeOK
  <2>5. HeldOK'
    BY <1>0, <1>4, <2>1, <2>2, <2>3 DEF SetDone, ExecInv, TypeOK, HeldOK
  <2>6. QueueOK' /\ HeldStatus' /\ DoneOK' /\ SentOK'
    BY <1>4, <2>1, <2>2, <2>3 DEF SetDone, ExecInv, QueueOK, HeldStatus, DoneOK, SentOK
  <2> QED BY <2>4, <2>5, <2>6 DEF ExecInv
<1>5. ASSUME NEW st \in Terminal, NEW fails \in BOOLEAN, Return(st, fails), held # NoTask,
             wpc # "cleared",
             held \in sent => st \in {"ok", "error", "timeout"}
      PROVE  ExecInv'
  <2>1. held \in Tasks /\ status' = [status EXCEPT ![held] = st]
    BY <1>5 DEF Return, ExecInv, TypeOK
  <2>2. \A t \in Tasks : status'[t] = IF t = held THEN st ELSE status[t]
    BY <2>1 DEF ExecInv, TypeOK
  <2>3. failed' \subseteq Batches
    BY <1>5 DEF Return, BatchOf, ExecInv, TypeOK
  <2>4. Elements(queue') = Elements(queue) /\ (NoRepeat(queue) => NoRepeat(queue'))
    BY <1>5 DEF Return
  <2>5. TypeOK'
    BY <1>5, <2>1, <2>3 DEF Return, ExecInv, TypeOK
  <2>6. HeldOK'
    BY <1>5, <2>4 DEF Return, ExecInv, HeldOK
  <2>7. QueueOK'
    BY <1>5, <2>2, <2>4, ElementsAreTasks DEF Return, ExecInv, TypeOK, HeldOK, QueueOK
  <2>8. HeldStatus' /\ DoneOK' /\ SentOK'
    BY <1>5, <2>1, <2>2 DEF Return, ExecInv, TypeOK, HeldOK, HeldStatus, DoneOK, SentOK
  <2> QED BY <2>5, <2>6, <2>7, <2>8 DEF ExecInv
<1>6. ASSUME Refuse PROVE ExecInv'
  BY <1>5, <1>6 DEF Refuse, ExecInv, HeldOK, HeldStatus, SentOK
<1>7. ASSUME Accept PROVE ExecInv'
  BY <1>0, <1>7
    DEF Accept, ExecInv, TypeOK, HeldOK, QueueOK, HeldStatus, DoneOK, SentOK, Elements, NoRepeat
<1>8. ASSUME StartFails PROVE ExecInv'
  BY <1>5, <1>8 DEF StartFails, ExecInv, HeldOK, HeldStatus, SentOK
<1>9. ASSUME NEW st \in {"running", "ok", "error", "timeout"},
             NEW pc \in {"ready", "running", "replied"},
             wpc \in {"starting", "ready", "running"},
             pc \in {"ready", "running"} <=> st = "running",
             status' = [status EXCEPT ![held] = st], wpc' = pc,
             kernel' \in {"up", "down"}, signalled' \in {"no", "yes"},
             sent' \in {sent, sent \cup {held}},
             UNCHANGED <<shared, done, failed, held, tool>>
      PROVE  ExecInv'
  <2>1. held \in Tasks /\ held \notin done /\ held \notin Elements(queue)
    BY <1>0, <1>9 DEF ExecInv, TypeOK, HeldOK
  <2>2. \A t \in Tasks : status'[t] = IF t = held THEN st ELSE status[t]
    BY <1>9 DEF ExecInv, TypeOK
  <2>3. Elements(queue') = Elements(queue) /\ (NoRepeat(queue) => NoRepeat(queue'))
    BY <1>9
  <2>4. TypeOK'
    BY <1>9, <2>1 DEF ExecInv, TypeOK
  <2>5. HeldOK' /\ HeldStatus'
    BY <1>9, <2>1, <2>2, <2>3 DEF ExecInv, HeldOK, HeldStatus
  <2>6. QueueOK'
    BY <1>9, <2>1, <2>2, <2>3, ElementsAreTasks DEF ExecInv, TypeOK, QueueOK
  <2>7. DoneOK' /\ SentOK'
    BY <1>9, <2>1, <2>2 DEF ExecInv, TypeOK, DoneOK, SentOK
  <2> QED BY <2>4, <2>5, <2>6, <2>7 DEF ExecInv
<1>10. ASSUME Send PROVE ExecInv'
  <2>1. status' = [status EXCEPT ![held] = "running"]
    BY <1>0, <1>10 DEF Send, ExecInv, TypeOK, HeldOK, HeldStatus
  <2> QED BY <1>9, <1>10, <2>1 DEF Send
<1>11. ASSUME Reply PROVE ExecInv'
  <2>1. CASE Return("error", TRUE)
    BY <1>5, <1>11, <2>1 DEF Reply, ExecInv, HeldOK
  <2>2. CASE wpc' = "replied"
    BY <1>9, <1>11, <2>2 DEF Reply, Return, ExecInv, TypeOK
  <2> QED BY <1>11, <2>1, <2>2 DEF Reply
<1>12. ASSUME Conclude PROVE ExecInv'
  <2>1. held # NoTask /\ status[held] \in {"ok", "error", "timeout"}
    BY <1>12 DEF Conclude, ExecInv, HeldOK, HeldStatus
  <2> QED BY <1>5, <1>12, <2>1 DEF Conclude
<1>13. ASSUME EnsureStarted PROVE ExecInv'
  BY <1>9, <1>13 DEF EnsureStarted, ExecInv, TypeOK
<1> QED BY <1>1, <1>2, <1>3, <1>4, <1>6, <1>7, <1>8, <1>10, <1>11, <1>12, <1>13 DEF WorkerStep, RunTask

\* The invariant is one of every behaviour, fair or not.
LEMMA Inductive == SafeSpec => []ExecInv
<1>1. ExecInv /\ UNCHANGED vars => ExecInv'
  BY DEF vars, shared, outcome, worker, tool, cell, ExecInv, TypeOK, HeldOK, QueueOK, HeldStatus,
         DoneOK, SentOK, Elements, NoRepeat, HoldsTask
<1>2. ExecInv /\ [Next]_vars => ExecInv'
  BY <1>1, ToolInv, WorkerInv DEF Next
<1> QED BY InitInv, <1>2, PTL DEF SafeSpec

----------------------------------------------------------------------------
\* The types hold in every reachable state.
THEOREM TypeCorrect == SafeSpec => []TypeOK
<1>1. ExecInv => TypeOK
  BY DEF ExecInv
<1> QED BY <1>1, Inductive, PTL

\* Whoever a done event wakes finds the outcome settled and the executor done
\* with the task, whatever cancels, interrupts and stops in the meantime.
THEOREM WaitersFindSettled == SafeSpec => []DoneIsSettled
<1>1. ExecInv => DoneIsSettled
  <2> SUFFICES ASSUME ExecInv, NEW t \in done
               PROVE  status[t] \in Terminal /\ t # current /\ t \notin Elements(queue)
    BY DEF DoneIsSettled
  <2>1. t \in Tasks /\ NoTask \notin Tasks
    BY BatchesAssumption DEF ExecInv, TypeOK
  <2>2. t # current
    BY <2>1 DEF ExecInv, HeldOK
  <2> QED BY <2>2 DEF ExecInv, DoneOK, QueueOK
<1> QED BY <1>1, Inductive, PTL

\* What is reported as skipped, cancelled or superseded never reached the kernel.
THEOREM NotRunNeverSent == SafeSpec => []NotRunMeansNotSent
<1>1. ExecInv => NotRunMeansNotSent
  BY DEF ExecInv, DoneOK, SentOK, NotRunMeansNotSent, Terminal
<1> QED BY <1>1, Inductive, PTL

\* Only tasks that are not over change their status.
LEMMA StatusMoves ==
  ASSUME ExecInv, Next
  PROVE  \/ UNCHANGED status
         \/ \E b \in Batches : Submit(b)
         \/ DropQueue
         \/ held # NoTask /\ \E st : status' = [status EXCEPT ![held] = st]
<1> USE DEF outcome
<1>1. CASE ToolCall
  BY <1>1 DEF ToolCall, ReadActivity, BeginStop
<1>2. CASE ToolGoesOn
  BY <1>2 DEF ToolGoesOn, CancelQueued, SignalKernel, StopExecutor, StopKernel
<1>3. CASE Wait \/ Exit \/ Take \/ Accept \/ Send \/ ClearCurrent \/ SetDone \/ KernelDies
  BY <1>3 DEF Wait, Exit, Take, Accept, Send, ClearCurrent, SetDone, KernelDies
<1>4. CASE Refuse \/ EnsureStarted \/ StartFails \/ Reply \/ Conclude
  <2>1. held # NoTask
    BY <1>4 DEF Refuse, EnsureStarted, StartFails, Reply, Conclude, ExecInv, HeldOK, HoldsTask
  <2> QED BY <1>4, <2>1 DEF Refuse, EnsureStarted, StartFails, Reply, Conclude, Return
<1> QED BY <1>1, <1>2, <1>3, <1>4 DEF Next, WorkerStep, RunTask

\* done only grows.
LEMMA DoneGrows ==
  ASSUME Next
  PROVE  done \subseteq done'
BY DEF Next, ToolCall, ToolGoesOn, WorkerStep, RunTask, Submit, ReadActivity, BeginStop, CancelQueued,
       SignalKernel, StopExecutor, StopKernel, DropQueue, Wait, Exit, Take, ClearCurrent, SetDone,
       KernelDies, Refuse, Accept, EnsureStarted, StartFails, Send, Reply, Conclude,
       Return, outcome

\* An outcome that somebody may have read stays what it is.
THEOREM OutcomesAreFinal == SafeSpec => DoneIsFinal
<1>1. ASSUME ExecInv, Next, NEW t \in done PROVE t \in done' /\ status'[t] = status[t]
  <2>1. /\ t \in done' /\ t \in Tasks
        /\ t # held /\ t \notin Elements(queue) /\ status[t] \notin {"new", "queued"}
    BY <1>1, DoneGrows DEF ExecInv, TypeOK, HeldOK, QueueOK, DoneOK, Terminal
  <2>2. \A b \in Batches : Submit(b) => status'[t] = status[t]
    BY <2>1 DEF Submit
  <2>3. DropQueue => status'[t] = status[t]
    BY <2>1 DEF DropQueue
  <2>4. \A st : status' = [status EXCEPT ![held] = st] => status'[t] = status[t]
    BY <1>1, <2>1 DEF ExecInv, TypeOK
  <2> QED BY <1>1, <2>1, <2>2, <2>3, <2>4, StatusMoves
<1>2. ExecInv /\ [Next]_vars => [\A t \in done : t \in done' /\ status'[t] = status[t]]_vars
  BY <1>1
<1> QED BY <1>2, Inductive, PTL DEF SafeSpec, DoneIsFinal

----------------------------------------------------------------------------
(* Failing fast: a second inductive invariant, about the order in which    *)
(* the tasks of a batch come to the worker.                                *)

\* A submitted task is waiting, at work or over.
NoneLost == \A t \in Tasks : status[t] # "new" => t \in done \/ t = held \/ t \in Elements(queue)

\* A batch is submitted as a whole.
AllOrNone ==
  \A b \in Batches : \A i, j \in DOMAIN b : status[b[i]] = "new" => status[b[j]] = "new"

\* Behind a waiting task wait all later ones of its batch.
Ordered ==
  \A q \in DOMAIN queue : \A b \in Batches : \A i, j \in DOMAIN b :
    queue[q] = b[i] /\ i < j => \E r \in DOMAIN queue : q < r /\ queue[r] = b[j]

\* The tasks before the one at work, and before any that was sent, are over.
EarlierOver ==
  \A b \in Batches : \A i, j \in DOMAIN b :
    i < j /\ (b[j] = held \/ b[j] \in sent) => b[i] \in done

Failures == {"error", "timeout"}

\* A failure is noted in its batch when _run_task returns.
FailedNoted ==
  \A b \in Batches : \A i \in DOMAIN b :
    /\ b[i] \notin Adhoc
    /\ status[b[i]] \in Failures
    /\ b[i] \in done \/ (b[i] = held /\ wpc \in {"returned", "cleared"})
    => b \in failed

\* The worker starts no task of a batch that failed.
AcceptedClean ==
  \A b \in Batches : held \in Elements(b) \ Adhoc /\ wpc \in {"starting", "ready"} => b \notin failed

SentAfterOk ==
  \A b \in Batches : \A i, j \in DOMAIN b :
    i < j /\ b[j] \in sent => status[b[i]] \notin Failures

OrderInv ==
  NoneLost /\ AllOrNone /\ Ordered /\ EarlierOver /\ FailedNoted /\ AcceptedClean /\ SentAfterOk

\* Tasks of batches.
LEMMA BatchFacts ==
  ASSUME NEW b \in Batches
  PROVE  /\ b \in Seq(Tasks) /\ \A i \in DOMAIN b : b[i] \in Tasks /\ b[i] \in Elements(b) /\ i \in Nat
         /\ \A i, j \in DOMAIN b : i < j => b[i] \notin Adhoc /\ b[j] \notin Adhoc
         /\ \A i, j \in DOMAIN b : i < j => b[i] # b[j]
         /\ \A t \in Elements(b) : BatchOf(t) = {b}
<1>1. b \in Seq(Tasks) /\ DOMAIN b = 1..Len(b) /\ Len(b) \in Nat
  BY BatchesAssumption
<1>2. \A i \in DOMAIN b : b[i] \in Tasks /\ b[i] \in Elements(b) /\ i \in Nat
  BY <1>1 DEF Elements
<1>3. ASSUME NEW i \in DOMAIN b, NEW j \in DOMAIN b, i < j
      PROVE  b[i] \notin Adhoc /\ b[j] \notin Adhoc /\ b[i] # b[j]
  <2>1. Len(b) # 1 /\ i # j
    BY <1>1, <1>3
  <2> QED BY <2>1, BatchesAssumption
<1>4. ASSUME NEW t \in Elements(b) PROVE BatchOf(t) = {b}
  BY BatchesAssumption DEF BatchOf, Elements
<1> QED BY <1>1, <1>2, <1>3, <1>4

\* Nothing has been submitted initially.
LEMMA InitOrder == Init => OrderInv
<1> SUFFICES ASSUME Init PROVE OrderInv
  OBVIOUS
<1>1. DOMAIN queue = {} /\ held = NoTask /\ NoTask \notin Tasks /\ sent = {} /\ done = {}
  BY BatchesAssumption DEF Init
<1>2. \A t \in Tasks : status[t] = "new"
  BY DEF Init
<1>3. NoneLost /\ AllOrNone /\ Ordered
  BY <1>1, <1>2, BatchFacts DEF NoneLost, AllOrNone, Ordered
<1>4. EarlierOver /\ SentAfterOk
  BY <1>1, BatchFacts DEF EarlierOver, SentAfterOk
<1>5. FailedNoted /\ AcceptedClean
  BY <1>1, BatchFacts DEF FailedNoted, AcceptedClean, Init
<1> QED BY <1>3, <1>4, <1>5 DEF OrderInv

\* Submitting a batch and clearing the queue.
LEMMA ToolOrder ==
  ASSUME ExecInv, ExecInv', OrderInv, ToolCall \/ ToolGoesOn \/ KernelDies
  PROVE  OrderInv'
<1> USE DEF shared, outcome, worker, tool, cell, OrderInv
<1>0. Elements(queue) \subseteq Tasks /\ NoTask \notin Tasks
  BY ElementsAreTasks, BatchesAssumption DEF ExecInv, TypeOK
<1>1. ASSUME NEW b \in Batches, Submit(b) PROVE OrderInv'
  <2>1. /\ \A t \in Tasks : status'[t] = IF t \in Elements(b) THEN "queued" ELSE status[t]
        /\ held' = held /\ sent' = sent /\ done' = done /\ failed' = failed
        /\ queue' = queue \o b
        /\ \A t \in Elements(b) : status[t] = "new"
    BY <1>1 DEF Submit
  <2>2. b \in Seq(Tasks) /\ queue \in Seq(Tasks)
    BY BatchesAssumption DEF ExecInv, TypeOK
  <2>3. \A t \in Elements(b) : t \in Tasks /\ t # held /\ t \notin sent /\ t \notin done
    BY <1>0, <2>1, <2>2, ElementsAreTasks
      DEF ExecInv, TypeOK, HeldOK, HeldStatus, DoneOK, SentOK, HoldsTask, Terminal
  <2>4. Elements(queue') = Elements(queue) \cup Elements(b)
    <3>1. NoRepeat(queue) /\ NoRepeat(b)
      BY BatchesAssumption DEF NoRepeat, ExecInv, QueueOK
    <3>2. Elements(queue) \cap Elements(b) = {}
      BY <2>1 DEF ExecInv, QueueOK
    <3> QED BY <2>1, <2>2, <3>1, <3>2, PutBehind
  <2>5. NoneLost'
    BY <2>1, <2>3, <2>4 DEF NoneLost
  <2>6. \A d \in Batches : d # b => \A i \in DOMAIN d : d[i] \notin Elements(b)
    BY BatchesAssumption DEF Elements
  <2>7. AllOrNone'
    <3> SUFFICES ASSUME NEW d \in Batches, NEW i \in DOMAIN d, NEW j \in DOMAIN d,
                        status'[d[i]] = "new"
                 PROVE  status'[d[j]] = "new"
      BY DEF AllOrNone
    <3>1. CASE d = b
      BY <2>1, <3>1, BatchFacts
    <3>2. CASE d # b
      BY <2>1, <2>6, <3>2, BatchFacts DEF AllOrNone
    <3> QED BY <3>1, <3>2
  <2>8. Ordered'
    <3> SUFFICES ASSUME NEW q \in DOMAIN queue', NEW d \in Batches, NEW i \in DOMAIN d,
                        NEW j \in DOMAIN d, queue'[q] = d[i], i < j
                 PROVE  \E r \in DOMAIN queue' : q < r /\ queue'[r] = d[j]
      BY DEF Ordered
    <3>1. /\ Len(queue) \in Nat /\ DOMAIN queue = 1..Len(queue)
          /\ Len(b) \in Nat /\ DOMAIN b = 1..Len(b)
          /\ DOMAIN queue' = 1..(Len(queue) + Len(b))
          /\ \A r \in DOMAIN queue :
               r \in DOMAIN queue' /\ queue'[r] = queue[r]
          /\ \A r \in DOMAIN b :
               r + Len(queue) \in DOMAIN queue' /\ queue'[r + Len(queue)] = b[r]
      BY <2>1, <2>2
    <3>2. CASE q \in DOMAIN queue
      <4>1. PICK r \in DOMAIN queue : q < r /\ queue[r] = d[j]
        BY <3>1, <3>2 DEF Ordered
      <4> QED BY <3>1, <4>1
    <3>3. CASE q \notin DOMAIN queue
      <4>1. q - Len(queue) \in DOMAIN b /\ b[q - Len(queue)] = d[i] /\ q \in Nat
        BY <2>1, <2>2, <3>1, <3>3
      <4>2. d = b /\ i = q - Len(queue)
        BY <4>1, BatchesAssumption
      <4>3. j + Len(queue) \in DOMAIN queue' /\ queue'[j + Len(queue)] = d[j]
        BY <3>1, <4>2
      <4>4. q < j + Len(queue)
        BY <3>1, <4>1, <4>2
      <4> QED BY <4>3, <4>4
    <3> QED BY <3>2, <3>3
  <2>9. EarlierOver'
    BY <2>1 DEF EarlierOver
  <2>10. wpc' = wpc \/ (wpc = "waiting" /\ wpc' = "loop")
    BY <1>1 DEF Submit, Notify
  <2>11. FailedNoted' /\ AcceptedClean'
    BY <2>1, <2>10, BatchFacts DEF FailedNoted, AcceptedClean, Failures
  <2>12. SentAfterOk'
    BY <2>1, BatchFacts DEF SentAfterOk, Failures
  <2> QED BY <2>5, <2>7, <2>8, <2>9, <2>11, <2>12
<1>2. ASSUME DropQueue, held' = held, sent' = sent, failed' = failed,
             wpc' = wpc \/ (wpc = "waiting" /\ wpc' = "loop")
      PROVE  OrderInv'
  <2>1. /\ \A t \in Tasks : status'[t] = IF t \in Elements(queue) THEN "cancelled" ELSE status[t]
        /\ done' = done \cup Elements(queue) /\ DOMAIN queue' = {} /\ Elements(queue') = {}
    BY <1>2 DEF DropQueue, Elements
  <2>2. \A t \in Elements(queue) : status[t] = "queued"
    BY DEF ExecInv, QueueOK
  <2>3. NoneLost' /\ AllOrNone' /\ Ordered'
    BY <1>2, <2>1, <2>2, BatchFacts DEF NoneLost, AllOrNone, Ordered
  <2>4. EarlierOver' /\ SentAfterOk'
    BY <1>2, <2>1, BatchFacts DEF EarlierOver, SentAfterOk, Failures
  <2>5. FailedNoted' /\ AcceptedClean'
    BY <1>2, <2>1, BatchFacts DEF FailedNoted, AcceptedClean, Failures
  <2> QED BY <2>3, <2>4, <2>5
<1>3. ASSUME CancelQueued \/ StopExecutor PROVE OrderInv'
  BY <1>2, <1>3 DEF CancelQueued, StopExecutor, Notify
<1>4. ASSUME \/ \E clear \in BOOLEAN : ReadActivity(clear)
             \/ BeginStop \/ SignalKernel \/ StopKernel \/ KernelDies
      PROVE  OrderInv'
  <2>1. UNCHANGED <<queue, status, done, failed, wpc, held, sent>>
    BY <1>4 DEF ReadActivity, BeginStop, SignalKernel, StopKernel, KernelDies
  <2> QED BY <2>1
    DEF NoneLost, AllOrNone, Ordered, EarlierOver, FailedNoted, AcceptedClean, SentAfterOk, Elements
<1> QED BY <1>1, <1>3, <1>4 DEF ToolCall, ToolGoesOn

\* The worker takes, starts, ends and reports a task.
LEMMA WorkerOrder ==
  ASSUME ExecInv, ExecInv', OrderInv, WorkerStep
  PROVE  OrderInv'
<1> USE DEF shared, outcome, worker, tool, cell, OrderInv
<1>0. Elements(queue) \subseteq Tasks /\ NoTask \notin Tasks
  BY ElementsAreTasks, BatchesAssumption DEF ExecInv, TypeOK
<1>1. ASSUME Wait \/ Exit \/ ClearCurrent PROVE OrderInv'
  <2>1. UNCHANGED <<queue, status, done, failed, held, sent>>
    BY <1>1 DEF Wait, Exit, ClearCurrent
  <2>2. wpc' \in {"waiting", "exited"} \/ (wpc = "returned" /\ wpc' = "cleared")
    BY <1>1 DEF Wait, Exit, ClearCurrent
  <2> QED BY <2>1, <2>2
    DEF NoneLost, AllOrNone, Ordered, EarlierOver, FailedNoted, AcceptedClean, SentAfterOk, Elements
<1>2. ASSUME Take PROVE OrderInv'
  <2>1. /\ held = NoTask /\ held' = Head(queue) /\ queue' = Tail(queue)
        /\ UNCHANGED <<status, done, failed, sent>> /\ wpc' = "taken"
    BY <1>2 DEF Take, ExecInv, HeldOK, HoldsTask
  <2>2. /\ Len(queue) \in Nat /\ DOMAIN queue = 1..Len(queue) /\ 1 \in DOMAIN queue
        /\ held' = queue[1] /\ DOMAIN queue' = 1..(Len(queue) - 1)
        /\ \A q \in DOMAIN queue' : queue'[q] = queue[q + 1]
    BY <1>2, <2>1 DEF Take, ExecInv, TypeOK
  <2>3. held' \in Elements(queue) /\ Elements(queue) = Elements(queue') \cup {held'}
    BY <1>2, <2>1, TakeFirst DEF Take, ExecInv, TypeOK, QueueOK
  <2>4. NoneLost' /\ AllOrNone'
    BY <2>1, <2>3, <1>0, BatchFacts DEF NoneLost, AllOrNone
  <2>5. Ordered'
    <3> SUFFICES ASSUME NEW q \in DOMAIN queue', NEW b \in Batches, NEW i \in DOMAIN b,
                        NEW j \in DOMAIN b, queue'[q] = b[i], i < j
                 PROVE  \E r \in DOMAIN queue' : q < r /\ queue'[r] = b[j]
      BY DEF Ordered
    <3>1. q + 1 \in DOMAIN queue /\ queue[q + 1] = b[i]
      BY <2>2
    <3>2. PICK r \in DOMAIN queue : q + 1 < r /\ queue[r] = b[j]
      BY <3>1 DEF Ordered
    <3>3. r - 1 \in DOMAIN queue' /\ queue'[r - 1] = b[j] /\ q < r - 1
      BY <2>2, <3>2
    <3> QED BY <3>3
  <2>6. EarlierOver'
    <3> SUFFICES ASSUME NEW b \in Batches, NEW i \in DOMAIN b, NEW j \in DOMAIN b, i < j,
                        b[j] = held'
                 PROVE  b[i] \in done
      BY <2>1 DEF EarlierOver
    <3>1. status[b[j]] = "queued"
      BY <2>3 DEF ExecInv, QueueOK
    <3>2. status[b[i]] # "new" /\ b[i] \in Tasks
      BY <3>1, BatchFacts DEF AllOrNone
    <3>3. b[i] \notin Elements(queue)
      <4> SUFFICES ASSUME NEW q \in DOMAIN queue, queue[q] = b[i] PROVE FALSE
        BY DEF Elements
      <4>1. PICK r \in DOMAIN queue : q < r /\ queue[r] = b[j]
        BY DEF Ordered
      <4>2. r # 1 /\ queue[r] = queue[1]
        BY <2>2, <4>1
      <4> QED BY <2>2, <4>1, <4>2 DEF ExecInv, QueueOK, NoRepeat
    <3> QED BY <1>0, <2>1, <3>2, <3>3 DEF NoneLost
  <2>7. FailedNoted' /\ AcceptedClean' /\ SentAfterOk'
    BY <2>1 DEF FailedNoted, AcceptedClean, SentAfterOk
  <2> QED BY <2>4, <2>5, <2>6, <2>7
<1>3. ASSUME SetDone PROVE OrderInv'
  <2>1. /\ held' = NoTask /\ done' = done \cup {held} /\ wpc = "cleared" /\ wpc' = "loop"
        /\ UNCHANGED <<queue, status, failed, sent>>
    BY <1>3 DEF SetDone
  <2>2. NoneLost' /\ AllOrNone' /\ Ordered'
    BY <2>1, BatchFacts DEF NoneLost, AllOrNone, Ordered, Elements
  <2>3. EarlierOver' /\ SentAfterOk'
    BY <1>0, <2>1, BatchFacts DEF EarlierOver, SentAfterOk
  <2>4. FailedNoted' /\ AcceptedClean'
    BY <2>1 DEF FailedNoted, AcceptedClean
  <2> QED BY <2>2, <2>3, <2>4
\* A change of the status of the worker's task, by name.
<1>4. ASSUME NEW st \in Statuses, status' = [status EXCEPT ![held] = st], st # "new",
             held # NoTask, UNCHANGED <<queue, done, held>>,
             sent' = sent \/ sent' = sent \cup {held}
      PROVE  /\ NoneLost' /\ AllOrNone' /\ Ordered' /\ EarlierOver'
             /\ \A t \in Tasks : status'[t] = IF t = held THEN st ELSE status[t]
  <2>1. \A t \in Tasks : status'[t] = IF t = held THEN st ELSE status[t]
    BY <1>4 DEF ExecInv, TypeOK
  <2>2. status[held] # "new" /\ held \in Tasks
    BY <1>4 DEF ExecInv, TypeOK, HeldOK, HeldStatus, Terminal, HoldsTask
  <2>3. NoneLost' /\ Ordered'
    BY <1>4, <2>1, <2>2 DEF NoneLost, Ordered, Elements
  <2>4. AllOrNone'
    <3> SUFFICES ASSUME NEW b \in Batches, NEW i \in DOMAIN b, NEW j \in DOMAIN b,
                        status'[b[i]] = "new"
                 PROVE  status'[b[j]] = "new"
      BY DEF AllOrNone
    <3>1. b[i] \in Tasks /\ b[j] \in Tasks
      BY BatchFacts
    <3>2. status[b[i]] = "new"
      BY <1>4, <2>1, <3>1
    <3>3. status[b[j]] = "new"
      BY <3>2 DEF AllOrNone
    <3> QED BY <2>1, <2>2, <3>1, <3>3
  <2>5. EarlierOver'
    BY <1>4 DEF EarlierOver
  <2> QED BY <2>1, <2>3, <2>4, <2>5
\* No task before the worker's was left with a status that can still change.
<1>5. ASSUME held # NoTask
      PROVE  \A b \in Batches : \A i, j \in DOMAIN b : i < j /\ b[j] \in sent => b[i] # held
  BY DEF EarlierOver, ExecInv, HeldOK
<1>6. ASSUME NEW st \in Terminal, NEW fails \in BOOLEAN, Return(st, fails), held # NoTask,
             wpc # "cleared", st \in Failures => fails \/ held \in Adhoc
      PROVE  OrderInv'
  <2>1. /\ status' = [status EXCEPT ![held] = st] /\ UNCHANGED <<queue, done, held, sent>>
        /\ wpc' = "returned" /\ failed' = IF fails THEN failed \cup BatchOf(held) ELSE failed
    BY <1>6 DEF Return
  <2>2. st \in Statuses /\ st # "new"
    BY DEF Terminal
  <2>3. /\ NoneLost' /\ AllOrNone' /\ Ordered' /\ EarlierOver'
        /\ \A t \in Tasks : status'[t] = IF t = held THEN st ELSE status[t]
    BY <1>4, <1>6, <2>1, <2>2
  <2>4. FailedNoted'
    <3> SUFFICES ASSUME NEW b \in Batches, NEW i \in DOMAIN b, b[i] \notin Adhoc,
                        status'[b[i]] \in Failures,
                        b[i] \in done \/ b[i] = held
                 PROVE  b \in failed'
      BY <2>1 DEF FailedNoted
    <3>1. CASE b[i] = held
      <4>1. BatchOf(held) = {b} /\ st \in Failures /\ held \notin Adhoc
        BY <2>3, <3>1, BatchFacts
      <4> QED BY <1>6, <2>1, <4>1
    <3>2. CASE b[i] # held
      <4>1. status[b[i]] \in Failures /\ b[i] \in done
        BY <2>3, <3>2, BatchFacts
      <4> QED BY <2>1, <4>1 DEF FailedNoted
    <3> QED BY <3>1, <3>2
  <2>5. AcceptedClean'
    BY <2>1 DEF AcceptedClean
  <2>6. SentAfterOk'
    BY <1>5, <1>6, <2>1, <2>3, BatchFacts DEF SentAfterOk
  <2> QED BY <2>3, <2>4, <2>5, <2>6
<1>7. ASSUME Refuse PROVE OrderInv'
  <2>1. held # NoTask
    BY <1>7 DEF Refuse, ExecInv, HeldOK, HoldsTask
  <2> QED BY <1>6, <1>7, <2>1 DEF Refuse, Terminal, Statuses, Failures
<1>8. ASSUME Accept PROVE OrderInv'
  <2>1. /\ UNCHANGED <<queue, status, done, failed, held, sent>> /\ wpc' = "starting" /\ ~BatchFailed
    BY <1>8 DEF Accept
  <2>2. AcceptedClean'
    BY <2>1, BatchFacts DEF AcceptedClean, BatchFailed
  <2>3. NoneLost' /\ AllOrNone' /\ Ordered' /\ EarlierOver' /\ FailedNoted' /\ SentAfterOk'
    BY <2>1 DEF NoneLost, AllOrNone, Ordered, EarlierOver, FailedNoted, SentAfterOk, Elements
  <2> QED BY <2>2, <2>3
<1>9. ASSUME StartFails PROVE OrderInv'
  <2>1. held # NoTask
    BY <1>9 DEF StartFails, ExecInv, HeldOK, HoldsTask
  <2> QED BY <1>6, <1>9, <2>1 DEF StartFails, Terminal, Statuses
<1>10. ASSUME Send PROVE OrderInv'
  <2>1. /\ status' = [status EXCEPT ![held] = "running"] /\ UNCHANGED <<queue, done, failed, held>>
        /\ sent' = sent \cup {held} /\ wpc = "ready" /\ wpc' = "running" /\ held # NoTask
    BY <1>10 DEF Send, ExecInv, TypeOK, HeldOK, HeldStatus, HoldsTask
  <2>2. /\ NoneLost' /\ AllOrNone' /\ Ordered' /\ EarlierOver'
        /\ \A t \in Tasks : status'[t] = IF t = held THEN "running" ELSE status[t]
    BY <1>4, <2>1 DEF Statuses
  <2>3. FailedNoted' /\ AcceptedClean'
    BY <2>1, <2>2, BatchFacts DEF FailedNoted, AcceptedClean, Failures
  <2>4. SentAfterOk'
    <3> SUFFICES ASSUME NEW b \in Batches, NEW i \in DOMAIN b, NEW j \in DOMAIN b, i < j,
                        b[j] \in sent', status'[b[i]] \in Failures
                 PROVE  FALSE
      BY DEF SentAfterOk
    <3>1. b[i] \in done /\ b[i] # held /\ b[i] \notin Adhoc /\ b[j] \notin Adhoc
      BY <2>1, BatchFacts DEF EarlierOver, ExecInv, HeldOK
    <3>2. status[b[i]] \in Failures
      BY <2>2, <3>1, BatchFacts
    <3>3. CASE b[j] \in sent
      BY <3>2, <3>3 DEF SentAfterOk
    <3>4. CASE b[j] = held
      <4>1. b \in failed
        BY <3>1, <3>2 DEF FailedNoted
      <4> QED BY <2>1, <3>1, <3>4, <4>1, BatchFacts DEF AcceptedClean
    <3> QED BY <2>1, <3>3, <3>4
  <2> QED BY <2>2, <2>3, <2>4
<1>11. ASSUME Reply PROVE OrderInv'
  <2>1. held # NoTask /\ wpc = "running"
    BY <1>11 DEF Reply, ExecInv, HeldOK, HoldsTask
  <2>2. CASE Return("error", TRUE)
    BY <1>6, <2>1, <2>2 DEF Terminal, Statuses
  <2>3. ASSUME NEW st \in {"ok", "error", "timeout"}, status' = [status EXCEPT ![held] = st],
               wpc' = "replied", UNCHANGED <<queue, done, failed, held, sent>>
        PROVE  OrderInv'
    <3>1. /\ NoneLost' /\ AllOrNone' /\ Ordered' /\ EarlierOver'
          /\ \A t \in Tasks : status'[t] = IF t = held THEN st ELSE status[t]
      BY <1>4, <2>1, <2>3 DEF Statuses
    <3>2. FailedNoted' /\ AcceptedClean'
      BY <2>3, <3>1, BatchFacts DEF FailedNoted, AcceptedClean, ExecInv, HeldOK
    <3>3. SentAfterOk'
      BY <1>5, <2>1, <2>3, <3>1, BatchFacts DEF SentAfterOk
    <3> QED BY <3>1, <3>2, <3>3
  <2> QED BY <1>11, <2>2, <2>3 DEF Reply
<1>12. ASSUME Conclude PROVE OrderInv'
  <2>1. held # NoTask /\ wpc = "replied" /\ status[held] \in {"ok", "error", "timeout"}
    BY <1>12 DEF Conclude, ExecInv, HeldOK, HeldStatus, HoldsTask
  <2> QED BY <1>6, <1>12, <2>1 DEF Conclude, Terminal, Statuses, Failures
<1>13. ASSUME EnsureStarted PROVE OrderInv'
  <2>1. /\ status' = [status EXCEPT ![held] = "running"]
        /\ UNCHANGED <<queue, done, failed, held, sent>>
        /\ wpc = "starting" /\ wpc' = "ready" /\ held # NoTask
    BY <1>13 DEF EnsureStarted, ExecInv, HeldOK, HoldsTask
  <2>2. /\ NoneLost' /\ AllOrNone' /\ Ordered' /\ EarlierOver'
        /\ \A t \in Tasks : status'[t] = IF t = held THEN "running" ELSE status[t]
    BY <1>4, <2>1 DEF Statuses
  <2>3. FailedNoted' /\ AcceptedClean'
    BY <2>1, <2>2, BatchFacts DEF FailedNoted, AcceptedClean, Failures
  <2>4. SentAfterOk'
    BY <1>5, <2>1, <2>2, BatchFacts DEF SentAfterOk, Failures
  <2> QED BY <2>2, <2>3, <2>4
<1> QED BY <1>1, <1>2, <1>3, <1>7, <1>8, <1>9, <1>10, <1>11, <1>12, <1>13 DEF WorkerStep, RunTask

\* After a cell of a batch failed, no later cell of the batch reaches the
\* kernel, for any number of batches of any length.
THEOREM BatchesFailFast == SafeSpec => []FailFast
<1>1. OrderInv /\ UNCHANGED vars => OrderInv'
  BY DEF vars, shared, outcome, worker, tool, cell, OrderInv, NoneLost, AllOrNone, Ordered,
         EarlierOver, FailedNoted, AcceptedClean, SentAfterOk, Elements
<1>2. ExecInv /\ ExecInv' /\ OrderInv /\ [Next]_vars => OrderInv'
  BY <1>1, ToolOrder, WorkerOrder DEF Next
<1>3. OrderInv => FailFast
  BY DEF OrderInv, SentAfterOk, FailFast, Failures
<1> QED BY <1>2, <1>3, InitOrder, Inductive, PTL DEF SafeSpec

----------------------------------------------------------------------------
(* The worker goes on.  Under fairness the two theorems give the liveness   *)
(* of Lifecycle and WorkerEnds: a worker that has something to do is not   *)
(* asleep, and each of its steps leaves it less to do.                     *)

\* The worker never sleeps while a task waits or the executor is stopped: no
\* notification is lost between its look at the queue and its wait.
THEOREM WakeUpsArrive == SafeSpec => []NeverOversleeps
<1>1. Init => NeverOversleeps
  BY DEF Init, NeverOversleeps
<1>2. NeverOversleeps /\ [Next]_vars => NeverOversleeps'
  <2> SUFFICES ASSUME NeverOversleeps, [Next]_vars
               PROVE  NeverOversleeps'
    OBVIOUS
  <2> USE DEF NeverOversleeps, shared, outcome, worker, tool, cell
  <2>1. CASE ToolCall
    BY <2>1 DEF ToolCall, Submit, Notify, ReadActivity, BeginStop
  <2>2. CASE ToolGoesOn
    BY <2>2 DEF ToolGoesOn, CancelQueued, SignalKernel, StopExecutor, StopKernel, DropQueue, Notify
  <2>3. CASE Wait \/ Exit \/ Take \/ ClearCurrent \/ SetDone
    BY <2>3 DEF Wait, Exit, Take, ClearCurrent, SetDone
  <2>4. CASE RunTask
    BY <2>4 DEF RunTask, Refuse, Accept, EnsureStarted, StartFails, Send, Reply, Conclude, Return
  <2>5. CASE KernelDies \/ UNCHANGED vars
    BY <2>5 DEF KernelDies, vars
  <2> QED BY <2>1, <2>2, <2>3, <2>4, <2>5 DEF Next, WorkerStep
<1> QED BY <1>1, <1>2, PTL DEF SafeSpec

\* How far the worker is from having nothing to do.
StepsLeft ==
  [waiting |-> 0, exited |-> 0, loop |-> 1, cleared |-> 2, returned |-> 3, replied |-> 4,
   running |-> 5, ready |-> 6, starting |-> 7, taken |-> 8]
WorkLeft == 8 * Len(queue) + StepsLeft[wpc]

\* Every step of the worker brings it nearer to the end of its work, and only
\* a submission or a stop gives it more to do: it never turns in circles.
WorkShrinks ==
  [][/\ WorkerStep => WorkLeft' < WorkLeft
     /\ WorkLeft' > WorkLeft => \/ \E b \in Batches : Submit(b)
                               \/ StopExecutor]_vars

\* The worker works its queue off: _loop and _run_task never go back, and only
\* submit() and stop() give it something to do.
THEOREM WorkerAdvances == SafeSpec => WorkShrinks
<1>1. ASSUME ExecInv, ExecInv', [Next]_vars, ~UNCHANGED vars
      PROVE  /\ WorkerStep => WorkLeft' < WorkLeft
             /\ WorkLeft' > WorkLeft => StopExecutor \/ \E b \in Batches : Submit(b)
  <2> USE <1>1 DEF shared, outcome, worker, tool, cell
  <2>1. Len(queue) \in Nat /\ Len(queue') \in Nat /\ StepsLeft[wpc] \in Nat /\ StepsLeft[wpc'] \in Nat
    BY DEF ExecInv, TypeOK, StepsLeft
  <2>2. ASSUME Take PROVE WorkLeft' < WorkLeft
    <3>1. Len(queue') = Len(queue) - 1
      BY <2>2 DEF Take, ExecInv, TypeOK
    <3>2. StepsLeft[wpc] = 1 /\ StepsLeft[wpc'] = 8
      BY <2>2 DEF Take, StepsLeft
    <3> QED BY <2>1, <3>1, <3>2 DEF WorkLeft
  <2>3. ASSUME UNCHANGED queue, StepsLeft[wpc'] < StepsLeft[wpc] PROVE WorkLeft' < WorkLeft
    BY <2>1, <2>3 DEF WorkLeft
  <2>4. ASSUME Wait \/ Exit \/ ClearCurrent \/ SetDone PROVE WorkLeft' < WorkLeft
    BY <2>3, <2>4 DEF Wait, Exit, ClearCurrent, SetDone, StepsLeft
  <2>5. ASSUME RunTask PROVE WorkLeft' < WorkLeft
    BY <2>3, <2>5 DEF RunTask, Refuse, Accept, EnsureStarted, StartFails, Send, Reply, Conclude,
                      Return, StepsLeft
  <2>6. WorkerStep => WorkLeft' < WorkLeft
    BY <2>2, <2>4, <2>5 DEF WorkerStep
  <2>7. CASE WorkerStep
    BY <2>1, <2>6, <2>7 DEF WorkLeft
  <2>8. CASE CancelQueued
    <3>1. Len(queue') = 0 /\ wpc' = wpc
      BY <2>8 DEF CancelQueued, DropQueue
    <3> QED BY <2>1, <2>6, <3>1 DEF WorkLeft
  <2>9. CASE SignalKernel \/ StopKernel \/ BeginStop \/ KernelDies
             \/ \E clear \in BOOLEAN : ReadActivity(clear)
    <3>1. queue' = queue /\ wpc' = wpc
      BY <2>9 DEF SignalKernel, StopKernel, BeginStop, KernelDies, ReadActivity
    <3> QED BY <2>1, <2>6, <3>1 DEF WorkLeft
  <2> QED BY <2>6, <2>7, <2>8, <2>9 DEF Next, ToolCall, ToolGoesOn
<1>2. ExecInv /\ ExecInv' /\ [Next]_vars
        => [/\ WorkerStep => WorkLeft' < WorkLeft
            /\ WorkLeft' > WorkLeft => \/ \E b \in Batches : Submit(b)
                                       \/ StopExecutor]_vars
  BY <1>1
<1> QED BY <1>2, Inductive, PTL DEF SafeSpec, WorkShrinks

----------------------------------------------------------------------------
(* The abstract lifecycle.                                                 *)

\* A task not submitted yet is not known to the lifecycle.
LEMMA NewIsUnknown ==
  ASSUME ExecInv
  PROVE  /\ Lifecycle!Queued = Elements(queue)
         /\ \A t \in Tasks : status[t] = "new" => t \notin Elements(queue) \cup {held} \cup done
<1>1. Lifecycle!Queued = Elements(queue)
  BY DEF Lifecycle!Queued, Elements
<1>2. \A t \in Elements(queue) : status[t] = "queued"
  BY DEF ExecInv, QueueOK
<1>3. \A t \in Tasks : status[t] = "new" => t \notin done /\ t # held
  BY BatchesAssumption DEF ExecInv, TypeOK, HeldOK, HeldStatus, DoneOK, Terminal, HoldsTask
<1> QED BY <1>1, <1>2, <1>3

\* Every step of the executor is a step of the lifecycle, or none.
LEMMA StepSimulates ==
  ASSUME ExecInv, [Next]_vars
  PROVE  [Lifecycle!Next]_(Lifecycle!state)
<1> USE DEF shared, outcome, worker, tool, cell
<1>1. ASSUME NEW b \in Batches, Submit(b) PROVE Lifecycle!Submit(b)
  <2>1. \A t \in Elements(b) : t \in Tasks /\ status[t] = "new"
    BY <1>1, BatchesAssumption, ElementsAreTasks DEF Submit
  <2>2. \A i \in DOMAIN b : b[i] \notin Lifecycle!Queued \cup {held} \cup done
    BY <2>1, NewIsUnknown DEF Elements
  <2> QED BY <1>1, <2>2 DEF Submit, Lifecycle!Submit
<1>2. CASE CancelQueued
  BY <1>2, NewIsUnknown DEF CancelQueued, DropQueue, Lifecycle!Drop, Lifecycle!Next
<1>3. CASE StopExecutor
  BY <1>3, NewIsUnknown DEF StopExecutor, DropQueue, Lifecycle!Stop, Lifecycle!Next
<1>4. CASE Take
  <2>1. held = NoTask
    BY <1>4 DEF Take, ExecInv, HeldOK, HoldsTask
  <2> QED BY <1>4, <2>1 DEF Take, Lifecycle!Start, Lifecycle!Next
<1>5. CASE SetDone
  <2>1. held # NoTask
    BY <1>5 DEF SetDone, ExecInv, HeldOK, HoldsTask
  <2> QED BY <1>5, <2>1 DEF SetDone, Lifecycle!End, Lifecycle!Next
<1>6. CASE \E b \in Batches : Submit(b)
  BY <1>1, <1>6 DEF Lifecycle!Next
<1>7. CASE Refuse \/ EnsureStarted \/ StartFails \/ Send \/ Reply \/ Conclude \/ Accept
  BY <1>7 DEF Refuse, EnsureStarted, StartFails, Send, Reply, Conclude, Accept, Return,
              Lifecycle!state
<1>8. CASE \/ Wait \/ Exit \/ ClearCurrent \/ SignalKernel \/ StopKernel \/ BeginStop
           \/ KernelDies \/ UNCHANGED vars \/ \E clear \in BOOLEAN : ReadActivity(clear)
  BY <1>8 DEF Wait, Exit, ClearCurrent, SignalKernel, StopKernel, BeginStop, ReadActivity,
              KernelDies, vars, Lifecycle!state
<1> QED BY <1>2, <1>3, <1>4, <1>5, <1>6, <1>7, <1>8
        DEF Next, ToolCall, ToolGoesOn, WorkerStep, RunTask

\* The executor implements the lifecycle: every batch is queued whole and once,
\* tasks start one at a time in the order of the queue or are dropped with it,
\* none starts after a stop, and once over a task stays so.
THEOREM ImplementsLifecycle == SafeSpec => Lifecycle!SafeSpec
<1>1. Init => Lifecycle!Init
  BY DEF Init, Lifecycle!Init
<1>2. ExecInv /\ [Next]_vars => [Lifecycle!Next]_(Lifecycle!state)
  BY StepSimulates
<1> QED BY <1>1, <1>2, Inductive, PTL DEF SafeSpec, Lifecycle!SafeSpec
============================================================================
