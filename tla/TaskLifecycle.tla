--------------------------- MODULE TaskLifecycle ---------------------------
(***************************************************************************)
(* What the executor promises about the tasks handed to it (tasks.py): a   *)
(* task is queued once, runs at most once, alone and in its turn, or is    *)
(* dropped while queued; after a stop none starts; in the end each is over.*)
(***************************************************************************)
EXTENDS Sequences

CONSTANTS Tasks, Batches, NoTask

VARIABLES
  waiting,    \* the queue: batch after batch, as they were handed over
  running,    \* the task that has the worker
  over,       \* the tasks that have run or were dropped
  open        \* FALSE once the executor is stopped

state == <<waiting, running, over, open>>

Queued == {waiting[i] : i \in DOMAIN waiting}

Init == waiting = <<>> /\ running = NoTask /\ over = {} /\ open = TRUE

Submit(b) ==
  /\ open
  /\ \A i \in DOMAIN b : b[i] \notin Queued \cup {running} \cup over
  /\ waiting' = waiting \o b
  /\ UNCHANGED <<running, over, open>>

Drop == waiting' = <<>> /\ over' = over \cup Queued /\ UNCHANGED <<running, open>>
Stop == waiting' = <<>> /\ over' = over \cup Queued /\ open' = FALSE /\ UNCHANGED running

Start ==
  /\ open /\ running = NoTask /\ waiting # <<>>
  /\ running' = Head(waiting)
  /\ waiting' = Tail(waiting)
  /\ UNCHANGED <<over, open>>

End ==
  /\ running # NoTask
  /\ over' = over \cup {running}
  /\ running' = NoTask
  /\ UNCHANGED <<waiting, open>>

Next == (\E b \in Batches : Submit(b)) \/ Drop \/ Stop \/ Start \/ End

SafeSpec == Init /\ [][Next]_state

AllEnd == \A t \in Tasks : t \in Queued ~> t \in over

Spec == SafeSpec /\ AllEnd
============================================================================
