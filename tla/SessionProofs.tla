--------------------------- MODULE SessionProofs ---------------------------
(***************************************************************************)
(* Theorems about Session, for every set of cells and sources, every       *)
(* request and every value of the bounds and switches.                     *)
(***************************************************************************)
EXTENDS Session, SequenceTheorems, TLAPS

----------------------------------------------------------------------------
(* The operators on notebooks.                                             *)

\* Every edit of a notebook yields a notebook.
LEMMA NotebookEdits ==
  ASSUME NEW nb \in Notebooks, NEW c \in Cells
  PROVE  /\ \A s \in Sources \cup {Absent} : WithSource(nb, c, s) \in Notebooks
         /\ \A st \in Stamps \cup {NoStamp} : WithStamp(nb, c, st) \in Notebooks
         /\ Void(nb, c) \in Notebooks
         /\ Without(nb, c) \in Notebooks
         /\ VoidAll(nb) \in Notebooks
  BY DEF Notebooks, WithSource, WithStamp, Void, Without, VoidAll

\* An edit touches one field of one cell.
LEMMA NotebookFields ==
  ASSUME NEW nb \in Notebooks, NEW c \in Cells
  PROVE  /\ \A s : /\ WithSource(nb, c, s).stamp = nb.stamp
                   /\ WithSource(nb, c, s).src = [nb.src EXCEPT ![c] = s]
         /\ \A st : /\ WithStamp(nb, c, st).src = nb.src
                    /\ WithStamp(nb, c, st).stamp = [nb.stamp EXCEPT ![c] = st]
         /\ VoidAll(nb).src = nb.src
         /\ VoidAll(nb).stamp = [d \in Cells |-> NoStamp]
  BY DEF Notebooks, WithSource, WithStamp, VoidAll

\* A snapshot is added at the end of the undo stack, or replaces the oldest.
LEMMA SnapshotType ==
  ASSUME TypeOK
  PROVE  Snapshot \in Seq(Notebooks)
  BY BoundsAssumption DEF TypeOK, Snapshot

----------------------------------------------------------------------------
(* Type correctness.                                                       *)

\* The loaded notebook, the empty queue and no kernel are well typed.
LEMMA InitType == Init => TypeOK
<1> SUFFICES ASSUME Init PROVE TypeOK
  OBVIOUS
<1>1. PICK s \in [Cells -> Sources \cup {Absent}] :
        LET nb == [src |-> s, stamp |-> [c \in Cells |-> NoStamp]]
        IN  mem = nb /\ disk = nb /\ sync = nb /\ editor = nb
  BY DEF Init
<1>2. mem \in Notebooks /\ disk \in Notebooks /\ sync \in Notebooks /\ editor \in Notebooks
  BY <1>1 DEF Notebooks
<1>3. lastRun \in [Cells -> Attempts]
  BY DEF Init, Attempts, NeverRun, Statuses
<1> QED BY <1>2, <1>3 DEF Init, TypeOK, Statuses

\* Tool handlers keep the types.
LEMMA ToolType ==
  ASSUME TypeOK, ToolStep
  PROVE  TypeOK'
<1> USE DEF TypeOK, file, exec, kernel, outside, history
<1>m. ASSUME NEW new \in Notebooks, Mutate(new) PROVE TypeOK'
  BY <1>m, SnapshotType DEF Mutate
<1>k. ASSUME StartKernel
      PROVE  /\ process' \in {"alive", "dead"} /\ epoch' \in Nat
             /\ ranOk' \subseteq Cells \X Sources
             /\ lastRun' \in [Cells -> Attempts]
  <2>1. NeverRun \in Attempts
    BY DEF Attempts, NeverRun, Statuses
  <2> QED BY <1>k, <2>1 DEF StartKernel
<1>1. CASE ReloadChanged
  BY <1>1 DEF ReloadChanged, Load
<1>2. CASE EditStep
  <2>1. PICK c \in Cells :
          (\E s \in Sources : UpdateCell(c, s) \/ AddCell(c, s)) \/ RemoveCell(c)
    BY <1>2 DEF EditStep
  <2>2. ASSUME NEW s \in Sources, UpdateCell(c, s) PROVE TypeOK'
    <3>1. WithSource(mem, c, s) \in Notebooks
      BY NotebookEdits
    <3> QED BY <2>2, <3>1, <1>m DEF UpdateCell
  <2>3. ASSUME NEW s \in Sources, AddCell(c, s) PROVE TypeOK'
    <3>1. WithSource(mem, c, s) \in Notebooks
      BY NotebookEdits
    <3>2. Void(WithSource(mem, c, s), c) \in Notebooks
      BY <3>1, NotebookEdits
    <3> QED BY <2>3, <3>2, <1>m DEF AddCell
  <2>4. ASSUME RemoveCell(c) PROVE TypeOK'
    <3>1. Without(mem, c) \in Notebooks
      BY NotebookEdits
    <3> QED BY <2>4, <3>1, <1>m DEF RemoveCell
  <2> QED BY <2>1, <2>2, <2>3, <2>4
<1>3. CASE RejectedMutation
  BY <1>3, SnapshotType DEF RejectedMutation, Load
<1>4. CASE UndoLast
  <2>1. undo[Len(undo)] \in Notebooks
    BY <1>4 DEF UndoLast
  <2>2. VoidAll(undo[Len(undo)]) \in Notebooks
    BY <2>1, NotebookEdits DEF VoidAll, Notebooks
  <2>3. SubSeq(undo, 1, Len(undo) - 1) \in Seq(Notebooks)
    BY <1>4 DEF UndoLast
  <2> QED BY <1>4, <2>1, <2>2, <2>3 DEF UndoLast
<1>5. ASSUME NEW names \in Requests, SubmitCells(names) PROVE TypeOK'
  <2> DEFINE new == [i \in DOMAIN names |->
       [cell |-> names[i], rev |-> mem.src[names[i]], batch |-> batches + 1]]
  <2>1. names \in Seq(Cells)
    BY RequestsAssumption
  <2>2. \A i \in DOMAIN names : names[i] \in Cells /\ mem.src[names[i]] \in Sources
    BY <1>5, <2>1 DEF SubmitCells, Present, Notebooks
  <2>3. new \in Seq(Tasks)
    <3>1. \A i \in DOMAIN names :
            [cell |-> names[i], rev |-> mem.src[names[i]], batch |-> batches + 1] \in Tasks
      BY <2>1, <2>2 DEF Tasks
    <3>2. DOMAIN names = 1..Len(names) /\ Len(names) \in Nat
      BY <2>1
    <3> HIDE DEF TypeOK
    <3> QED BY <3>1, <3>2
  <2>4. queue' \in Seq(Tasks)
    BY <1>5, <2>3 DEF SubmitCells
  <2> QED BY <1>5, <2>4, SnapshotType DEF SubmitCells
<1>6. CASE Interrupt
  BY <1>6 DEF Interrupt
<1>7. CASE RestartKernel
  BY <1>7, <1>k DEF RestartKernel
<1> QED BY <1>1, <1>2, <1>3, <1>4, <1>5, <1>6, <1>7 DEF ToolStep

\* The end of a task keeps the types of the queue, the task and the pc.
LEMMA FinishType ==
  ASSUME TypeOK, task # NoTask, NEW ok \in BOOLEAN, Finish(ok)
  PROVE  /\ queue' \in Seq(Tasks) /\ task' \in Tasks \cup {NoTask}
         /\ pc' \in {"idle", "popped", "starting", "running", "replied"}
         /\ pc' = "idle" <=> task' = NoTask
         /\ result' \in Statuses /\ failed' \subseteq Nat /\ batches' \in Nat
  BY DEF TypeOK, Finish, Tasks, Statuses

\* Steps of the worker keep the types.
LEMMA WorkerType ==
  ASSUME TypeOK, WorkerStep
  PROVE  TypeOK'
<1> USE DEF TypeOK, file, exec, kernel, outside, history
<1>1. CASE Dequeue
  <2>1. Head(queue) \in Tasks /\ Tail(queue) \in Seq(Tasks)
    BY <1>1 DEF Dequeue
  <2>2. Head(queue) # NoTask
    BY <2>1, SpecialValues DEF Tasks
  <2> QED BY <1>1, <2>1, <2>2 DEF Dequeue
<1>2. CASE SkipTask
  BY <1>2, FinishType DEF SkipTask
<1>3. CASE VoidStamp
  BY <1>3, NotebookEdits DEF VoidStamp, Tasks
<1>4. CASE EnsureStarted
  <2>1. /\ process' \in {"alive", "dead"} /\ epoch' \in Nat
        /\ ranOk' \subseteq Cells \X Sources
        /\ lastRun' \in [Cells -> Attempts]
    <3>1. NeverRun \in Attempts
      BY DEF Attempts, NeverRun, Statuses
    <3> QED BY <1>4, <3>1 DEF EnsureStarted, StartKernel
  <2> QED BY <1>4, <2>1, FinishType DEF EnsureStarted
<1>5. CASE SendRequest
  <2>1. [rev |-> task.rev, status |-> "running"] \in Attempts
    BY <1>5 DEF SendRequest, Tasks, Attempts, Statuses
  <2> QED BY <1>5, <2>1 DEF SendRequest
<1>6. CASE KernelReplies
  <2>1. task \in Tasks
    BY <1>6 DEF KernelReplies
  <2>2. result' \in {"ok", "failed"}
    BY <1>6 DEF KernelReplies
  <2>3. [rev |-> task.rev, status |-> result'] \in Attempts
    BY <2>1, <2>2 DEF Tasks, Attempts, Statuses
  <2>4. ranOk' \subseteq Cells \X Sources
    BY <1>6, <2>1 DEF KernelReplies, Tasks
  <2> QED BY <1>6, <2>2, <2>3, <2>4 DEF KernelReplies, Statuses
<1>7. CASE WriteBack
  <2> DEFINE base  == MergeBase
             stamp == IF result = "ok" THEN [rev |-> task.rev, epoch |-> epoch] ELSE NoStamp
             new   == IF base.src[task.cell] = task.rev
                      THEN WithStamp(base, task.cell, stamp) ELSE base
  <2>1. task \in Tasks
    BY <1>7 DEF WriteBack
  <2>2. base \in Notebooks /\ stamp \in Stamps \cup {NoStamp}
    BY <2>1 DEF MergeBase, Tasks, Stamps
  <2>3. new \in Notebooks
    BY <2>1, <2>2, NotebookEdits DEF Tasks
  <2>4. mem' = new /\ (disk' = new \/ disk' = disk) /\ (sync' = new \/ sync' = disk)
    BY <1>7 DEF WriteBack
  <2>5. Finish(result = "ok") \/ Finish(FALSE)
    BY <1>7 DEF WriteBack
  <2> HIDE DEF new
  <2> QED BY <1>7, <2>1, <2>3, <2>4, <2>5, FinishType, SpecialValues DEF WriteBack
<1> QED BY <1>1, <1>2, <1>3, <1>4, <1>5, <1>6, <1>7 DEF WorkerStep

\* The editor, the kernel and a server restart keep the types.
LEMMA OutsideType ==
  ASSUME TypeOK, EditorStep \/ KernelDies \/ ServerRestarts \/ UNCHANGED vars
  PROVE  TypeOK'
<1> USE DEF TypeOK, file, exec, kernel, outside, history
<1>1. CASE EditorOpens
  BY <1>1 DEF EditorOpens
<1>2. ASSUME NEW c \in Cells, NEW s \in Sources \cup {Absent}, EditorSaves(c, s) PROVE TypeOK'
  <2>1. editor' \in Notebooks
    BY <1>2, NotebookEdits DEF EditorSaves
  <2> QED BY <1>2, <2>1 DEF EditorSaves
<1>3. CASE KernelDies
  BY <1>3 DEF KernelDies
<1>4. CASE ServerRestarts
  BY <1>4 DEF ServerRestarts, Load, Statuses
<1>5. CASE UNCHANGED vars
  BY <1>5 DEF vars
<1> QED BY <1>1, <1>2, <1>3, <1>4, <1>5 DEF EditorStep

\* The types hold in every reachable state.
THEOREM TypeCorrect == Spec => []TypeOK
<1>1. Init => TypeOK
  BY InitType
<1>2. TypeOK /\ [Next]_vars => TypeOK'
  BY ToolType, WorkerType, OutsideType DEF Next
<1> QED BY <1>1, <1>2, PTL DEF Spec

----------------------------------------------------------------------------
(* Fresh cells ran.                                                        *)
(*                                                                         *)
(* FreshRan speaks of the notebook in memory; to be inductive it must say  *)
(* as much of every notebook that can become the one in memory: the file,  *)
(* the editor's copy and the snapshots.  No stamp is from a later kernel,  *)
(* and one of the present epoch is backed by an ok run on this kernel.     *)

Earned(nb, e, ran) ==
  \A c \in Cells :
    nb.stamp[c] # NoStamp =>
      /\ nb.stamp[c].epoch <= e
      /\ nb.stamp[c].epoch = e => <<c, nb.stamp[c].rev>> \in ran

StampsEarned ==
  /\ Earned(mem, epoch, ranOk)
  /\ Earned(disk, epoch, ranOk)
  /\ Earned(editor, epoch, ranOk)
  /\ \A i \in 1..Len(undo) : Earned(undo[i], epoch, ranOk)

\* What WriteBack is about to stamp did run.
ReplyEarned ==
  result = "ok" => pc = "replied" /\ <<task.cell, task.rev>> \in ranOk

RanInv == TypeOK /\ StampsEarned /\ ReplyEarned

\* An edit of a notebook adds no stamp.
LEMMA VoidEarned ==
  ASSUME NEW nb, DOMAIN nb.stamp = Cells, NEW c \in Cells, NEW e, NEW ran, Earned(nb, e, ran)
  PROVE  Earned(Void(nb, c), e, ran)
<1> DEFINE new == Void(nb, c)
<1>1. \A d \in Cells : new.stamp[d] = NoStamp \/ new.stamp[d] = nb.stamp[d]
  BY DEF Void, WithStamp
<1> HIDE DEF new
<1>2. Earned(new, e, ran)
  BY <1>1 DEF Earned
<1> QED BY <1>2 DEF new

\* Editing or voiding a cell earns no stamp, so none becomes unearned.
LEMMA EditsEarned ==
  ASSUME NEW nb \in Notebooks, NEW c \in Cells, NEW e \in Nat, NEW ran, Earned(nb, e, ran)
  PROVE  /\ \A s : Earned(WithSource(nb, c, s), e, ran)
         /\ \A s : Earned(Void(WithSource(nb, c, s), c), e, ran)
         /\ Earned(Void(nb, c), e, ran)
         /\ Earned(Without(nb, c), e, ran)
<1>1. ASSUME NEW s PROVE Earned(WithSource(nb, c, s), e, ran)
  BY DEF Earned, WithSource
<1>2. ASSUME NEW s PROVE Earned(Void(WithSource(nb, c, s), c), e, ran)
  <2>1. DOMAIN WithSource(nb, c, s).stamp = Cells
    BY DEF WithSource, Notebooks
  <2> QED BY <1>1, <2>1, VoidEarned
<1>3. Earned(Void(nb, c), e, ran)
  BY VoidEarned DEF Notebooks
<1> QED BY <1>1, <1>2, <1>3 DEF Without

\* A sequence without its last element: its length and its elements.
LEMMA FrontFacts ==
  ASSUME NEW S, NEW s \in Seq(S), s # <<>>
  PROVE  LET front == SubSeq(s, 1, Len(s) - 1)
         IN  Len(front) = Len(s) - 1 /\ \A i \in 1..Len(front) : front[i] = s[i]
<1>1. Len(s) \in Nat /\ Len(s) >= 1
  OBVIOUS
<1>2. \A i \in 1..Len(s) - 1 : s[i] \in S
  BY <1>1
<1>3. Len(SubSeq(s, 1, Len(s) - 1)) = Len(s) - 1
  <2> DEFINE n == Len(s) - 1
  <2>1. n \in Int /\ 1 \in Int /\ n >= 0
    BY <1>1
  <2>2. \A i \in 1..n : s[i] \in S
    BY <1>2
  <2> HIDE DEF n
  <2>3. Len(SubSeq(s, 1, n)) = IF 1 <= n THEN n - 1 + 1 ELSE 0
    BY <2>1, <2>2, SubSeqProperties
  <2>4. Len(SubSeq(s, 1, n)) = n
    BY <2>1, <2>3
  <2> QED BY <2>4, Zenon DEF n
<1>4. ASSUME NEW i \in 1..Len(s) - 1 PROVE SubSeq(s, 1, Len(s) - 1)[i] = s[i]
  <2>1. i \in 1..(Len(s) - 1) - 1 + 1 /\ 1 + i - 1 = i
    BY <1>1
  <2>2. SubSeq(s, 1, Len(s) - 1)[i] = s[1 + i - 1]
    BY <1>1, <1>2, <2>1, SubSeqProperties
  <2> QED BY <2>1, <2>2
<1> QED BY <1>3, <1>4

\* A notebook without stamps has no unearned stamp.
LEMMA VoidAllEarned ==
  ASSUME NEW nb, NEW e, NEW ran
  PROVE  Earned(VoidAll(nb), e, ran)
  BY DEF Earned, VoidAll

\* A stamp for a run of the present kernel may be added.
LEMMA StampEarned ==
  ASSUME NEW nb \in Notebooks, NEW c \in Cells, NEW r, NEW e \in Nat, NEW ran,
         Earned(nb, e, ran), <<c, r>> \in ran
  PROVE  Earned(WithStamp(nb, c, [rev |-> r, epoch |-> e]), e, ran)
<1> DEFINE st  == [rev |-> r, epoch |-> e]
           new == WithStamp(nb, c, st)
<1>1. st.rev = r /\ st.epoch = e /\ e <= e
  OBVIOUS
<1> HIDE DEF st
<1>2. \A d \in Cells : new.stamp[d] = IF d = c THEN st ELSE nb.stamp[d]
  BY DEF WithStamp, Notebooks
<1> HIDE DEF new
<1>3. Earned(new, e, ran)
  BY <1>1, <1>2 DEF Earned
<1> QED BY <1>3 DEF new, st

\* More runs back no fewer stamps, and a new epoch leaves every stamp behind.
LEMMA EarnedLater ==
  ASSUME NEW nb \in Notebooks, NEW e \in Nat, NEW ran, Earned(nb, e, ran)
  PROVE  /\ \A more : ran \subseteq more => Earned(nb, e, more)
         /\ \A any : Earned(nb, e + 1, any)
<1>1. \A more : ran \subseteq more => Earned(nb, e, more)
  BY DEF Earned
<1>2. \A c \in Cells : nb.stamp[c] # NoStamp => nb.stamp[c].epoch \in Nat
  BY DEF Notebooks, Stamps
<1>3. \A any : Earned(nb, e + 1, any)
  BY <1>2 DEF Earned
<1> QED BY <1>1, <1>3

\* Every snapshot is a copy of the file as it was.
LEMMA SnapshotEarned ==
  ASSUME TypeOK, StampsEarned
  PROVE  \A i \in 1..Len(Snapshot) : Earned(Snapshot[i], epoch, ranOk)
<1> DEFINE pushed == Append(undo, disk)
<1>1. \A i \in 1..Len(pushed) : Earned(pushed[i], epoch, ranOk)
  <2>1. undo \in Seq(Notebooks) /\ disk \in Notebooks
    BY DEF TypeOK
  <2>2. \A i \in 1..Len(pushed) : pushed[i] = IF i = Len(undo) + 1 THEN disk ELSE undo[i]
    BY <2>1
  <2>3. Len(pushed) = Len(undo) + 1 /\ Len(undo) \in Nat
    BY <2>1
  <2> HIDE DEF pushed
  <2> QED BY <2>2, <2>3 DEF StampsEarned
<1>2. pushed \in Seq(Notebooks) /\ pushed # <<>>
  BY DEF TypeOK
<1> HIDE DEF pushed
<1>3. \A i \in 1..Len(Tail(pushed)) : Tail(pushed)[i] = pushed[i + 1] /\ i + 1 \in 1..Len(pushed)
  BY <1>2
<1>4. Snapshot = pushed \/ Snapshot = Tail(pushed)
  BY DEF Snapshot, pushed
<1> QED BY <1>1, <1>3, <1>4

\* Before the first kernel there is nothing to earn.
LEMMA InitRan == Init => StampsEarned /\ ReplyEarned
  BY DEF Init, StampsEarned, ReplyEarned, Earned

\* A kernel start, failed or not, leaves no stamp unearned.
LEMMA StartRan ==
  ASSUME RanInv, StartKernel, UNCHANGED <<mem, disk, editor, undo>>
  PROVE  StampsEarned'
<1>1. CASE epoch' = epoch + 1 /\ ranOk' = {}
  <2>1. \A nb \in Notebooks : Earned(nb, epoch, ranOk) => Earned(nb, epoch', ranOk')
    BY <1>1, EarnedLater DEF RanInv, TypeOK
  <2>2. \A i \in 1..Len(undo) : undo[i] \in Notebooks
    BY DEF RanInv, TypeOK
  <2> QED BY <2>1, <2>2 DEF RanInv, TypeOK, StampsEarned
<1>2. CASE UNCHANGED <<epoch, history>>
  BY <1>2 DEF RanInv, StampsEarned, history
<1> QED BY <1>1, <1>2 DEF StartKernel

\* A tool handler writes no stamp that the kernel did not earn.
LEMMA ToolRan ==
  ASSUME RanInv, ToolStep
  PROVE  StampsEarned' /\ ReplyEarned'
<1> USE DEF RanInv, file, exec, kernel, outside, history
<1>m. ASSUME NEW new, Earned(new, epoch, ranOk), Mutate(new)
      PROVE  StampsEarned' /\ ReplyEarned'
  <2>1. \A i \in 1..Len(undo') : Earned(undo'[i], epoch, ranOk)
    BY <1>m, SnapshotEarned DEF Mutate
  <2> QED BY <1>m, <2>1 DEF Mutate, StampsEarned, ReplyEarned
<1>e. \A c \in Cells : /\ \A s : /\ Earned(WithSource(mem, c, s), epoch, ranOk)
                               /\ Earned(Void(WithSource(mem, c, s), c), epoch, ranOk)
                      /\ Earned(Without(mem, c), epoch, ranOk)
  BY EditsEarned DEF TypeOK, StampsEarned
<1>1. CASE ReloadChanged
  BY <1>1 DEF ReloadChanged, Load, StampsEarned, ReplyEarned
<1>2. CASE EditStep
  <2>1. PICK c \in Cells :
          (\E s \in Sources : UpdateCell(c, s) \/ AddCell(c, s)) \/ RemoveCell(c)
    BY <1>2 DEF EditStep
  <2> QED BY <2>1, <1>e, <1>m DEF UpdateCell, AddCell, RemoveCell
<1>3. CASE RejectedMutation
  <2>1. \A i \in 1..Len(undo') : Earned(undo'[i], epoch, ranOk)
    BY <1>3, SnapshotEarned DEF RejectedMutation
  <2> QED BY <1>3, <2>1 DEF RejectedMutation, Load, StampsEarned, ReplyEarned
<1>4. CASE UndoLast
  <2>1. Len(undo) \in Nat /\ Len(undo) \in 1..Len(undo)
    BY <1>4 DEF UndoLast, TypeOK
  <2>2. Len(undo') = Len(undo) - 1 /\ \A i \in 1..Len(undo') : undo'[i] = undo[i]
    <3>1. undo \in Seq(Notebooks) /\ undo # <<>> /\ undo' = SubSeq(undo, 1, Len(undo) - 1)
      BY <1>4 DEF UndoLast, TypeOK
    <3> QED BY <3>1, FrontFacts
  <2>3. \A i \in 1..Len(undo') : Earned(undo'[i], epoch, ranOk)
    BY <2>1, <2>2 DEF StampsEarned
  <2>4. Earned(mem', epoch, ranOk) /\ Earned(disk', epoch, ranOk)
    <3>1. Earned(undo[Len(undo)], epoch, ranOk)
      BY <2>1 DEF StampsEarned
    <3> QED BY <1>4, <3>1, VoidAllEarned DEF UndoLast
  <2> QED BY <1>4, <2>3, <2>4 DEF UndoLast, StampsEarned, ReplyEarned
<1>5. ASSUME NEW names \in Requests, SubmitCells(names)
      PROVE  StampsEarned' /\ ReplyEarned'
  <2>1. \A i \in 1..Len(undo') : Earned(undo'[i], epoch, ranOk)
    BY <1>5, SnapshotEarned DEF SubmitCells
  <2> QED BY <1>5, <2>1 DEF SubmitCells, StampsEarned, ReplyEarned
<1>6. CASE Interrupt
  BY <1>6 DEF Interrupt, StampsEarned, ReplyEarned
<1>7. CASE RestartKernel
  <2>1. StampsEarned'
    BY <1>7, StartRan DEF RestartKernel
  <2>2. result # "ok"
    BY <1>7 DEF RestartKernel, Busy, TypeOK, ReplyEarned
  <2> QED BY <1>7, <2>1, <2>2 DEF RestartKernel, ReplyEarned
<1> QED BY <1>1, <1>2, <1>3, <1>4, <1>5, <1>6, <1>7 DEF ToolStep

\* The worker stamps a cell only with the epoch and the source that ran.
LEMMA WorkerRan ==
  ASSUME RanInv, WorkerStep
  PROVE  StampsEarned' /\ ReplyEarned'
<1> USE DEF RanInv, file, exec, kernel, outside, history
<1>1. CASE Dequeue
  BY <1>1 DEF Dequeue, StampsEarned, ReplyEarned, TypeOK
<1>2. CASE SkipTask
  BY <1>2 DEF SkipTask, Finish, StampsEarned, ReplyEarned
<1>3. CASE VoidStamp
  <2>1. Earned(mem', epoch, ranOk)
    BY <1>3, EditsEarned DEF VoidStamp, TypeOK, StampsEarned, Tasks
  <2> QED BY <1>3, <2>1 DEF VoidStamp, StampsEarned, ReplyEarned
<1>4. CASE EnsureStarted
  <2>1. StampsEarned'
    BY <1>4, StartRan DEF EnsureStarted
  <2>2. result # "ok"
    BY <1>4 DEF EnsureStarted, ReplyEarned
  <2>3. result' # "ok"
    BY <1>4, <2>2 DEF EnsureStarted, Finish
  <2> QED BY <2>1, <2>3 DEF ReplyEarned
<1>5. CASE SendRequest
  BY <1>5 DEF SendRequest, StampsEarned, ReplyEarned
<1>6. CASE KernelReplies
  <2>1. ranOk \subseteq ranOk'
    BY <1>6 DEF KernelReplies
  <2>2. \A nb \in Notebooks : Earned(nb, epoch, ranOk) => Earned(nb, epoch, ranOk')
    BY <2>1, EarnedLater DEF TypeOK
  <2>3. \A i \in 1..Len(undo) : undo[i] \in Notebooks
    BY DEF TypeOK
  <2>4. StampsEarned'
    BY <1>6, <2>2, <2>3 DEF KernelReplies, StampsEarned, TypeOK
  <2>5. ReplyEarned'
    BY <1>6 DEF KernelReplies, ReplyEarned
  <2> QED BY <2>4, <2>5
<1>7. CASE WriteBack
  <2> DEFINE base  == MergeBase
             stamp == IF result = "ok" THEN [rev |-> task.rev, epoch |-> epoch] ELSE NoStamp
             new   == IF base.src[task.cell] = task.rev
                      THEN WithStamp(base, task.cell, stamp) ELSE base
  <2>1. task.cell \in Cells /\ epoch \in Nat
    BY <1>7 DEF WriteBack, TypeOK, Tasks
  <2>2. base \in Notebooks /\ Earned(base, epoch, ranOk)
    BY DEF MergeBase, TypeOK, StampsEarned
  <2> HIDE DEF base
  <2>3. Earned(WithStamp(base, task.cell, stamp), epoch, ranOk)
    <3>1. CASE result = "ok"
      BY <3>1, <2>1, <2>2, StampEarned DEF ReplyEarned
    <3>2. CASE result # "ok"
      BY <3>2, <2>1, <2>2, EditsEarned DEF Void
    <3> QED BY <3>1, <3>2
  <2>4. Earned(new, epoch, ranOk)
    BY <2>2, <2>3
  <2>5. mem' = new /\ (disk' = new \/ disk' = disk)
    BY <1>7 DEF WriteBack, base
  <2> HIDE DEF new
  <2>6. result' = "none"
    BY <1>7 DEF WriteBack, Finish
  <2> QED BY <1>7, <2>4, <2>5, <2>6 DEF WriteBack, StampsEarned, ReplyEarned
<1> QED BY <1>1, <1>2, <1>3, <1>4, <1>5, <1>6, <1>7 DEF WorkerStep

\* An editor writes no stamps, and no old stamp carries a future epoch.
LEMMA OutsideRan ==
  ASSUME RanInv, EditorStep \/ KernelDies \/ ServerRestarts \/ UNCHANGED vars
  PROVE  StampsEarned' /\ ReplyEarned'
<1> USE DEF RanInv, file, exec, kernel, outside, history
<1>1. CASE EditorOpens
  BY <1>1 DEF EditorOpens, StampsEarned, ReplyEarned
<1>2. ASSUME NEW c \in Cells, NEW s \in Sources \cup {Absent}, EditorSaves(c, s)
      PROVE  StampsEarned' /\ ReplyEarned'
  <2>1. Earned(editor', epoch, ranOk)
    BY <1>2, EditsEarned DEF EditorSaves, TypeOK, StampsEarned
  <2> QED BY <1>2, <2>1 DEF EditorSaves, StampsEarned, ReplyEarned
<1>3. CASE KernelDies
  BY <1>3 DEF KernelDies, StampsEarned, ReplyEarned
<1>4. CASE ServerRestarts
  BY <1>4 DEF ServerRestarts, Load, StampsEarned, ReplyEarned
<1>5. CASE UNCHANGED vars
  BY <1>5 DEF vars, StampsEarned, ReplyEarned
<1> QED BY <1>1, <1>2, <1>3, <1>4, <1>5 DEF EditorStep

\* Types, stamps and replies together are inductive.
LEMMA RanInductive == Spec => []RanInv
<1>1. Init => RanInv
  BY InitType, InitRan DEF RanInv
<1>2. RanInv /\ [Next]_vars => RanInv'
  BY ToolType, WorkerType, OutsideType, ToolRan, WorkerRan, OutsideRan DEF Next, RanInv
<1> QED BY <1>1, <1>2, PTL DEF Spec

\* A fresh cell's present source ran to "ok" on the kernel that is alive now:
\* for any editor, any failing save and any restart of kernel or server.
THEOREM FreshCellsRan == Spec => []FreshRan
<1>1. RanInv => FreshRan
  BY DEF RanInv, StampsEarned, Earned, FreshRan, Fresh
<1> QED BY <1>1, RanInductive, PTL

----------------------------------------------------------------------------
(* What the server writes to the file.                                     *)

\* WriteBack starts from what it finds in a changed file.
LEMMA WriteBackSources ==
  ASSUME WriteBack
  PROVE  /\ DiskChanged => mem'.src = disk.src
         /\ ~DiskChanged => mem'.src = mem.src
         /\ disk' = mem' \/ disk' = disk
         /\ sync' = mem' \/ sync' = disk
<1> DEFINE base  == MergeBase
           stamp == IF result = "ok" THEN [rev |-> task.rev, epoch |-> epoch] ELSE NoStamp
           new   == IF base.src[task.cell] = task.rev
                    THEN WithStamp(base, task.cell, stamp) ELSE base
<1>1. mem' = new /\ (disk' = new \/ disk' = disk) /\ (sync' = new \/ sync' = disk)
  BY DEF WriteBack
<1> HIDE DEF stamp, base
<1>2. new.src = base.src
  BY DEF WithStamp
<1> HIDE DEF new
<1> QED BY <1>1, <1>2 DEF base, MergeBase

\* Whatever else happens, a write of the server to a file that changed since
\* the last load keeps the sources it finds there.
THEOREM EditorNeverOverwritten == Spec => EditorWins
<1> DEFINE Safe == disk # sync /\ disk' # disk => EditorStep \/ disk'.src = disk.src
<1>1. ASSUME ToolStep PROVE Safe
  BY <1>1 DEF ToolStep, EditStep, UpdateCell, AddCell, RemoveCell, Mutate, ReloadChanged, Load,
              RejectedMutation, UndoLast, SubmitCells, Interrupt, RestartKernel,
              DiskChanged, file
<1>2. ASSUME WorkerStep PROVE Safe
  <2>1. CASE WriteBack
    BY <2>1, WriteBackSources DEF DiskChanged
  <2>2. CASE ~WriteBack
    BY <1>2, <2>2 DEF WorkerStep, Dequeue, SkipTask, VoidStamp, EnsureStarted, SendRequest,
                      KernelReplies, file
  <2> QED BY <2>1, <2>2
<1>3. ASSUME KernelDies \/ ServerRestarts \/ UNCHANGED vars PROVE Safe
  BY <1>3 DEF KernelDies, ServerRestarts, Load, vars, file
<1>4. [Next]_vars => Safe
  BY <1>1, <1>2, <1>3 DEF Next
<1> QED BY <1>4, PTL DEF Spec, EditorWins

\* The one way for an edit that was reported as failed to reach the file with
\* the next run is a save that raised (mutate: save() is outside its try); a
\* rejected mutation, an undo, a merge and a reload leave memory and file with
\* the same sources, for any editor and any failures.
THEOREM RunsPersistOnlyLingering == Spec => OnlyFailedSavesLinger
<1> DEFINE Stays == mem.src = sync.src /\ mem'.src # sync'.src => EditStep /\ disk' = disk
           Runs  == WorkerStep /\ disk'.src # disk.src => mem.src # sync.src /\ disk'.src = mem.src
<1>1. ASSUME EditStep PROVE Stays
  BY <1>1 DEF EditStep, UpdateCell, AddCell, RemoveCell, Mutate, file
<1>2. ASSUME ToolStep, ~EditStep PROVE Stays
  <2>1. CASE UndoLast
    BY <2>1 DEF UndoLast, VoidAll
  <2>2. CASE ~UndoLast
    BY <1>2, <2>2 DEF ToolStep, ReloadChanged, Load, RejectedMutation, SubmitCells, Interrupt,
                      RestartKernel, file
  <2> QED BY <2>1, <2>2
<1>3. ASSUME WorkerStep PROVE Stays /\ Runs
  <2>1. CASE WriteBack
    BY <2>1, WriteBackSources DEF DiskChanged
  <2>2. CASE VoidStamp
    BY <2>2 DEF VoidStamp, Void, WithStamp, file
  <2>3. CASE ~WriteBack /\ ~VoidStamp
    BY <1>3, <2>3 DEF WorkerStep, Dequeue, SkipTask, EnsureStarted, SendRequest,
                      KernelReplies, file
  <2> QED BY <2>1, <2>2, <2>3
<1>4. ASSUME EditorStep \/ KernelDies \/ ServerRestarts \/ UNCHANGED vars PROVE Stays
  BY <1>4 DEF EditorStep, EditorOpens, EditorSaves, KernelDies, ServerRestarts, Load, vars, file
<1>5. [Next]_vars => Stays
  BY <1>1, <1>2, <1>3, <1>4 DEF Next
<1>6. [Next]_vars => Runs
  BY <1>3
<1> QED BY <1>5, <1>6, PTL DEF Spec, OnlyFailedSavesLinger

----------------------------------------------------------------------------
(* Stamps tell of the latest attempt.                                      *)
(*                                                                         *)
(* What a write-back is about to stamp is the outcome of the latest        *)
(* attempt.  With that each step either keeps StampIsLatest or has read    *)
(* the stamp from the file.                                                *)

ReplyIsLatest ==
  pc = "replied" => lastRun[task.cell] = [rev |-> task.rev, status |-> result]

\* An edit keeps each stamp or drops it.
FewerStamps(new, nb) == \A c \in Cells : new.stamp[c] \in {nb.stamp[c], NoStamp}

\* An edit or a void leaves at most the stamps there were.
LEMMA EditsDropStamps ==
  ASSUME NEW nb \in Notebooks, NEW c \in Cells
  PROVE  /\ \A s : /\ FewerStamps(WithSource(nb, c, s), nb)
                   /\ FewerStamps(Void(WithSource(nb, c, s), c), nb)
         /\ FewerStamps(Void(nb, c), nb)
         /\ FewerStamps(Without(nb, c), nb)
<1>1. DOMAIN nb.stamp = Cells
  BY DEF Notebooks
<1>2. ASSUME NEW s PROVE FewerStamps(WithSource(nb, c, s), nb)
  BY DEF FewerStamps, WithSource
<1>3. ASSUME NEW s PROVE FewerStamps(Void(WithSource(nb, c, s), c), nb)
  BY <1>1 DEF FewerStamps, Void, WithStamp, WithSource
<1>4. FewerStamps(Void(nb, c), nb)
  BY <1>1 DEF FewerStamps, Void, WithStamp
<1> QED BY <1>2, <1>3, <1>4 DEF Without

\* Until the executor has written back, nothing else is attempted.
LEMMA ReplyStaysLatest ==
  ASSUME TypeOK, ReplyIsLatest, [Next]_vars
  PROVE  ReplyIsLatest'
<1> USE DEF file, exec, kernel, outside, history, ReplyIsLatest
<1>1. CASE ToolStep
  <2>1. ASSUME NEW new, Mutate(new) PROVE ReplyIsLatest'
    BY <2>1 DEF Mutate
  <2>2. CASE EditStep
    BY <2>1, <2>2 DEF EditStep, UpdateCell, AddCell, RemoveCell
  <2>3. CASE RestartKernel
    BY <2>3 DEF RestartKernel, Busy, TypeOK
  <2>4. CASE ~EditStep /\ ~RestartKernel
    BY <1>1, <2>4 DEF ToolStep, ReloadChanged, RejectedMutation, UndoLast, SubmitCells, Interrupt
  <2> QED BY <2>2, <2>3, <2>4
<1>2. CASE WorkerStep
  <2>1. CASE KernelReplies
    <3>1. task.cell \in Cells /\ lastRun \in [Cells -> Attempts]
      BY <2>1 DEF KernelReplies, TypeOK, Tasks
    <3> QED BY <2>1, <3>1 DEF KernelReplies
  <2>2. CASE EnsureStarted
    <3>1. pc' # "replied"
      BY <2>2 DEF EnsureStarted, Finish
    <3> QED BY <3>1
  <2>3. CASE ~KernelReplies /\ ~EnsureStarted
    <3>1. pc' # "replied"
      BY <1>2, <2>3 DEF WorkerStep, Dequeue, SkipTask, VoidStamp, SendRequest, WriteBack, Finish
    <3> QED BY <3>1
  <2> QED BY <2>1, <2>2, <2>3
<1>3. CASE EditorStep \/ KernelDies \/ ServerRestarts \/ UNCHANGED vars
  BY <1>3 DEF EditorStep, EditorOpens, EditorSaves, KernelDies, ServerRestarts, vars
<1> QED BY <1>1, <1>2, <1>3 DEF Next

\* A stamp that stays or goes, on the same kernel, remains the latest.
LEMMA KeptIsLatest ==
  ASSUME NEW c \in Cells, StampIsLatest(c),
         mem'.stamp[c] = mem.stamp[c] \/ mem'.stamp[c] = NoStamp,
         Attempted(c)' => Attempted(c) \/ mem'.stamp[c] = NoStamp,
         UNCHANGED kernel,
         lastRun'[c] = lastRun[c] \/ mem'.stamp[c] = NoStamp
  PROVE  StampIsLatest(c)'
  BY DEF StampIsLatest, Alive, kernel

\* No stamp is of a kernel that has just started or of none.
LEMMA StartIsLatest ==
  ASSUME RanInv, StartKernel, mem' = mem, NEW c \in Cells, StampIsLatest(c),
         Attempted(c)' => Attempted(c)
  PROVE  StampIsLatest(c)'
<1>1. Attempted(c)' => mem'.stamp[c] = NoStamp
  BY DEF StampIsLatest
<1>2. CASE epoch' = epoch + 1
  <2>1. mem.stamp[c] # NoStamp => mem.stamp[c].epoch \in Nat /\ mem.stamp[c].epoch <= epoch
    BY DEF RanInv, StampsEarned, Earned, TypeOK, Notebooks, Stamps
  <2>2. mem'.stamp[c] # NoStamp => mem'.stamp[c].epoch # epoch'
    BY <1>2, <2>1 DEF RanInv, TypeOK
  <2> QED BY <1>1, <2>2 DEF StampIsLatest
<1>3. CASE process' = "dead"
  BY <1>1, <1>3 DEF StampIsLatest, Alive
<1> QED BY <1>2, <1>3 DEF StartKernel

\* A tool handler revives a stamp by reading it from the file or not at all.
LEMMA ToolIsLatest ==
  ASSUME RanInv, ToolStep, NEW c \in Cells, StampIsLatest(c),
         mem'.stamp[c] = disk.stamp[c] => mem'.stamp[c] = mem.stamp[c]
  PROVE  StampIsLatest(c)'
<1>m. ASSUME NEW new, FewerStamps(new, mem), Mutate(new) PROVE StampIsLatest(c)'
  BY <1>m, KeptIsLatest DEF Mutate, FewerStamps, Attempted, exec, kernel, history
<1>s. ASSUME UNCHANGED <<task, pc, kernel, lastRun>>,
             mem' = mem \/ mem' = disk \/ mem'.stamp[c] = NoStamp
      PROVE  StampIsLatest(c)'
  BY <1>s, KeptIsLatest DEF Attempted
<1>1. CASE EditStep
  <2>1. PICK d \in Cells :
          (\E s \in Sources : UpdateCell(d, s) \/ AddCell(d, s)) \/ RemoveCell(d)
    BY <1>1 DEF EditStep
  <2>2. mem \in Notebooks
    BY DEF RanInv, TypeOK
  <2> QED BY <2>1, <2>2, EditsDropStamps, <1>m DEF UpdateCell, AddCell, RemoveCell
<1>2. CASE UndoLast
  <2>1. PICK snap : mem' = VoidAll(snap)
    BY <1>2 DEF UndoLast
  <2>2. mem'.stamp[c] = NoStamp
    BY <2>1 DEF VoidAll
  <2> QED BY <1>2, <1>s, <2>2 DEF UndoLast, exec, history
<1>3. CASE RestartKernel
  BY <1>3, StartIsLatest DEF RestartKernel, exec, Attempted
<1>4. CASE ReloadChanged \/ RejectedMutation
  BY <1>4, <1>s DEF ReloadChanged, RejectedMutation, Load, exec, history
<1>5. CASE Interrupt \/ \E names \in Requests : SubmitCells(names)
  BY <1>5, <1>s DEF Interrupt, SubmitCells, history
<1> QED BY <1>1, <1>2, <1>3, <1>4, <1>5 DEF ToolStep

\* The worker voids a stamp before the attempt and writes that of the attempt
\* it made.
LEMMA WorkerIsLatest ==
  ASSUME RanInv, ReplyIsLatest, WorkerStep, NEW c \in Cells, StampIsLatest(c),
         mem'.stamp[c] = disk.stamp[c] => mem'.stamp[c] = mem.stamp[c]
  PROVE  StampIsLatest(c)'
<1>t. /\ mem \in Notebooks /\ disk \in Notebooks /\ lastRun \in [Cells -> Attempts]
      /\ task # NoTask => task.cell \in Cells
      /\ pc = "idle" <=> task = NoTask
  BY DEF RanInv, TypeOK, Tasks
<1>1. CASE Dequeue
  BY <1>1, KeptIsLatest DEF Dequeue, Attempted, history
<1>2. CASE SkipTask
  BY <1>2, KeptIsLatest DEF SkipTask, Finish, Attempted, history
<1>3. CASE VoidStamp
  <2>1. task.cell \in Cells /\ mem' = Void(mem, task.cell)
    BY <1>3, <1>t DEF VoidStamp
  <2>2. mem'.stamp[task.cell] = NoStamp
    BY <2>1, <1>t DEF Void, WithStamp, Notebooks
  <2>3. mem'.stamp[c] = mem.stamp[c] \/ mem'.stamp[c] = NoStamp
    BY <2>1, <1>t, EditsDropStamps DEF FewerStamps
  <2>4. Attempted(c)' => mem'.stamp[c] = NoStamp
    BY <1>3, <2>2 DEF VoidStamp, Attempted
  <2> QED BY <1>3, <2>3, <2>4, KeptIsLatest DEF VoidStamp, history
<1>4. CASE EnsureStarted
  <2>1. Attempted(c)' => Attempted(c)
    BY <1>4 DEF EnsureStarted, Finish, Attempted, exec
  <2> QED BY <1>4, <2>1, StartIsLatest DEF EnsureStarted
<1>5. CASE SendRequest \/ KernelReplies
  <2>1. task.cell \in Cells /\ UNCHANGED <<mem, task, kernel>> /\ pc \in {"starting", "running"}
        /\ pc' \in {"running", "replied"}
    BY <1>5, <1>t DEF SendRequest, KernelReplies
  <2>2. c # task.cell => lastRun'[c] = lastRun[c]
    BY <1>5, <1>t DEF SendRequest, KernelReplies
  <2>3. Attempted(c) <=> c = task.cell
    BY <2>1 DEF Attempted
  <2>4. Attempted(c)' <=> c = task.cell
    BY <2>1 DEF Attempted
  <2>5. c = task.cell => mem'.stamp[c] = NoStamp
    BY <2>1, <2>3 DEF StampIsLatest
  <2> QED BY <2>1, <2>2, <2>3, <2>4, <2>5, KeptIsLatest
<1>6. CASE WriteBack
  <2> DEFINE base  == MergeBase
             stamp == IF result = "ok" THEN [rev |-> task.rev, epoch |-> epoch] ELSE NoStamp
             new   == IF base.src[task.cell] = task.rev
                      THEN WithStamp(base, task.cell, stamp) ELSE base
  <2>1. task.cell \in Cells /\ mem' = new /\ UNCHANGED <<kernel, lastRun>> /\ pc' = "idle"
    BY <1>6, <1>t DEF WriteBack, Finish, history
  <2>2. ~Attempted(c)'
    BY <2>1 DEF Attempted
  <2>3. base \in Notebooks /\ (base.stamp[c] = mem.stamp[c] \/ base.stamp[c] = disk.stamp[c])
    BY <1>t DEF MergeBase
  <2> HIDE DEF base, stamp
  <2>4. mem'.stamp[c] = base.stamp[c] \/ (c = task.cell /\ mem'.stamp[c] = stamp)
    BY <2>1, <2>3 DEF WithStamp, Notebooks
  <2>5. CASE mem'.stamp[c] = base.stamp[c]
    <3>1. mem'.stamp[c] = mem.stamp[c]
      BY <2>3, <2>5
    <3> QED BY <2>1, <2>2, <3>1, KeptIsLatest
  <2>6. CASE c = task.cell /\ mem'.stamp[c] = stamp /\ result = "ok"
    <3>1. mem'.stamp[c].rev = task.rev
      BY <2>6 DEF stamp
    <3>2. lastRun'[c] = [rev |-> task.rev, status |-> "ok"]
      BY <1>6, <2>1, <2>6 DEF ReplyIsLatest, WriteBack
    <3> QED BY <2>2, <3>1, <3>2 DEF StampIsLatest
  <2>7. CASE c = task.cell /\ mem'.stamp[c] = stamp /\ result # "ok"
    <3>1. mem'.stamp[c] = NoStamp
      BY <2>7 DEF stamp
    <3> QED BY <2>2, <3>1 DEF StampIsLatest
  <2> QED BY <2>4, <2>5, <2>6, <2>7
<1> QED BY <1>1, <1>2, <1>3, <1>4, <1>5, <1>6 DEF WorkerStep

\* Whoever edits, kills or restarts, and whenever: a cell has a stamp in memory
\* that an attempt voided, or that is not of its latest attempt, only after a
\* reload has read that stamp from the file (_run_task: the stamp is popped in
\* memory alone).
THEOREM StampsAreOfLatest == Spec => OnlyReloadsRevive
<1> DEFINE Revived(c) == mem'.stamp[c] # mem.stamp[c] /\ mem'.stamp[c] = disk.stamp[c]
<1>1. ASSUME RanInv, ReplyIsLatest, [Next]_vars, NEW c \in Cells, StampIsLatest(c), ~StampIsLatest(c)'
      PROVE  Revived(c)
  <2> SUFFICES ASSUME mem'.stamp[c] = disk.stamp[c] => mem'.stamp[c] = mem.stamp[c]
               PROVE  StampIsLatest(c)'
    BY <1>1
  <2>1. CASE ToolStep
    BY <1>1, <2>1, ToolIsLatest
  <2>2. CASE WorkerStep
    BY <1>1, <2>2, WorkerIsLatest
  <2>3. CASE KernelDies
    BY <1>1, <2>3 DEF KernelDies, StampIsLatest, Attempted, Alive, exec
  <2>4. CASE ServerRestarts
    BY <2>4 DEF ServerRestarts, StampIsLatest, Attempted, Alive
  <2>5. CASE EditorStep \/ UNCHANGED vars
    BY <1>1, <2>5, KeptIsLatest DEF EditorStep, EditorOpens, EditorSaves, Attempted, vars, exec,
                                    history
  <2> QED BY <1>1, <2>1, <2>2, <2>3, <2>4, <2>5 DEF Next
<1>2. RanInv /\ ReplyIsLatest /\ [Next]_vars =>
        \A c \in Cells : StampIsLatest(c) /\ ~StampIsLatest(c)' => Revived(c)
  BY <1>1
<1>3. Init => ReplyIsLatest
  BY DEF Init, ReplyIsLatest
<1>4. RanInv /\ ReplyIsLatest /\ [Next]_vars => ReplyIsLatest'
  BY ReplyStaysLatest DEF RanInv
<1> QED BY <1>2, <1>3, <1>4, RanInductive, PTL DEF Spec, OnlyReloadsRevive
============================================================================
