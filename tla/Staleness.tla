----------------------------- MODULE Staleness -----------------------------
(***************************************************************************)
(* What staleness means for the data a cell reads: stale_names() with its  *)
(* dependency fingerprint (session.py), the run tool that executes what is *)
(* stale (server.py), and the variables the kernel really holds.  The      *)
(* graph is NotebookGraph's; when a stamp is written and voided is module  *)
(* Session's, the executor's steps are TaskExecutor's.                     *)
(*                                                                         *)
(* What the kernel's variables hold is told by where it comes from: which  *)
(* cell computed it, with which source, and whether that was the latest    *)
(* run of the cell.  An epoch is not needed: no stamp of an older kernel   *)
(* ever matches again (Session), so a new kernel voids them all.           *)
(***************************************************************************)
EXTENDS NotebookGraph, Sequences

CONSTANTS
  Cells,       \* nbformat ids of code cells
  Vars,        \* variable names
  Sources,     \* what a cell may contain
  SourcesOf,   \* SourcesOf[c]: the sources c is given
  Uses,        \* Uses[s], Writes[s]: what analyze_source finds in s
  Writes,
  NoStamp,
  NoTask,
  Unset,       \* the variable is not defined, or was not read
  MaxBatches   \* bound: batches not finished at a time

ASSUME SourcesAssumption ==
  /\ IsFiniteSet(Cells)
  /\ SourcesOf \in [Cells -> (SUBSET Sources) \ {{}}]
  /\ Uses \in [Sources -> SUBSET Vars] /\ Writes \in [Sources -> SUBSET Vars]

Tasks   == [cell: Cells, rev: Sources]
Running == [cell: Cells, rev: Sources, last: BOOLEAN] \* last of its batch?

Values  == [cell: Cells, rev: Sources, latest: BOOLEAN]
Stamps  == [rev: Sources, deps: SUBSET (Vars \X Cells)]

ASSUME SpecialValues == Unset \notin Values /\ NoTask \notin Running /\ NoStamp \notin Stamps

VARIABLES
  order,      \* the notebook's cells, top to bottom
  unused,     \* ids no cell has had yet
  src,        \* the source of each cell
  stamp,      \* last_exec_rev and last_exec_deps of each cell
  running,    \* the task in the kernel
  batches,    \* the tasks still to come, batch by batch
  wanted,     \* the cells run() has chosen and not yet submitted
  value,      \* history: what each variable of the kernel holds
  seen,       \* history: what each cell read when it ran last
  disturbed   \* history: "no" if this kernel has seen only default runs that
              \* went through while nobody edited the notebook

notebook == <<order, unused, src>>
exec     == <<running, batches>>
kernel   == <<value, seen>>
vars     == <<notebook, stamp, exec, wanted, kernel, disturbed>>

Present == {order[i] : i \in DOMAIN order}
Busy    == running # NoTask \/ batches # <<>>

----------------------------------------------------------------------------
(* stale_names().                                                          *)

Position(c) == CHOOSE i \in DOMAIN order : order[i] = c
Find(f)     == [i \in DOMAIN order |-> f[src[order[i]]]]

\* _dep_signature: which cell provides which variable, by id.
Deps(c) ==
  {<<e[1], order[e[2]]>> : e \in ParentsOf(Find(Uses), Find(Writes), {}, Position(c))}

IgnoresDeps(c) == stamp[c] # NoStamp /\ stamp[c].rev = src[c] \* mutant: no fingerprint

\* The cell ran as it is, on this kernel, with the providers it has now.
Matches(c) == stamp[c] # NoStamp /\ stamp[c].rev = src[c] /\ stamp[c].deps = Deps(c)

Edges     == UNION {{<<d[2], c>> : d \in Deps(c)} : c \in Present}
Ancestors(S) == Reach({<<e[2], e[1]>> : e \in Edges}, S, Present) \* with S
Stale     == Reach(Edges, {c \in Present : ~Matches(c)}, Present)

----------------------------------------------------------------------------
Init ==
  /\ order \in UNION {{f \in [1..n -> Cells] : \A i, j \in 1..n : f[i] = f[j] => i = j} :
                        n \in 1..Cardinality(Cells)}
  /\ unused = Cells \ Present
  /\ src \in {f \in [Cells -> Sources] : \A c \in Cells : f[c] \in SourcesOf[c]}
  /\ stamp = [c \in Cells |-> NoStamp]
  /\ running = NoTask /\ batches = <<>> /\ wanted = {}
  /\ value = [v \in Vars |-> Unset]
  /\ seen = [c \in Cells |-> [v \in Vars |-> Unset]]
  /\ disturbed = "no"

(* Edits: by a call, or by a reload.  In the midst of run() the worker alone *)
(* reloads.                                                                *)

Edited ==
  /\ wanted = {} \/ Busy
  /\ disturbed' = IF Busy THEN "yes" ELSE disturbed
  /\ UNCHANGED <<exec, wanted, kernel>>

UpdateCell(c, s) ==
  /\ c \in Present
  /\ s \in SourcesOf[c] \ {src[c]}
  /\ src' = [src EXCEPT ![c] = s]
  /\ Edited /\ UNCHANGED <<order, unused, stamp>>

Without(c)        == SubSeq(order, 1, Position(c) - 1) \o SubSeq(order, Position(c) + 1, Len(order))
InsertAt(s, c, i) == SubSeq(s, 1, i) \o <<c>> \o SubSeq(s, i + 1, Len(s))

\* Mutant: the id of the new cell may be given to another one.
AddSameId(c, i) ==
  /\ c \in unused
  /\ order' = InsertAt(order, c, i)
  /\ Edited /\ UNCHANGED <<unused, src, stamp>>

AddCell(c, i) ==
  /\ c \in unused
  /\ order' = InsertAt(order, c, i)
  /\ unused' = unused \ {c}
  /\ Edited /\ UNCHANGED <<src, stamp>>

MoveCell(c, i) ==
  /\ c \in Present
  /\ i < Len(order)
  /\ order' = InsertAt(Without(c), c, i)
  /\ Edited /\ UNCHANGED <<unused, src, stamp>>

RemoveCell(c) ==
  /\ c \in Present
  /\ order' = Without(c)
  /\ Edited /\ UNCHANGED <<unused, src, stamp>>

----------------------------------------------------------------------------
(* Runs.                                                                   *)

Unfinished == Len(batches) + (IF running # NoTask /\ running.last THEN 1 ELSE 0)

\* The cells S in document order.
Ordered(S) ==
  {names \in [1..Cardinality(S) -> S] :
     /\ \A c \in S : \E i \in DOMAIN names : names[i] = c
     /\ \A i, j \in DOMAIN names : i < j => Position(names[i]) < Position(names[j])}

\* run() has chosen the cells S; the worker goes on until they are submitted.
Want(S) ==
  /\ wanted = {} /\ S # {}
  /\ Unfinished < MaxBatches
  /\ wanted' = S
  /\ UNCHANGED <<notebook, stamp, exec, kernel>>

\* run() without names, and run="stale" of add_cell and update_cell.
RunStale == Want(Stale) /\ UNCHANGED disturbed

\* run(cells): exactly those, after their stale ancestors if fresh_deps.
RunCells(S, freshDeps) ==
  /\ Want(S \cup (IF freshDeps THEN Ancestors(S) \cap Stale ELSE {}))
  /\ disturbed' = "yes"

\* submit_cells: a task per cell, in document order.
Submit ==
  /\ wanted # {} /\ wanted \subseteq Present
  /\ \E names \in Ordered(wanted) :
       batches' = Append(batches, [i \in DOMAIN names |-> [cell |-> names[i], rev |-> src[names[i]]]])
  /\ wanted' = {}
  /\ UNCHANGED <<notebook, stamp, running, kernel, disturbed>>

\* It refuses: a cell is gone, or the editor has saved the file.
Refuse ==
  /\ wanted # {}
  /\ wanted' = {}
  /\ UNCHANGED <<notebook, stamp, exec, kernel, disturbed>>

\* The next task of the first batch: its cell may be gone or changed, which
\* leaves the rest of the batch alone; otherwise its stamp is voided.
Begin ==
  /\ running = NoTask
  /\ batches # <<>>
  /\ LET batch == Head(batches)
         task  == Head(batch)
         rest  == IF Len(batch) = 1 THEN Tail(batches) ELSE <<Tail(batch)>> \o Tail(batches)
     IN  /\ batches' = rest
         /\ IF task.cell \in Present /\ src[task.cell] = task.rev
            THEN /\ running' = [cell |-> task.cell, rev |-> task.rev, last |-> Len(batch) = 1]
                 /\ stamp' = [stamp EXCEPT ![task.cell] = NoStamp]
            ELSE UNCHANGED <<running, stamp>>
  /\ UNCHANGED <<notebook, wanted, kernel, disturbed>>

\* The code of c ran, as rev: it read the variables in R and left those in W.
Ran(c, rev, R, W) ==
  LET Aged(val) == IF val # Unset /\ val.cell = c THEN [val EXCEPT !.latest = FALSE] ELSE val
      new       == [cell |-> c, rev |-> rev, latest |-> TRUE]
  IN  /\ value' = [v \in Vars |-> IF v \in W THEN new ELSE Aged(value[v])]
      /\ seen' = [d \in Cells |-> [v \in Vars |->
           IF d # c THEN Aged(seen[d][v]) ELSE IF v \in R THEN Aged(value[v]) ELSE Unset]]

\* Mutant: the fingerprint is forgotten when the run is stamped.
StampNoDeps(c, rev) == [stamp EXCEPT ![c] = [rev |-> rev, deps |-> {}]]

Stamped(c, rev) == [stamp EXCEPT ![c] = [rev |-> rev, deps |-> Deps(c)]]

\* A variable that is not defined is a NameError.
EndOk ==
  /\ running # NoTask
  /\ \A v \in Uses[running.rev] : value[v] # Unset
  /\ LET c == running.cell
     IN  /\ Ran(c, running.rev, Uses[running.rev], Writes[running.rev])
         /\ stamp' = IF c \in Present /\ src[c] = running.rev
                     THEN Stamped(c, running.rev) ELSE stamp
  /\ running' = NoTask
  /\ UNCHANGED <<notebook, batches, wanted, disturbed>>

\* An error, a timeout or an interrupt: some of the variables were set, and
\* the rest of the batch is skipped.
EndFailed ==
  /\ running # NoTask
  /\ \E W \in SUBSET Writes[running.rev] : Ran(running.cell, running.rev, {}, W)
  /\ running' = NoTask
  /\ batches' = IF running.last THEN batches ELSE Tail(batches)
  /\ disturbed' = "yes"
  /\ UNCHANGED <<notebook, stamp, wanted>>

\* interrupt(clear_queue=True): what waits is cancelled.
Cancel ==
  /\ wanted = {}
  /\ batches # <<>>
  /\ batches' = <<>>
  /\ running' = IF running = NoTask THEN NoTask ELSE [running EXCEPT !.last = TRUE]
  /\ disturbed' = "yes"
  /\ UNCHANGED <<notebook, stamp, wanted, kernel>>

\* A new kernel, refused while busy: it holds nothing, no stamp matches it.
NewKernel ==
  /\ ~Busy /\ wanted = {}
  /\ stamp' = [c \in Cells |-> NoStamp]
  /\ value' = [v \in Vars |-> Unset]
  /\ seen' = [c \in Cells |-> [v \in Vars |-> Unset]]
  /\ disturbed' = "no"
  /\ UNCHANGED <<notebook, exec, wanted>>

EditStep ==
  \E c \in Cells :
    \/ \E s \in Sources : UpdateCell(c, s)
    \/ \E i \in 0..Len(order) : AddCell(c, i) \/ MoveCell(c, i)
    \/ RemoveCell(c)

RunCall == RunStale \/ \E S \in SUBSET Present, freshDeps \in BOOLEAN : RunCells(S, freshDeps)

Next == EditStep \/ RunCall \/ Submit \/ Refuse \/ Begin \/ EndOk \/ EndFailed \/ Cancel \/ NewKernel

Spec == Init /\ [][Next]_vars

----------------------------------------------------------------------------
(* Properties.                                                             *)

TypeOK ==
  /\ order \in Seq(Cells) /\ \A i, j \in DOMAIN order : order[i] = order[j] => i = j
  /\ unused \subseteq Cells \ Present
  /\ src \in [Cells -> Sources] /\ \A c \in Cells : src[c] \in SourcesOf[c]
  /\ stamp \in [Cells -> Stamps \cup {NoStamp}]
  /\ running \in Running \cup {NoTask}
  /\ batches \in Seq(Seq(Tasks) \ {<<>>}) /\ wanted \subseteq Cells
  /\ value \in [Vars -> Values \cup {Unset}]
  /\ seen \in [Cells -> [Vars -> Values \cup {Unset}]]
  /\ disturbed \in {"no", "yes"}

\* Only one cell can write v, whatever sources the cells are given.
Sole(v) ==
  \A c, d \in Cells :
    (\E s \in SourcesOf[c] : v \in Writes[s]) /\ (\E s \in SourcesOf[d] : v \in Writes[s]) => c = d

\* A cell that does not read as stale has seen the latest value of every
\* variable it uses that one cell alone writes: its last run read what the
\* provider's last run left.  That holds as long as only default runs are made,
\* they go through, and nobody edits while they work: then it survives every edit,
\* reordering, addition and removal in between (run: "minimal recompute after edits").
CalmInputsCurrent ==
  disturbed = "no" /\ ~Busy => \A c \in Present \ Stale : \A d \in Deps(c) :
    Sole(d[1]) => seen[c][d[1]] = [cell |-> d[2], rev |-> src[d[2]], latest |-> TRUE]

\* A cell that does not read as stale has at least seen what its providers
\* compute with the source they have now (README: "Source edits make a cell
\* and its dependents stale").
EditsReachDependents ==
  ~Busy => \A c \in Present \ Stale : \A d \in Deps(c) :
    LET val == seen[c][d[1]] IN val # Unset /\ val.cell = d[2] /\ val.rev = src[d[2]]

\* When such a run has gone through nothing is stale any more.
RunFreshens == [][Busy /\ ~Busy' /\ disturbed' = "no" => Stale' = {}]_vars
============================================================================
