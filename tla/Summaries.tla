------------------------------ MODULE Summaries ------------------------------
(***************************************************************************)
(* The LLM summaries cached in cell metadata (summaries.py) across one     *)
(* overview or summarize_cells call (server.py).  While the tool thread    *)
(* waits for the LLM the executor ends runs and an editor may save the     *)
(* file.  A summary is told by what the LLM was shown; a rev or a hash by  *)
(* what it is taken of.                                                    *)
(***************************************************************************)
EXTENDS Naturals, FiniteSets

CONSTANTS
  Cells,
  Sources,
  Outputs,     \* what a run may leave behind
  None,        \* no outputs, no summary, no task
  MaxEdits,    \* bound: edits, by tools and by the editor
  MaxRuns      \* bound: runs

Notes    == [rev: Sources, shown: Sources, by: {"llm", "fallback"}]
OutNotes == [hash: Outputs, shown: Outputs]

Records  == [src: Sources, out: Outputs \cup {None},
             summary: Notes \cup {None}, outSummary: OutNotes \cup {None}]

ASSUME NoneAssumption == None \notin Sources \cup Outputs \cup Notes \cup OutNotes \cup Records
ASSUME BoundsAssumption == MaxEdits \in Nat /\ MaxRuns \in Nat

VARIABLES
  mem, disk, sync,  \* the notebook, the file, what _disk_sha is of
  disabled,         \* _disabled_reason is set
  running,          \* the cell and the source in the kernel
  pc,               \* where the tool call is
  tool,             \* which one it is
  names,            \* the cells it was asked about
  asked,            \* sent to the LLM: cell -> source, then cell -> outputs
  overtaken,        \* history: cells a reload changed while the LLM read their code
  edits, runs

file == <<disk, sync>>
call == <<pc, tool, names, asked>>
vars == <<mem, file, disabled, running, call, overtaken, edits, runs>>

NewCell(s)  == [src |-> s, out |-> None, summary |-> None, outSummary |-> None]
Present(nb) == {c \in Cells : nb[c] # None}

\* What a tool call must leave alone.
Source(nb, c)  == IF c \in Present(nb) THEN nb[c].src ELSE None
Content(nb, c) == IF c \in Present(nb) THEN <<nb[c].src, nb[c].out>> ELSE None

DiskChanged == disk # sync

\* Mutant: any summary will do.
AnySummary(x) == x.summary

\* get_summary(): a summary counts if it was filed under the present rev.
GetSummary(x) == IF x.summary # None /\ x.summary.rev = x.src THEN x.summary ELSE None

\* dirty_cells(): no summary, or a fallback while the LLM may be asked.
Dirty(nb, S) ==
  {c \in Present(nb) \cap S :
     \/ GetSummary(nb[c]) = None
     \/ ~disabled /\ GetSummary(nb[c]).by = "fallback"}

\* _write_fallbacks(): the first line of the source, cell by cell.
WithFallbacks(nb, S) ==
  [c \in Cells |->
    IF c \notin S \cap Present(nb) THEN nb[c]
    ELSE [nb[c] EXCEPT !.summary = [rev |-> nb[c].src, shown |-> nb[c].src, by |-> "fallback"]]]

\* The summaries of a reply: each filed under the rev its cell has NOW.
WithSummaries(nb, S) ==
  [c \in Cells |->
    IF c \notin S THEN nb[c]
    ELSE [nb[c] EXCEPT !.summary = [rev |-> nb[c].src, shown |-> asked[c], by |-> "llm"]]]

\* Mutant: an output summary is filed under the outputs of now as well.
OutHashNow(nb, c) == nb[c].out

\* An output summary is filed under the hash taken when it was asked for.
OutHash(nb, c) == asked[c]

WithOutSummaries(nb, S) ==
  [c \in Cells |->
    IF c \notin S THEN nb[c]
    ELSE [nb[c] EXCEPT !.outSummary = [hash |-> OutHash(nb, c), shown |-> asked[c]]]]

----------------------------------------------------------------------------
Init ==
  \E S \in SUBSET Cells, s \in Sources :
    LET nb == [c \in Cells |-> IF c \in S THEN NewCell(s) ELSE None]
    IN  /\ mem = nb /\ disk = nb /\ sync = nb
        /\ disabled = FALSE /\ running = None
        /\ pc = "idle" /\ tool = "none" /\ names = {} /\ asked = <<>>
        /\ overtaken = {}
        /\ edits = 0 /\ runs = 0

\* add_cell, update_cell, remove_cell, as far as summaries can tell: nb has
\* another source, no cell or a new cell at c.
Edit(c, x) ==
  /\ edits < MaxEdits /\ edits' = edits + 1
  /\ x # mem[c]
  /\ pc = "idle" /\ ~DiskChanged
  /\ mem' = [mem EXCEPT ![c] = x]
  /\ disk' = mem' /\ sync' = mem'
  /\ UNCHANGED <<disabled, running, call, overtaken, runs>>

\* update_cell keeps the summary, which no longer counts, and drops the rest.
UpdateCell(c, s) ==
  c \in Present(mem) /\ Edit(c, [mem[c] EXCEPT !.src = s, !.out = None, !.outSummary = None])
RemoveCell(c) == c \in Present(mem) /\ Edit(c, None)
AddCell(c, s) == c \notin Present(mem) /\ Edit(c, NewCell(s))

----------------------------------------------------------------------------
(* The tool call: notebook_overview or summarize_cells.                    *)

\* The file if it changed, else the notebook in memory: what every reload that
\* is made only if needed leaves behind.
Current == IF DiskChanged THEN disk ELSE mem

\* refresh_reads(), dirty_cells(), and the request if there is one to make.
Ask(t, S) ==
  /\ pc = "idle"
  /\ t = "overview" => S = Cells
  /\ sync' = disk
  /\ tool' = t /\ names' = S
  /\ LET dirty == Dirty(Current, S)
     IN  IF disabled \/ dirty = {}
         THEN /\ mem' = WithFallbacks(Current, dirty)
              /\ asked' = <<>>
              /\ pc' = IF t = "summarize" THEN "outputs" ELSE IF dirty = {} THEN "idle" ELSE "save"
         ELSE /\ mem' = Current
              /\ asked' = [c \in dirty |-> Current[c].src]
              /\ pc' = "code"
  /\ UNCHANGED <<disk, disabled, running, overtaken, edits, runs>>

\* The summaries for the cells S are filed, which leaves filed[S], and the tool
\* goes on; if one of the cells is gone, get() raises when some of the others
\* were filed, and the call is over.
File(S, filed, next) ==
  IF S \subseteq Present(mem)
  THEN mem' = filed[S] /\ pc' = next
  ELSE (\E part \in DOMAIN filed : mem' = filed[part]) /\ pc' = "idle"

Filable(S) == SUBSET (S \cap Present(mem))

AfterCode == IF tool = "overview" THEN "save" ELSE "outputs"

\* The reply may leave out cells, which get a fallback ...
CodeReply(got) ==
  /\ pc = "code"
  /\ got \subseteq DOMAIN asked
  /\ LET filed == [S \in Filable(DOMAIN asked) |->
                    WithFallbacks(WithSummaries(mem, S \cap got), S \ got)]
     IN  File(DOMAIN asked, filed, AfterCode)
  /\ UNCHANGED <<file, disabled, running, tool, names, asked, overtaken, edits, runs>>

\* ... and any exception turns the LLM off.
CodeFails ==
  /\ pc = "code"
  /\ disabled' = TRUE
  /\ LET filed == [S \in Filable(DOMAIN asked) |-> WithFallbacks(mem, S)]
     IN  File(DOMAIN asked, filed, AfterCode)
  /\ UNCHANGED <<file, running, tool, names, asked, overtaken, edits, runs>>

\* summarize_outputs(): asks about the outputs that have no summary yet.
AskOutputs ==
  /\ pc = "outputs"
  /\ LET todo == {c \in names \cap Present(mem) :
                   /\ mem[c].out # None
                   /\ mem[c].outSummary = None \/ mem[c].outSummary.hash # mem[c].out}
     IN  \/ /\ names # Cells /\ ~(names \subseteq Present(mem))
            /\ pc' = "idle" \* CellNotFound
            /\ UNCHANGED asked
         \/ /\ names = Cells \/ names \subseteq Present(mem)
            /\ IF disabled \/ todo = {}
               THEN pc' = "save" /\ UNCHANGED asked
               ELSE pc' = "reply" /\ asked' = [c \in todo |-> mem[c].out]
  /\ UNCHANGED <<mem, file, disabled, running, tool, names, overtaken, edits, runs>>

OutputReply(got) ==
  /\ pc = "reply"
  /\ got \subseteq DOMAIN asked
  /\ File(got, [S \in Filable(got) |-> WithOutSummaries(mem, S)], "save")
  /\ UNCHANGED <<file, disabled, running, tool, names, asked, overtaken, edits, runs>>

OutputFails ==
  /\ pc = "reply"
  /\ disabled' = TRUE
  /\ pc' = "save"
  /\ UNCHANGED <<mem, file, running, tool, names, asked, overtaken, edits, runs>>

SaveAlways == \* mutant: the file is not looked at
  /\ pc = "save"
  /\ disk' = mem /\ sync' = mem
  /\ pc' = "idle" /\ asked' = <<>>
  /\ UNCHANGED <<mem, disabled, running, tool, names, overtaken, edits, runs>>

\* save_if_unchanged()
Save ==
  /\ pc = "save"
  /\ mem' = Current /\ disk' = Current /\ sync' = Current
  /\ pc' = "idle" /\ asked' = <<>>
  /\ UNCHANGED <<disabled, running, tool, names, overtaken, edits, runs>>

----------------------------------------------------------------------------
(* The executor thread and the editor.                                     *)

RunBegins(c) ==
  /\ running = None
  /\ runs < MaxRuns /\ runs' = runs + 1
  /\ c \in Present(mem)
  /\ running' = [cell |-> c, rev |-> mem[c].src]
  /\ mem' = [mem EXCEPT ![c].outSummary = None]
  /\ UNCHANGED <<file, disabled, call, overtaken, edits>>

\* The write-back: into the file if it changed, and then the notebook that a
\* request was made for is another one.
RunEnds(o) ==
  /\ running # None
  /\ LET c   == running.cell
         new == IF c \in Present(Current) /\ Current[c].src = running.rev
                THEN [Current EXCEPT ![c].out = o, ![c].outSummary = None]
                ELSE Current
     IN  mem' = new /\ disk' = new /\ sync' = new
  /\ overtaken' = IF pc = "code" /\ DiskChanged
                  THEN overtaken \cup {c \in DOMAIN asked : Source(mem', c) # asked[c]}
                  ELSE overtaken
  /\ running' = None
  /\ UNCHANGED <<disabled, call, edits, runs>>

\* Another source, no cell, or a new one; outputs and summaries stay with it.
EditorSaves(c) ==
  /\ edits < MaxEdits /\ edits' = edits + 1
  /\ \E s \in Sources :
       \/ c \in Present(disk) /\ disk' = [disk EXCEPT ![c].src = s]
       \/ c \in Present(disk) /\ disk' = [disk EXCEPT ![c] = None]
       \/ c \notin Present(disk) /\ disk' = [disk EXCEPT ![c] = NewCell(s)]
  /\ UNCHANGED <<mem, sync, disabled, running, call, overtaken, runs>>

----------------------------------------------------------------------------
EditStep ==
  \E c \in Cells :
    \/ \E s \in Sources : UpdateCell(c, s) \/ AddCell(c, s)
    \/ RemoveCell(c)

CallStep ==
  \/ \E t \in {"overview", "summarize"}, S \in (SUBSET Cells) \ {{}} : Ask(t, S)
  \/ \E got \in SUBSET Cells : CodeReply(got) \/ OutputReply(got)
  \/ CodeFails \/ AskOutputs \/ OutputFails \/ Save

WorkerStep == (\E c \in Cells : RunBegins(c)) \/ (\E o \in Outputs \cup {None} : RunEnds(o))

EditorStep == \E c \in Cells : EditorSaves(c)

Next == EditStep \/ CallStep \/ WorkerStep \/ EditorStep

Spec == Init /\ [][Next]_vars

----------------------------------------------------------------------------
(* Properties.                                                             *)

TypeOK ==
  /\ {mem, disk, sync} \subseteq [Cells -> Records \cup {None}]
  /\ disabled \in BOOLEAN /\ overtaken \subseteq Cells
  /\ running = None \/ running \in [cell: Cells, rev: Sources]
  /\ pc \in {"idle", "code", "outputs", "reply", "save"}
  /\ tool \in {"none", "overview", "summarize"} /\ names \subseteq Cells
  /\ DOMAIN asked \subseteq Cells
  /\ \A c \in DOMAIN asked : asked[c] \in IF pc = "reply" THEN Outputs ELSE Sources \cup Outputs
  /\ edits \in 0..MaxEdits /\ runs \in 0..MaxRuns

\* A summary that is shown for a cell describes the source the cell has.
Describes(x) == GetSummary(x) # None => GetSummary(x).shown = x.src

\* A summary shown describes its cell (summaries.py: "keyed by the cell's
\* content revision"), whatever is edited and run around a request, unless the
\* executor reloaded the notebook while the LLM read this very cell and found
\* another source, or no such cell: then the reply is filed under the new rev.
SummaryDescribes == \A c \in Present(mem) : c \in overtaken \/ Describes(mem[c])

\* summarize_cells shows no summary of other outputs than those the cell has,
\* although runs replace outputs while the LLM answers.
OutSummaryDescribes ==
  \A c \in Present(mem) : LET x == mem[c] IN
    x.out # None /\ x.outSummary # None /\ x.outSummary.hash = x.out => x.outSummary.shown = x.out

\* An editor's save during a slow LLM call wins: what the server writes next
\* has its sources (save_if_unchanged: "an external edit ... must win").  Nor does
\* a tool call change a source or the outputs of a cell by itself: the file keeps
\* those it has, and in memory are those of before the step or those of the file.
EditsSurviveCall ==
  [][/\ disk # sync /\ disk' # disk =>
          EditorStep \/ \A c \in Cells : Source(disk', c) = Source(disk, c)
     /\ CallStep =>
          /\ \A c \in Cells : Content(disk', c) = Content(disk, c)
          /\ \/ \A c \in Cells : Content(mem', c) = Content(mem, c)
             \/ \A c \in Cells : Content(mem', c) = Content(disk, c)]_vars
============================================================================
