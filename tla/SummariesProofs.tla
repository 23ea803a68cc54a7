-------------------------- MODULE SummariesProofs --------------------------
(***************************************************************************)
(* What is shown for a cell was said of it, for any cells, sources and     *)
(* outputs: every note on file names truly what the LLM was shown, and     *)
(* what is written into the file never undoes an edit made there.          *)
(***************************************************************************)
EXTENDS Summaries, TLAPS

Notebooks == [Cells -> Records \cup {None}]

----------------------------------------------------------------------------
(* The inductive invariant.                                                *)

\* A summary was made from the source under whose rev it is filed.
FiledRight(x) == x.summary # None => x.summary.shown = x.summary.rev

\* An output summary was made from the outputs whose hash it is filed under.
OutFiledRight(x) == x.outSummary # None => x.outSummary.shown = x.outSummary.hash

\* All notes in a notebook are filed right; r excuses the summaries of its cells.
Kept(nb, r) ==
  /\ nb \in Notebooks
  /\ \A c \in Present(nb) : (c \in r \/ FiledRight(nb[c])) /\ OutFiledRight(nb[c])

\* While the LLM reads the code the cells it was shown are there and do not
\* change, unless a reload overtakes them.
AskedNow ==
  pc = "code" =>
    \A c \in DOMAIN asked :
      /\ asked[c] \in Sources
      /\ c \in overtaken \/ Source(mem, c) = asked[c]

\* Both what is in memory and what a reload would bring in are kept right.
SummaryInv == TypeOK /\ Kept(mem, overtaken) /\ Kept(disk, overtaken) /\ AskedNow

----------------------------------------------------------------------------
(* The operators on notebooks.                                             *)

\* What a reload that is made only if needed leaves is kept right.
LEMMA CurrentKept ==
  ASSUME SummaryInv PROVE Kept(Current, overtaken)
BY DEF SummaryInv, Current

\* A fallback is made from the source its cell has, and changes nothing else.
LEMMA FallbacksKept ==
  ASSUME NEW nb, NEW S, NEW r, Kept(nb, r)
  PROVE  /\ Kept(WithFallbacks(nb, S), r)
         /\ \A c \in Cells : Content(WithFallbacks(nb, S), c) = Content(nb, c)
<1> DEFINE new == WithFallbacks(nb, S)
<1>1. ASSUME NEW c \in Cells
      PROVE  /\ new[c] \in Records \cup {None}
             /\ new[c] # None => (c \in r \/ FiledRight(new[c])) /\ OutFiledRight(new[c])
             /\ Content(new, c) = Content(nb, c)
  <2>1. CASE c \notin S \cap Present(nb)
    BY <2>1 DEF WithFallbacks, Kept, Notebooks, Present, Content
  <2>2. CASE c \in S \cap Present(nb)
    <3> DEFINE note == [rev |-> nb[c].src, shown |-> nb[c].src, by |-> "fallback"]
    <3>1. nb[c] \in Records /\ OutFiledRight(nb[c])
      BY <2>2 DEF Kept, Notebooks, Present
    <3>2. new[c] = [nb[c] EXCEPT !.summary = note]
      BY <2>2 DEF WithFallbacks
    <3>3. note \in Notes /\ note.shown = note.rev
      BY <3>1 DEF Notes, Records
    <3> HIDE DEF note
    <3>4. new[c] \in Records /\ new[c].summary = note /\ new[c].src = nb[c].src
          /\ new[c].out = nb[c].out /\ new[c].outSummary = nb[c].outSummary
      BY <3>1, <3>2, <3>3 DEF Records
    <3>5. Content(new, c) = Content(nb, c)
      BY <2>2, <3>4, NoneAssumption DEF Content, Present
    <3> QED BY <2>2, <3>1, <3>3, <3>4, <3>5 DEF FiledRight, OutFiledRight
  <2> QED BY <2>1, <2>2
<1>2. new \in Notebooks
  <2>1. new = [c \in Cells |-> new[c]]
    BY DEF WithFallbacks
  <2> QED BY <1>1, <2>1 DEF Notebooks
<1> QED BY <1>1, <1>2 DEF Kept, Present

\* The summaries of a reply are made from what was asked about and are all that
\* changes.
LEMMA SummariesKept ==
  ASSUME SummaryInv, pc = "code", NEW S \in SUBSET (DOMAIN asked \cap Present(mem))
  PROVE  /\ Kept(WithSummaries(mem, S), overtaken)
         /\ \A c \in Cells : Content(WithSummaries(mem, S), c) = Content(mem, c)
<1> DEFINE new == WithSummaries(mem, S)
<1>1. ASSUME NEW c \in Cells
      PROVE  /\ new[c] \in Records \cup {None}
             /\ new[c] # None => (c \in overtaken \/ FiledRight(new[c])) /\ OutFiledRight(new[c])
             /\ Content(new, c) = Content(mem, c)
  <2>1. CASE c \notin S
    BY <2>1 DEF SummaryInv, WithSummaries, Kept, Notebooks, Present, Content
  <2>2. CASE c \in S
    <3> DEFINE note == [rev |-> mem[c].src, shown |-> asked[c], by |-> "llm"]
    <3>1. mem[c] \in Records /\ OutFiledRight(mem[c])
      BY <2>2 DEF SummaryInv, Kept, Notebooks, Present
    <3>2. new[c] = [mem[c] EXCEPT !.summary = note]
      BY <2>2 DEF WithSummaries
    <3>3. note \in Notes /\ (c \in overtaken \/ note.shown = note.rev)
      BY <2>2, <3>1 DEF SummaryInv, AskedNow, Notes, Records, Source
    <3> HIDE DEF note
    <3>4. new[c] \in Records /\ new[c].summary = note
          /\ new[c].outSummary = mem[c].outSummary
          /\ new[c].src = mem[c].src /\ new[c].out = mem[c].out
      BY <3>1, <3>2, <3>3 DEF Records
    <3>5. Content(new, c) = Content(mem, c)
      BY <2>2, <3>4, NoneAssumption DEF Content, Present
    <3> QED BY <3>1, <3>3, <3>4, <3>5 DEF FiledRight, OutFiledRight
  <2> QED BY <2>1, <2>2
<1>2. new \in Notebooks
  <2>1. new = [c \in Cells |-> new[c]]
    BY DEF WithSummaries
  <2> QED BY <1>1, <2>1 DEF Notebooks
<1> QED BY <1>1, <1>2 DEF Kept, Present

\* So are the summaries of outputs, which are filed under what was asked about.
LEMMA OutSummariesKept ==
  ASSUME SummaryInv, pc = "reply", NEW S \in SUBSET (DOMAIN asked \cap Present(mem))
  PROVE  /\ Kept(WithOutSummaries(mem, S), overtaken)
         /\ \A c \in Cells : Content(WithOutSummaries(mem, S), c) = Content(mem, c)
<1> DEFINE new == WithOutSummaries(mem, S)
<1>1. ASSUME NEW c \in Cells
      PROVE  /\ new[c] \in Records \cup {None}
             /\ new[c] # None => (c \in overtaken \/ FiledRight(new[c])) /\ OutFiledRight(new[c])
             /\ Content(new, c) = Content(mem, c)
  <2>1. CASE c \notin S
    BY <2>1 DEF SummaryInv, WithOutSummaries, Kept, Notebooks, Present, Content
  <2>2. CASE c \in S
    <3> DEFINE note == [hash |-> asked[c], shown |-> asked[c]]
    <3>1. mem[c] \in Records /\ (c \in overtaken \/ FiledRight(mem[c]))
      BY <2>2 DEF SummaryInv, Kept, Notebooks, Present
    <3>2. new[c] = [mem[c] EXCEPT !.outSummary = note]
      BY <2>2 DEF WithOutSummaries, OutHash
    <3>3. note \in OutNotes /\ note.shown = note.hash
      BY <2>2 DEF SummaryInv, TypeOK, OutNotes
    <3> HIDE DEF note
    <3>4. new[c] \in Records /\ new[c].outSummary = note /\ new[c].summary = mem[c].summary
          /\ new[c].src = mem[c].src /\ new[c].out = mem[c].out
      BY <3>1, <3>2, <3>3 DEF Records
    <3>5. Content(new, c) = Content(mem, c)
      BY <2>2, <3>4, NoneAssumption DEF Content, Present
    <3> QED BY <3>1, <3>3, <3>4, <3>5 DEF FiledRight, OutFiledRight
  <2> QED BY <2>1, <2>2
<1>2. new \in Notebooks
  <2>1. new = [c \in Cells |-> new[c]]
    BY DEF WithOutSummaries
  <2> QED BY <1>1, <2>1 DEF Notebooks
<1> QED BY <1>1, <1>2 DEF Kept, Present

\* A cell that is replaced by one without wrong notes does no harm.
LEMMA ReplacedKept ==
  ASSUME NEW nb, NEW r, Kept(nb, r), NEW c \in Cells, NEW x \in Records \cup {None},
         x # None => (c \in r \/ FiledRight(x)) /\ OutFiledRight(x)
  PROVE  Kept([nb EXCEPT ![c] = x], r)
BY DEF Kept, Notebooks, Present

\* Cells begin without notes.
LEMMA NewCellRight ==
  ASSUME NEW s \in Sources
  PROVE  NewCell(s) \in Records /\ FiledRight(NewCell(s)) /\ OutFiledRight(NewCell(s))
BY DEF NewCell, Records, FiledRight, OutFiledRight

----------------------------------------------------------------------------
(* The steps.                                                              *)

\* No cell has a note at first.
LEMMA InitSummaries == Init => SummaryInv
<1> SUFFICES ASSUME NEW S \in SUBSET Cells, NEW s \in Sources, Init,
                    mem = [c \in Cells |-> IF c \in S THEN NewCell(s) ELSE None],
                    disk = mem, sync = mem
             PROVE  SummaryInv
  BY DEF Init
<1>1. Kept(mem, overtaken)
  BY NewCellRight DEF Kept, Notebooks, Present
<1>2. pc = "idle" /\ tool = "none" /\ names = {} /\ asked = <<>> /\ edits = 0 /\ runs = 0
      /\ disabled = FALSE /\ overtaken = {} /\ running = None
  BY DEF Init
<1>3. TypeOK
  <2>1. mem \in Notebooks /\ disk \in Notebooks /\ sync \in Notebooks
    BY <1>1 DEF Kept
  <2>2. DOMAIN asked = {}
    BY <1>2
  <2>3. edits \in 0..MaxEdits /\ runs \in 0..MaxRuns
    BY <1>2, BoundsAssumption
  <2>4. {mem, disk, sync} \subseteq [Cells -> Records \cup {None}]
    BY <2>1 DEF Notebooks
  <2>5. disabled \in BOOLEAN /\ overtaken \subseteq Cells /\ running = None /\ pc = "idle" /\ tool = "none"
        /\ names \subseteq Cells
    BY <1>2
  <2> QED BY <2>2, <2>3, <2>4, <2>5 DEF TypeOK
<1> QED BY <1>1, <1>2, <1>3 DEF SummaryInv, AskedNow

\* Edits by tools leave right notes right.
LEMMA EditSummaries == ASSUME SummaryInv, EditStep PROVE SummaryInv'
<1>1. PICK c \in Cells, x \in Records \cup {None} :
        Edit(c, x) /\ (x # None => (c \in overtaken \/ FiledRight(x)) /\ OutFiledRight(x))
  <2>1. ASSUME NEW c \in Cells, NEW s \in Sources, UpdateCell(c, s)
        PROVE  \E x \in Records \cup {None} :
                 Edit(c, x) /\ (x # None => (c \in overtaken \/ FiledRight(x)) /\ OutFiledRight(x))
    <3> DEFINE x == [mem[c] EXCEPT !.src = s, !.out = None, !.outSummary = None]
    <3>1. mem[c] \in Records /\ (c \in overtaken \/ FiledRight(mem[c]))
      BY <2>1 DEF UpdateCell, SummaryInv, Kept, Notebooks, Present
    <3>2. x \in Records /\ x.summary = mem[c].summary /\ x.outSummary = None
      BY <3>1 DEF Records
    <3>3. (c \in overtaken \/ FiledRight(x)) /\ OutFiledRight(x)
      BY <3>1, <3>2 DEF FiledRight, OutFiledRight
    <3>4. Edit(c, x)
      BY <2>1 DEF UpdateCell
    <3> QED BY <3>2, <3>3, <3>4
  <2>2. ASSUME NEW c \in Cells, NEW s \in Sources, AddCell(c, s)
        PROVE  Edit(c, NewCell(s))
    BY <2>2 DEF AddCell
  <2>3. ASSUME NEW c \in Cells, RemoveCell(c) PROVE Edit(c, None)
    BY <2>3 DEF RemoveCell
  <2> QED BY <2>1, <2>2, <2>3, NewCellRight DEF EditStep
<1>2. Kept(mem', overtaken)
  <2>1. mem' = [mem EXCEPT ![c] = x]
    BY <1>1 DEF Edit
  <2> QED BY <1>1, <2>1, ReplacedKept DEF SummaryInv
<1>3. disk' = mem' /\ sync' = mem' /\ overtaken' = overtaken /\ pc = "idle" /\ call' = call
  BY <1>1 DEF Edit
<1>4. TypeOK'
  BY <1>1, <1>2, <1>3, BoundsAssumption DEF SummaryInv, Kept, Notebooks, TypeOK, Edit, call
<1> QED BY <1>2, <1>3, <1>4 DEF SummaryInv, AskedNow, call

\* refresh_reads(), and the request or the fallbacks.
LEMMA AskSummaries ==
  ASSUME SummaryInv, NEW t \in {"overview", "summarize"}, NEW S \in SUBSET Cells, Ask(t, S)
  PROVE  SummaryInv'
<1> DEFINE dirty == Dirty(Current, S)
<1>1. Kept(Current, overtaken) /\ dirty \subseteq Present(Current) \cap S
  BY CurrentKept DEF Dirty
<1> HIDE DEF dirty
<1>2. overtaken' = overtaken /\ disk' = disk /\ sync' = disk /\ tool' = t /\ names' = S
      /\ disabled' = disabled /\ running' = running /\ edits' = edits /\ runs' = runs
  BY DEF Ask
<1>3. CASE disabled \/ dirty = {}
  <2>1. mem' = WithFallbacks(Current, dirty) /\ asked' = <<>> /\ pc' \in {"idle", "outputs", "save"}
    BY <1>3 DEF Ask, dirty
  <2>2. Kept(mem', overtaken)
    BY <1>1, <2>1, FallbacksKept
  <2>3. TypeOK'
    BY <1>2, <2>1, <2>2 DEF SummaryInv, Kept, Notebooks, TypeOK
  <2> QED BY <1>2, <2>1, <2>2, <2>3 DEF SummaryInv, AskedNow
<1>4. CASE ~(disabled \/ dirty = {})
  <2>1. mem' = Current /\ asked' = [c \in dirty |-> Current[c].src] /\ pc' = "code"
    BY <1>4 DEF Ask, dirty
  <2>2. \A c \in dirty : Current[c] \in Records
    BY <1>1 DEF Kept, Notebooks, Present
  <2>3. \A c \in DOMAIN asked' : asked'[c] \in Sources /\ Source(mem', c) = asked'[c]
    BY <1>1, <2>1, <2>2 DEF Records, Source
  <2>4. TypeOK'
    BY <1>1, <1>2, <2>1, <2>3 DEF SummaryInv, Kept, Notebooks, Present, TypeOK
  <2> QED BY <1>1, <1>2, <2>1, <2>3, <2>4 DEF SummaryInv, AskedNow
<1> QED BY <1>3, <1>4

\* Wherever the filing of summaries stops, the notebook is one of those that
\* some of the cells were filed in.
LEMMA FileKept ==
  ASSUME NEW S, NEW filed, NEW next, File(S, filed, next),
         S \subseteq Present(mem) => S \in DOMAIN filed,
         \A part \in DOMAIN filed : Kept(filed[part], overtaken)
  PROVE  Kept(mem', overtaken) /\ pc' \in {next, "idle"}
BY DEF File

\* What no summary is about stays, and a reply that was taken is over.
LEMMA RepliedSummaries ==
  ASSUME SummaryInv, Kept(mem', overtaken), pc' \in {"idle", "outputs", "save"},
         pc' = "outputs" => pc = "code",
         disabled' \in BOOLEAN, UNCHANGED <<file, running, tool, names, asked, overtaken, edits, runs>>
  PROVE  SummaryInv'
<1>1. TypeOK'
  <2>1. \A c \in DOMAIN asked : asked[c] \in Sources \cup Outputs
    BY DEF SummaryInv, TypeOK
  <2> QED BY <2>1 DEF SummaryInv, Kept, Notebooks, TypeOK, file
<1> QED BY <1>1 DEF SummaryInv, AskedNow, file

\* The reply to a request about the code.
LEMMA CodeReplySummaries ==
  ASSUME SummaryInv, NEW got \in SUBSET Cells, CodeReply(got) PROVE SummaryInv'
<1> DEFINE filed == [S \in Filable(DOMAIN asked) |->
                      WithFallbacks(WithSummaries(mem, S \cap got), S \ got)]
<1>1. \A part \in DOMAIN filed : Kept(filed[part], overtaken)
  <2>1. ASSUME NEW S \in Filable(DOMAIN asked)
        PROVE  Kept(WithFallbacks(WithSummaries(mem, S \cap got), S \ got), overtaken)
    <3>1. S \cap got \in SUBSET (DOMAIN asked \cap Present(mem)) /\ pc = "code"
      BY DEF Filable, CodeReply
    <3>2. Kept(WithSummaries(mem, S \cap got), overtaken)
      BY <3>1, SummariesKept
    <3> QED BY <3>2, FallbacksKept
  <2> QED BY <2>1
<1>2. File(DOMAIN asked, filed, AfterCode)
  BY DEF CodeReply
<1>3. DOMAIN asked \subseteq Present(mem) => DOMAIN asked \in DOMAIN filed
  BY DEF Filable
<1> HIDE DEF filed
<1>4. Kept(mem', overtaken) /\ pc' \in {AfterCode, "idle"}
  BY <1>1, <1>2, <1>3, FileKept
<1> QED BY <1>4, RepliedSummaries DEF CodeReply, AfterCode, SummaryInv, TypeOK

LEMMA CodeFailsSummaries == ASSUME SummaryInv, CodeFails PROVE SummaryInv'
<1> DEFINE filed == [S \in Filable(DOMAIN asked) |-> WithFallbacks(mem, S)]
<1>1. \A part \in DOMAIN filed : Kept(filed[part], overtaken)
  BY FallbacksKept DEF SummaryInv
<1>2. File(DOMAIN asked, filed, AfterCode)
  BY DEF CodeFails
<1>3. DOMAIN asked \subseteq Present(mem) => DOMAIN asked \in DOMAIN filed
  BY DEF Filable
<1> HIDE DEF filed
<1>4. Kept(mem', overtaken) /\ pc' \in {AfterCode, "idle"}
  BY <1>1, <1>2, <1>3, FileKept
<1> QED BY <1>4, RepliedSummaries DEF CodeFails, AfterCode

\* summarize_outputs() and the reply to it.
LEMMA AskOutputsSummaries == ASSUME SummaryInv, AskOutputs PROVE SummaryInv'
<1>1. UNCHANGED <<mem, file, disabled, running, tool, names, overtaken, edits, runs>>
      /\ pc = "outputs" /\ pc' \in {"idle", "save", "reply"}
  BY DEF AskOutputs
<1>2. DOMAIN asked' \subseteq Cells
      /\ \A c \in DOMAIN asked' :
           asked'[c] \in IF pc' = "reply" THEN Outputs ELSE Sources \cup Outputs
  <2>1. CASE UNCHANGED asked /\ pc' # "reply"
    BY <1>1, <2>1 DEF SummaryInv, TypeOK
  <2>2. CASE pc' = "reply"
    <3> DEFINE todo == {c \in names \cap Present(mem) :
                         /\ mem[c].out # None
                         /\ mem[c].outSummary = None \/ mem[c].outSummary.hash # mem[c].out}
    <3>1. asked' = [c \in todo |-> mem[c].out]
      BY <2>2 DEF AskOutputs
    <3>2. \A c \in todo : c \in Cells /\ mem[c].out \in Outputs
      BY DEF SummaryInv, Kept, Notebooks, Present, Records
    <3> HIDE DEF todo
    <3> QED BY <2>2, <3>1, <3>2
  <2> QED BY <2>1, <2>2 DEF AskOutputs
<1>3. TypeOK'
  BY <1>1, <1>2 DEF SummaryInv, TypeOK, file
<1> QED BY <1>1, <1>3 DEF SummaryInv, AskedNow, file

LEMMA OutputReplySummaries ==
  ASSUME SummaryInv, NEW got \in SUBSET Cells, OutputReply(got) PROVE SummaryInv'
<1> DEFINE filed == [S \in Filable(got) |-> WithOutSummaries(mem, S)]
<1>1. \A part \in DOMAIN filed : Kept(filed[part], overtaken)
  <2>1. ASSUME NEW S \in Filable(got) PROVE Kept(WithOutSummaries(mem, S), overtaken)
    <3>1. S \in SUBSET (DOMAIN asked \cap Present(mem)) /\ pc = "reply"
      BY DEF Filable, OutputReply
    <3> QED BY <3>1, OutSummariesKept
  <2> QED BY <2>1
<1>2. File(got, filed, "save")
  BY DEF OutputReply
<1>3. got \subseteq Present(mem) => got \in DOMAIN filed
  BY DEF Filable
<1> HIDE DEF filed
<1>4. Kept(mem', overtaken) /\ pc' \in {"save", "idle"}
  BY <1>1, <1>2, <1>3, FileKept
<1> QED BY <1>4, RepliedSummaries DEF OutputReply, SummaryInv, TypeOK

LEMMA OutputFailsSummaries == ASSUME SummaryInv, OutputFails PROVE SummaryInv'
<1>1. Kept(mem', overtaken)
  BY DEF OutputFails, SummaryInv
<1> QED BY <1>1, RepliedSummaries DEF OutputFails, SummaryInv, TypeOK

\* save_if_unchanged() writes what is in the file, or in memory.
LEMMA SaveSummaries == ASSUME SummaryInv, Save PROVE SummaryInv'
<1>1. Kept(Current, overtaken)
  BY CurrentKept
<1>2. mem' = Current /\ disk' = Current /\ sync' = Current /\ asked' = <<>> /\ pc' = "idle"
      /\ UNCHANGED <<disabled, running, tool, names, overtaken, edits, runs>>
  BY DEF Save
<1>3. TypeOK'
  BY <1>1, <1>2 DEF SummaryInv, Kept, Notebooks, TypeOK
<1> QED BY <1>1, <1>2, <1>3 DEF SummaryInv, AskedNow

\* A run begins: the output summary of its cell goes.
LEMMA BeginSummaries == ASSUME SummaryInv, NEW c \in Cells, RunBegins(c) PROVE SummaryInv'
<1> DEFINE x == [mem[c] EXCEPT !.outSummary = None]
<1>1. mem[c] \in Records /\ (c \in overtaken \/ FiledRight(mem[c])) /\ OutFiledRight(mem[c])
  BY DEF RunBegins, SummaryInv, Kept, Notebooks, Present
<1>2. x \in Records /\ x.src = mem[c].src /\ x.summary = mem[c].summary /\ x.outSummary = None
  BY <1>1 DEF Records
<1>3. mem' = [mem EXCEPT ![c] = x]
  BY DEF RunBegins
<1> HIDE DEF x
<1>4. (c \in overtaken \/ FiledRight(x)) /\ OutFiledRight(x)
  BY <1>1, <1>2 DEF FiledRight, OutFiledRight
<1>5. Kept(mem', overtaken)
  BY <1>2, <1>3, <1>4, ReplacedKept DEF SummaryInv
<1>6. UNCHANGED <<file, disabled, call, overtaken, edits>>
      /\ running' \in [cell: Cells, rev: Sources] /\ runs' \in 0..MaxRuns
  BY <1>1, BoundsAssumption DEF RunBegins, Records, SummaryInv, TypeOK
<1>7. TypeOK'
  BY <1>5, <1>6 DEF SummaryInv, Kept, Notebooks, TypeOK, file, call
<1>8. \A d \in Cells : Source(mem', d) = Source(mem, d)
  <2>1. mem[c] # None /\ x # None
    BY <1>2, NoneAssumption DEF RunBegins, Present
  <2> QED BY <1>1, <1>2, <1>3, <2>1 DEF SummaryInv, Kept, Notebooks, Present, Source
<1>9. \A d \in DOMAIN asked : d \in Cells
  BY DEF SummaryInv, TypeOK
<1> QED BY <1>5, <1>6, <1>7, <1>8, <1>9 DEF SummaryInv, AskedNow, file, call

\* What the write-back leaves: the notebook of now, with the outputs of the run
\* in its cell if that still is the cell that was run.
WrittenBack(o) ==
  IF running.cell \in Present(Current) /\ Current[running.cell].src = running.rev
  THEN [Current EXCEPT ![running.cell].out = o, ![running.cell].outSummary = None]
  ELSE Current

\* Two fields of one cell change.
LEMMA TwoFields ==
  ASSUME NEW T, NEW f \in [Cells -> T], NEW c \in Cells, NEW o, NEW n
  PROVE  [f EXCEPT ![c].out = o, ![c].outSummary = n] =
         [f EXCEPT ![c] = [f[c] EXCEPT !.out = o, !.outSummary = n]]
<1> DEFINE g == [f EXCEPT ![c] = [f[c] EXCEPT !.out = o]]
<1>1. g[c] = [f[c] EXCEPT !.out = o] /\ \A d \in Cells : d # c => g[d] = f[d]
  OBVIOUS
<1>2. [f EXCEPT ![c].out = o, ![c].outSummary = n] = [g EXCEPT ![c] = [g[c] EXCEPT !.outSummary = n]]
  OBVIOUS
<1>3. g = [d \in Cells |-> g[d]]
  OBVIOUS
<1> HIDE DEF g
<1> QED BY <1>1, <1>2, <1>3

\* The write-back leaves sources alone.
LEMMA WrittenBackKept ==
  ASSUME SummaryInv, NEW o \in Outputs \cup {None}, running # None
  PROVE  /\ Kept(WrittenBack(o), overtaken)
         /\ \A d \in Cells : Source(WrittenBack(o), d) = Source(Current, d)
<1>1. Kept(Current, overtaken) /\ running.cell \in Cells
  BY CurrentKept DEF SummaryInv, TypeOK
<1>2. CASE running.cell \in Present(Current) /\ Current[running.cell].src = running.rev
  <2> DEFINE c == running.cell
             x == [Current[c] EXCEPT !.out = o, !.outSummary = None]
  <2>1. Current[c] \in Records /\ (c \in overtaken \/ FiledRight(Current[c]))
    BY <1>1, <1>2 DEF Kept, Notebooks, Present
  <2>2. x \in Records /\ x.src = Current[c].src /\ x.summary = Current[c].summary
        /\ x.outSummary = None
    BY <2>1 DEF Records
  <2>3. WrittenBack(o) = [Current EXCEPT ![c] = x]
    <3>1. Current \in [Cells -> Records \cup {None}] /\ c \in Cells
      BY <1>1 DEF Kept, Notebooks
    <3>2. WrittenBack(o) = [Current EXCEPT ![c].out = o, ![c].outSummary = None]
      BY <1>2 DEF WrittenBack
    <3>3. \A f \in [Cells -> Records \cup {None}], d \in Cells :
            [f EXCEPT ![d].out = o, ![d].outSummary = None] =
            [f EXCEPT ![d] = [f[d] EXCEPT !.out = o, !.outSummary = None]]
      BY TwoFields
    <3> HIDE DEF c
    <3>4. [Current EXCEPT ![c].out = o, ![c].outSummary = None] = [Current EXCEPT ![c] = x]
      BY <3>1, <3>3
    <3> QED BY <3>2, <3>4
  <2> HIDE DEF x
  <2>4. (c \in overtaken \/ FiledRight(x)) /\ OutFiledRight(x)
    BY <2>1, <2>2 DEF FiledRight, OutFiledRight
  <2>5. Kept(WrittenBack(o), overtaken)
    <3>1. x \in Records \cup {None} /\ c \in Cells
      BY <1>1, <2>2
    <3>2. Kept([Current EXCEPT ![c] = x], overtaken)
      BY <1>1, <2>4, <3>1, ReplacedKept
    <3> QED BY <2>3, <3>2
  <2>6. x # None /\ Current[c] # None
    BY <1>2, <2>2, NoneAssumption DEF Present
  <2>7. ASSUME NEW d \in Cells PROVE Source(WrittenBack(o), d) = Source(Current, d)
    <3>1. d # c => WrittenBack(o)[d] = Current[d]
      BY <2>3
    <3>2. d = c => WrittenBack(o)[d] = x
      BY <1>1, <2>3 DEF Kept, Notebooks
    <3> QED BY <2>2, <2>6, <3>1, <3>2 DEF Source, Present
  <2> QED BY <2>5, <2>7
<1>3. CASE ~(running.cell \in Present(Current) /\ Current[running.cell].src = running.rev)
  BY <1>1, <1>3 DEF WrittenBack
<1> QED BY <1>2, <1>3

\* A run ends: if that brings in another notebook while a request is out, the
\* request is about another one.
LEMMA EndSummaries ==
  ASSUME SummaryInv, NEW o \in Outputs \cup {None}, RunEnds(o) PROVE SummaryInv'
<1>1. mem' = WrittenBack(o) /\ disk' = WrittenBack(o) /\ sync' = WrittenBack(o)
  BY DEF RunEnds, WrittenBack
<1>2. /\ overtaken' = IF pc = "code" /\ DiskChanged
                      THEN overtaken \cup {c \in DOMAIN asked : Source(mem', c) # asked[c]}
                      ELSE overtaken
      /\ running' = None /\ UNCHANGED <<disabled, call, edits, runs>>
  BY DEF RunEnds
<1>3. Kept(WrittenBack(o), overtaken)
      /\ \A d \in Cells : Source(WrittenBack(o), d) = Source(Current, d)
  BY WrittenBackKept DEF RunEnds
<1>4. Kept(mem', overtaken') /\ disk' = mem'
  <2>1. overtaken \subseteq overtaken'
    BY <1>2
  <2> QED BY <1>1, <1>3, <2>1 DEF Kept
<1>5. TypeOK'
  <2>1. overtaken' \subseteq Cells
    BY <1>2 DEF SummaryInv, TypeOK
  <2> QED BY <1>1, <1>2, <1>3, <2>1 DEF SummaryInv, Kept, Notebooks, TypeOK, call
<1>6. AskedNow'
  <2> SUFFICES ASSUME pc = "code", NEW c \in DOMAIN asked, c \notin overtaken'
               PROVE  Source(mem', c) = asked[c]
    BY <1>2 DEF SummaryInv, AskedNow, call
  <2>1. CASE DiskChanged
    BY <1>2, <2>1
  <2>2. CASE ~DiskChanged
    <3>1. c \in Cells /\ c \notin overtaken /\ Current = mem
      BY <1>2, <2>2 DEF SummaryInv, TypeOK, Current
    <3>2. Source(mem', c) = Source(mem, c)
      BY <1>1, <1>3, <3>1
    <3> QED BY <3>1, <3>2 DEF SummaryInv, AskedNow
  <2> QED BY <2>1, <2>2
<1> QED BY <1>4, <1>5, <1>6 DEF SummaryInv

\* The editor moves no note to another cell.
LEMMA EditorSummaries == ASSUME SummaryInv, NEW c \in Cells, EditorSaves(c) PROVE SummaryInv'
<1>1. PICK x \in Records \cup {None} :
        /\ disk' = [disk EXCEPT ![c] = x]
        /\ x # None => (c \in overtaken \/ FiledRight(x)) /\ OutFiledRight(x)
  <2>1. ASSUME NEW s \in Sources, c \in Present(disk), disk' = [disk EXCEPT ![c].src = s]
        PROVE  \E x \in Records \cup {None} :
                 /\ disk' = [disk EXCEPT ![c] = x]
                 /\ x # None => (c \in overtaken \/ FiledRight(x)) /\ OutFiledRight(x)
    <3> DEFINE x == [disk[c] EXCEPT !.src = s]
    <3>1. disk[c] \in Records /\ (c \in overtaken \/ FiledRight(disk[c])) /\ OutFiledRight(disk[c])
      BY <2>1 DEF SummaryInv, Kept, Notebooks, Present
    <3>2. x \in Records /\ x.summary = disk[c].summary /\ x.outSummary = disk[c].outSummary
      BY <3>1 DEF Records
    <3>3. (c \in overtaken \/ FiledRight(x)) /\ OutFiledRight(x)
      BY <3>1, <3>2 DEF FiledRight, OutFiledRight
    <3>4. disk' = [disk EXCEPT ![c] = x]
      BY <2>1
    <3> QED BY <3>2, <3>3, <3>4
  <2> QED BY <2>1, NewCellRight DEF EditorSaves
<1>2. Kept(disk', overtaken)
  BY <1>1, ReplacedKept DEF SummaryInv
<1>3. UNCHANGED <<mem, sync, disabled, running, call, overtaken, runs>> /\ edits' \in 0..MaxEdits
  BY BoundsAssumption DEF EditorSaves, SummaryInv, TypeOK
<1>4. TypeOK'
  BY <1>2, <1>3 DEF SummaryInv, Kept, Notebooks, TypeOK, call
<1> QED BY <1>2, <1>3, <1>4 DEF SummaryInv, AskedNow, call

LEMMA SummariesInductive == Spec => []SummaryInv
<1>1. ASSUME SummaryInv, [Next]_vars PROVE SummaryInv'
  <2>1. CASE EditStep
    BY <1>1, <2>1, EditSummaries
  <2>2. CASE CallStep
    BY <1>1, <2>2, AskSummaries, CodeReplySummaries, OutputReplySummaries, CodeFailsSummaries,
       AskOutputsSummaries, OutputFailsSummaries, SaveSummaries DEF CallStep
  <2>3. CASE WorkerStep
    BY <1>1, <2>3, BeginSummaries, EndSummaries DEF WorkerStep
  <2>4. CASE EditorStep
    BY <1>1, <2>4, EditorSummaries DEF EditorStep
  <2>5. CASE UNCHANGED vars
    BY <1>1, <2>5 DEF vars, file, call, SummaryInv, TypeOK, AskedNow
  <2> QED BY <1>1, <2>1, <2>2, <2>3, <2>4, <2>5 DEF Next
<1> QED BY InitSummaries, <1>1, PTL DEF Spec

----------------------------------------------------------------------------
(* The theorems.                                                           *)

\* Types: the notebook, the file and what the LLM was shown are such things.
THEOREM TypeCorrect == Spec => []TypeOK
<1>1. SummaryInv => TypeOK
  BY DEF SummaryInv
<1> QED BY <1>1, SummariesInductive, PTL

\* A summary that is shown for a cell was made from the source the cell has,
\* although every summary of a reply is filed under the rev its cell has by
\* then.  The theorem excepts the cells that a write-back of the executor, which
\* reloads the notebook, changed or removed while the LLM read them, and no
\* others: neither the other cells of that request nor any edit at another time.
THEOREM ShownIsTrue == Spec => []SummaryDescribes
<1>1. SummaryInv => SummaryDescribes
  <2> SUFFICES ASSUME SummaryInv, NEW c \in Present(mem), c \notin overtaken,
                      GetSummary(mem[c]) # None
               PROVE  GetSummary(mem[c]).shown = mem[c].src
    BY DEF SummaryDescribes, Describes
  <2>1. GetSummary(mem[c]) = mem[c].summary /\ mem[c].summary # None
        /\ mem[c].summary.rev = mem[c].src
    BY DEF GetSummary
  <2>2. FiledRight(mem[c])
    BY DEF SummaryInv, Kept
  <2> QED BY <2>1, <2>2 DEF FiledRight
<1> QED BY <1>1, SummariesInductive, PTL

\* An output summary that counts was made from the outputs the cell has,
\* although runs replace outputs while the LLM answers.
THEOREM OutShownIsTrue == Spec => []OutSummaryDescribes
<1>1. SummaryInv => OutSummaryDescribes
  BY DEF SummaryInv, Kept, OutFiledRight, OutSummaryDescribes
<1> QED BY <1>1, SummariesInductive, PTL

----------------------------------------------------------------------------
(* What is not a summary stays.                                            *)
(*                                                                         *)
(* The sources and outputs in memory are those last read from the file or  *)
(* written to it, so that a save of the summaries writes nothing else.     *)

ContentSynced == \A c \in Cells : Content(mem, c) = Content(sync, c)

\* Wherever the filing of summaries stops, nothing else has changed.
LEMMA FileContent ==
  ASSUME NEW S, NEW filed, NEW next, File(S, filed, next),
         S \subseteq Present(mem) => S \in DOMAIN filed,
         \A part \in DOMAIN filed : \A c \in Cells : Content(filed[part], c) = Content(mem, c)
  PROVE  \A c \in Cells : Content(mem', c) = Content(mem, c)
BY DEF File

\* A call begins by reading the file if that changed.
LEMMA AskContent ==
  ASSUME SummaryInv, NEW t \in {"overview", "summarize"}, NEW S \in SUBSET Cells, Ask(t, S)
  PROVE  \A c \in Cells : Content(mem', c) = Content(Current, c)
<1>1. mem' = WithFallbacks(Current, Dirty(Current, S)) \/ mem' = Current
  BY DEF Ask
<1>2. \A c \in Cells : Content(WithFallbacks(Current, Dirty(Current, S)), c) = Content(Current, c)
  BY CurrentKept, FallbacksKept
<1> QED BY <1>1, <1>2

\* Between its beginning and its end it changes nothing but summaries.
LEMMA FilingContent ==
  ASSUME SummaryInv,
         \/ \E got \in SUBSET Cells : CodeReply(got) \/ OutputReply(got)
         \/ CodeFails \/ AskOutputs \/ OutputFails
  PROVE  UNCHANGED file /\ \A c \in Cells : Content(mem', c) = Content(mem, c)
<1>1. ASSUME NEW got \in SUBSET Cells, CodeReply(got)
      PROVE  \A c \in Cells : Content(mem', c) = Content(mem, c)
  <2> DEFINE filed == [S \in Filable(DOMAIN asked) |->
                        WithFallbacks(WithSummaries(mem, S \cap got), S \ got)]
  <2>1. ASSUME NEW S \in Filable(DOMAIN asked)
        PROVE  \A c \in Cells : Content(filed[S], c) = Content(mem, c)
    <3>1. S \cap got \in SUBSET (DOMAIN asked \cap Present(mem)) /\ pc = "code"
      BY <1>1 DEF Filable, CodeReply
    <3>2. /\ Kept(WithSummaries(mem, S \cap got), overtaken)
          /\ \A c \in Cells : Content(WithSummaries(mem, S \cap got), c) = Content(mem, c)
      BY <3>1, SummariesKept
    <3>3. \A c \in Cells : Content(WithFallbacks(WithSummaries(mem, S \cap got), S \ got), c) =
                           Content(WithSummaries(mem, S \cap got), c)
      BY <3>2, FallbacksKept
    <3> QED BY <3>2, <3>3
  <2>2. File(DOMAIN asked, filed, AfterCode)
    BY <1>1 DEF CodeReply
  <2>3. DOMAIN asked \subseteq Present(mem) => DOMAIN asked \in DOMAIN filed
    BY DEF Filable
  <2>4. \A part \in DOMAIN filed : \A c \in Cells : Content(filed[part], c) = Content(mem, c)
    BY <2>1
  <2> HIDE DEF filed
  <2> QED BY <2>2, <2>3, <2>4, FileContent
<1>2. ASSUME CodeFails PROVE \A c \in Cells : Content(mem', c) = Content(mem, c)
  <2> DEFINE filed == [S \in Filable(DOMAIN asked) |-> WithFallbacks(mem, S)]
  <2>1. \A part \in DOMAIN filed : \A c \in Cells : Content(filed[part], c) = Content(mem, c)
    BY FallbacksKept DEF SummaryInv
  <2>2. File(DOMAIN asked, filed, AfterCode)
    BY <1>2 DEF CodeFails
  <2>3. DOMAIN asked \subseteq Present(mem) => DOMAIN asked \in DOMAIN filed
    BY DEF Filable
  <2> HIDE DEF filed
  <2> QED BY <2>1, <2>2, <2>3, FileContent
<1>3. ASSUME NEW got \in SUBSET Cells, OutputReply(got)
      PROVE  \A c \in Cells : Content(mem', c) = Content(mem, c)
  <2> DEFINE filed == [S \in Filable(got) |-> WithOutSummaries(mem, S)]
  <2>1. ASSUME NEW S \in Filable(got)
        PROVE  \A c \in Cells : Content(filed[S], c) = Content(mem, c)
    <3>1. S \in SUBSET (DOMAIN asked \cap Present(mem)) /\ pc = "reply"
      BY <1>3 DEF Filable, OutputReply
    <3> QED BY <3>1, OutSummariesKept
  <2>2. File(got, filed, "save")
    BY <1>3 DEF OutputReply
  <2>3. got \subseteq Present(mem) => got \in DOMAIN filed
    BY DEF Filable
  <2>4. \A part \in DOMAIN filed : \A c \in Cells : Content(filed[part], c) = Content(mem, c)
    BY <2>1
  <2> HIDE DEF filed
  <2> QED BY <2>2, <2>3, <2>4, FileContent
<1>4. ASSUME AskOutputs \/ OutputFails PROVE mem' = mem
  BY <1>4 DEF AskOutputs, OutputFails
<1>5. UNCHANGED file
  BY DEF CodeReply, OutputReply, CodeFails, AskOutputs, OutputFails, file
<1> QED BY <1>1, <1>2, <1>3, <1>4, <1>5

\* No step of a tool call changes sources or outputs but by reading the file.
LEMMA CallContent ==
  ASSUME SummaryInv, CallStep
  PROVE  \/ \A c \in Cells : Content(mem', c) = Content(mem, c)
         \/ \A c \in Cells : Content(mem', c) = Content(disk, c)
<1>1. Current = mem \/ Current = disk
  BY DEF Current
<1>2. Save => mem' = Current
  BY DEF Save
<1> QED BY <1>1, <1>2, AskContent, FilingContent DEF CallStep

\* Memory stays in step with what was last read or written.
LEMMA ContentStays ==
  ASSUME SummaryInv, ContentSynced, [Next]_vars PROVE ContentSynced'
<1>1. CASE EditStep
  <2>1. mem' = sync'
    BY <1>1 DEF EditStep, UpdateCell, RemoveCell, AddCell, Edit
  <2> QED BY <2>1 DEF ContentSynced
<1>2. CASE CallStep
  <2>1. CASE Save
    BY <2>1 DEF Save, ContentSynced
  <2>2. CASE \E t \in {"overview", "summarize"}, S \in SUBSET Cells : Ask(t, S)
    <3>1. sync' = disk /\ \A c \in Cells : Content(mem', c) = Content(Current, c)
      BY <2>2, AskContent DEF Ask
    <3> QED BY <3>1 DEF ContentSynced, Current, DiskChanged
  <2>3. CASE ~Save /\ ~\E t \in {"overview", "summarize"}, S \in SUBSET Cells : Ask(t, S)
    <3>1. UNCHANGED file /\ \A c \in Cells : Content(mem', c) = Content(mem, c)
      BY <1>2, <2>3, FilingContent DEF CallStep
    <3> QED BY <3>1 DEF file, ContentSynced
  <2> QED BY <2>1, <2>2, <2>3
<1>3. CASE \E c \in Cells : RunBegins(c)
  <2>1. PICK c \in Cells : RunBegins(c)
    BY <1>3
  <2> DEFINE x == [mem[c] EXCEPT !.outSummary = None]
  <2>2. mem[c] \in Records /\ mem' = [mem EXCEPT ![c] = x] /\ sync' = sync
    BY <2>1 DEF RunBegins, SummaryInv, Kept, Notebooks, Present, file
  <2>3. x \in Records /\ x.src = mem[c].src /\ x.out = mem[c].out
    BY <2>2 DEF Records
  <2> HIDE DEF x
  <2>4. \A d \in Cells : Content(mem', d) = Content(mem, d)
    BY <2>2, <2>3, NoneAssumption DEF Content, Present, SummaryInv, Kept, Notebooks
  <2> QED BY <2>2, <2>4 DEF ContentSynced
<1>4. CASE (\E o \in Outputs \cup {None} : RunEnds(o)) \/ EditorStep \/ UNCHANGED vars
  BY <1>4 DEF RunEnds, EditorStep, EditorSaves, vars, file, ContentSynced
<1> QED BY <1>1, <1>2, <1>3, <1>4 DEF Next, WorkerStep

\* What is edited or run during an LLM request survives the end of the call: a
\* tool call changes no source and no output in the file and none in memory but
\* by reloading the file, and whoever writes over a save of the editor, the call
\* or a write-back, writes the sources that the editor saved.
THEOREM EditsWin == Spec => EditsSurviveCall
<1> DEFINE Wins  == disk # sync /\ disk' # disk =>
                      EditorStep \/ \A c \in Cells : Source(disk', c) = Source(disk, c)
           Files == CallStep =>
                      /\ \A c \in Cells : Content(disk', c) = Content(disk, c)
                      /\ \/ \A c \in Cells : Content(mem', c) = Content(mem, c)
                         \/ \A c \in Cells : Content(mem', c) = Content(disk, c)
<1>1. ASSUME SummaryInv, [Next]_vars, disk # sync, disk' # disk
      PROVE  EditorStep \/ \A c \in Cells : Source(disk', c) = Source(disk, c)
  <2>1. Current = disk
    BY <1>1 DEF Current, DiskChanged
  <2>2. CASE EditStep
    BY <1>1, <2>2 DEF EditStep, UpdateCell, RemoveCell, AddCell, Edit, DiskChanged
  <2>3. CASE CallStep
    BY <1>1, <2>1, <2>3 DEF CallStep, Ask, CodeReply, OutputReply, CodeFails, AskOutputs,
       OutputFails, Save, file
  <2>4. CASE \E c \in Cells : RunBegins(c)
    BY <1>1, <2>4 DEF RunBegins, file
  <2>5. CASE \E o \in Outputs \cup {None} : RunEnds(o)
    <3>1. PICK o \in Outputs \cup {None} : RunEnds(o)
      BY <2>5
    <3>2. disk' = WrittenBack(o) /\ running # None
      BY <3>1 DEF RunEnds, WrittenBack
    <3> QED BY <1>1, <2>1, <3>2, WrittenBackKept
  <2>6. CASE UNCHANGED vars
    BY <1>1, <2>6 DEF vars, file
  <2> QED BY <1>1, <2>2, <2>3, <2>4, <2>5, <2>6 DEF Next, WorkerStep
<1>2. ASSUME SummaryInv, ContentSynced, CallStep
      PROVE  /\ \A c \in Cells : Content(disk', c) = Content(disk, c)
             /\ \/ \A c \in Cells : Content(mem', c) = Content(mem, c)
                \/ \A c \in Cells : Content(mem', c) = Content(disk, c)
  <2>1. disk' = disk \/ (disk' = Current /\ Save)
    BY <1>2 DEF CallStep, Ask, CodeReply, CodeFails, AskOutputs, OutputReply, OutputFails, Save, file
  <2>2. \A c \in Cells : Content(Current, c) = Content(disk, c)
    BY <1>2 DEF Current, DiskChanged, ContentSynced
  <2> QED BY <1>2, <2>1, <2>2, CallContent
<1>3. SummaryInv /\ ContentSynced /\ [Next]_vars => Wins /\ Files
  BY <1>1, <1>2
<1>4. Init => ContentSynced
  BY DEF Init, ContentSynced
<1>5. SummaryInv /\ ContentSynced /\ [Next]_vars => ContentSynced'
  BY ContentStays
<1> QED BY <1>3, <1>4, <1>5, SummariesInductive, PTL DEF Spec, EditsSurviveCall
============================================================================
