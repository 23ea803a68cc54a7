----------------------------- MODULE NotebookFile ----------------------------
(***************************************************************************)
(* NotebookFile (model.py): the cells of one notebook with their names and *)
(* their order, the operations on them, and the snapshots undo_last takes  *)
(* the notebook back to.  Tools are called one after the other, an action  *)
(* each; an editor may change the file, the server may crash.              *)
(*                                                                         *)
(* A name is a base and the numbers _ensure_names appended to it to tell   *)
(* it from others ("load-2" is "load" with <<2>>).                         *)
(***************************************************************************)
EXTENDS Integers, Sequences, FiniteSets, SequencesExt

CONSTANTS
  Bases,          \* what names begin with
  NoBase,
  Names,          \* what callers name cells
  Sources,
  AutoName(_),    \* _auto_name(): the name a source suggests
  Books,          \* notebooks as users leave them: cells may be unnamed
  MaxCells,       \* bound: cells in a notebook
  MaxCalls,       \* bound: tool calls, crashes in them, and edits of the file
  MaxEdits,       \* bound: tool calls that change cells
  MaxKeys,        \* bound: times a snapshot may be named after
  MaxSnapshots    \* MAX_SNAPSHOTS

Name(base, nums) == [base |-> base, nums |-> nums]
Unnamed    == Name(NoBase, <<>>)
Cell(n, s) == [name |-> n, src |-> s]

AllNames  == [base: Bases, nums: Seq(Nat)]
Notebooks == Seq([name: AllNames \cup {Unnamed}, src: Sources])

ASSUME NamesAssumption ==
  /\ NoBase \notin Bases
  /\ Names \subseteq AllNames
  /\ \A s \in Sources : AutoName(s) \in AllNames
  /\ Books \subseteq Notebooks

ASSUME BoundsAssumption ==
  /\ MaxCells \in Nat /\ MaxCalls \in Nat /\ MaxEdits \in Nat
  /\ MaxKeys \in Nat /\ MaxSnapshots \in Nat \ {0}

VARIABLES
  book,           \* nb.cells
  disk,           \* the cells in the file
  sync,           \* the cells whose hash is _disk_sha
  files,          \* the snapshot directory: name (a time) -> cells
  undo,           \* _undo_stack: names of snapshots
  calls, edits,
  ideal,          \* history: what undo should go back to, latest last
  steady          \* history: snapshots were named in the order they were taken

vars == <<book, disk, sync, files, undo, calls, edits, ideal, steady>>

NamesOf(b) == {b[i].name : i \in DOMAIN b}
At(b, n)   == CHOOSE i \in DOMAIN b : b[i].name = n /\ \A j \in 1..(i - 1) : b[j].name # n

----------------------------------------------------------------------------
(* _ensure_names().                                                        *)

WithNumber(n, k) == [n EXCEPT !.nums = Append(@, k)]

NumberedTwo(n, seen) == IF n \in seen THEN WithNumber(n, 2) ELSE n \* mutant: -2 is taken to be free

Numbered(n, seen) ==
  IF n \notin seen THEN n
  ELSE WithNumber(n, CHOOSE k \in 2..(Cardinality(seen) + 2) :
         WithNumber(n, k) \notin seen /\ \A j \in 2..(k - 1) : WithNumber(n, j) \in seen)

\* The name a cell asks for, and what it becomes behind the cells b.
Wanted(c)    == IF c.name = Unnamed THEN AutoName(c.src) ELSE c.name
Behind(b, c) == Append(b, Cell(Numbered(Wanted(c), NamesOf(b)), c.src))

Named(b) ==
  LET named[i \in 0..Len(b)] == IF i = 0 THEN <<>> ELSE Behind(named[i - 1], b[i])
  IN  named[Len(b)]

Load == book' = Named(disk) /\ sync' = disk /\ UNCHANGED disk

DiskChanged == disk # sync

Init ==
  /\ disk \in Books /\ sync = disk /\ book = Named(disk)
  /\ files = [k \in {} |-> disk] /\ undo = <<>>
  /\ calls = 0 /\ edits = 0 /\ ideal = <<>> /\ steady = TRUE

----------------------------------------------------------------------------
(* Snapshots.                                                              *)

Rank(S, k) == Cardinality({j \in S : j < k})
Sorted(S)  == [i \in 1..Cardinality(S) |-> CHOOSE k \in S : Rank(S, k) = i - 1]

\* The MAX_SNAPSHOTS last ones stay.
KeptOldest(S) == {k \in S : Rank(S, k) < MaxSnapshots} \* mutant: the wrong end is pruned
KeptAll(S)    == S \* mutant: nothing is pruned
Kept(S)       == {k \in S : Cardinality({j \in S : j > k}) < MaxSnapshots}

\* list.remove() takes out the first.
Unlisted(s, gone) ==
  LET left == {i \in DOMAIN s : s[i] \in gone => \E j \in 1..(i - 1) : s[j] = s[i]}
  IN  [i \in 1..Cardinality(left) |-> s[Sorted(left)[i]]]

LastOnes(s) == IF Len(s) > MaxSnapshots THEN Tail(s) ELSE s

\* snapshot(): the file is copied under the name of the time, over an older copy
\* of that name; then the first names in order are pruned.
Snapshot ==
  \E k \in 1..MaxKeys :
    LET all  == DOMAIN files \cup {k}
        kept == Kept(all)
    IN  /\ files' = [j \in kept |-> IF j = k THEN disk ELSE files[j]]
        /\ undo' = Unlisted(Append(undo, k), all \ kept)
        /\ steady' = (steady /\ \A j \in DOMAIN files : j < k)
        /\ ideal' = LastOnes(Append(ideal, disk))

\* undo_last() passes over the names whose file is gone.
Restorable == {i \in DOMAIN undo : undo[i] \in DOMAIN files}
Top        == CHOOSE i \in Restorable : \A j \in Restorable : j <= i

----------------------------------------------------------------------------
(* The operations, on the cells b.                                         *)

\* Where a cell goes: after another, at an index, or to the end.
Targets(b) == {<<"after", n>> : n \in NamesOf(b) \cup {Unnamed}}
              \cup {<<"index", i>> : i \in {-1, 0, 1, MaxCells}} \cup {<<"end">>}

\* _resolve_insert_index(), counted from 1; <<"after", Unnamed>> prepends.
Position(b, to) ==
  CASE to[1] = "end"   -> Len(b) + 1
    [] to[1] = "index" -> IF to[2] < 0 THEN 1 ELSE IF to[2] > Len(b) THEN Len(b) + 1 ELSE to[2] + 1
    [] to[1] = "after" -> IF to[2] = Unnamed THEN 1 ELSE At(b, to[2]) + 1

Without(b, n) == RemoveAt(b, At(b, n))

MovedEarly(b, n, to) == \* mutant: the index is found before the pop
  InsertAt(Without(b, n), IF Position(b, to) > Len(b) THEN Len(b) ELSE Position(b, to), b[At(b, n)])
Moved(b, n, to) == InsertAt(Without(b, n), Position(Without(b, n), to), b[At(b, n)])

----------------------------------------------------------------------------
(* Tool calls.                                                             *)

Call == calls < MaxCalls /\ calls' = calls + 1

\* mutate() with an fn that leaves the cells new; save() writes them.
Mutate(new) ==
  /\ Call /\ edits < MaxEdits /\ edits' = edits + 1
  /\ ~DiskChanged
  /\ book' = new /\ disk' = new /\ sync' = new
  /\ Snapshot

AddCell(n, s, to) ==
  /\ n \notin NamesOf(book) /\ Len(book) < MaxCells
  /\ Mutate(InsertAt(book, Position(book, to), Cell(n, s)))

\* check_rev() has found the source the caller read.
UpdateCell(n, new, s) ==
  /\ n \in NamesOf(book)
  /\ new = n \/ new \notin NamesOf(book)
  /\ Mutate([book EXCEPT ![At(book, n)] = Cell(new, s)])

RemoveCell(n) == n \in NamesOf(book) /\ Mutate(Without(book, n))

MoveCell(n, to) ==
  /\ n \in NamesOf(book) /\ to # <<"after", n>>
  /\ Mutate(Moved(book, n, to))

\* mutate() whose fn raises (an unknown or duplicate name, a stale rev), after
\* the snapshot; submit_cells() too takes one and changes nothing.
TakeSnapshotOnly ==
  /\ Call /\ ~DiskChanged
  /\ Snapshot
  /\ Load /\ UNCHANGED edits

\* The undo_last tool: write, unlink, load, save; or NothingToUndo.
UndoLast ==
  /\ Call /\ ~DiskChanged
  /\ \/ /\ Restorable # {}
        /\ LET new == Named(files[undo[Top]])
           IN  book' = new /\ disk' = new /\ sync' = new
        /\ files' = [k \in DOMAIN files \ {undo[Top]} |-> files[k]]
        /\ undo' = SubSeq(undo, 1, Top - 1)
        /\ ideal' = IF ideal = <<>> THEN <<>> ELSE Front(ideal)
     \/ /\ Restorable = {} /\ undo' = <<>>
        /\ UNCHANGED <<book, disk, sync, files, ideal>>
  /\ UNCHANGED <<edits, steady>>

\* A reading tool reloads a file that was changed; a mutating one then raises.
Reload ==
  /\ DiskChanged
  /\ Load
  /\ UNCHANGED <<files, undo, calls, edits, ideal, steady>>

----------------------------------------------------------------------------
(* The environment.                                                        *)

EditorSaves(b) ==
  /\ Call /\ disk' = b
  /\ UNCHANGED <<book, sync, files, undo, edits, ideal, steady>>

\* The server goes away and another one opens the notebook: _undo_stack is
\* filled from the directory.
ServerRestarts ==
  /\ Load
  /\ undo' = Sorted(DOMAIN files)
  /\ UNCHANGED <<files, calls, edits, ideal, steady>>

\* The same within undo_last(), between write and unlink.
CrashInUndo ==
  /\ Call /\ ~DiskChanged
  /\ Restorable # {}
  /\ disk' = files[undo[Top]] /\ sync' = disk' /\ book' = Named(disk')
  /\ undo' = Sorted(DOMAIN files)
  /\ UNCHANGED <<files, edits, ideal, steady>>

----------------------------------------------------------------------------
Edit ==
  \/ \E n \in Names, s \in Sources, to \in Targets(book) : AddCell(n, s, to)
  \/ \E n \in NamesOf(book), s \in Sources, new \in Names \cup NamesOf(book) : UpdateCell(n, new, s)
  \/ \E n \in NamesOf(book) : RemoveCell(n)
  \/ \E n \in NamesOf(book), to \in Targets(book) : MoveCell(n, to)

Next ==
  \/ Edit \/ TakeSnapshotOnly \/ UndoLast \/ Reload
  \/ \E b \in Books : EditorSaves(b)
  \/ ServerRestarts \/ CrashInUndo

Spec == Init /\ [][Next]_vars

----------------------------------------------------------------------------
(* Properties.                                                             *)

TypeOK ==
  /\ book \in Notebooks /\ disk \in Notebooks /\ sync \in Notebooks
  /\ DOMAIN files \subseteq 1..MaxKeys /\ Cardinality(DOMAIN files) <= MaxSnapshots
  /\ files \in [DOMAIN files -> Notebooks]
  /\ undo \in Seq(1..MaxKeys) /\ ideal \in Seq(Notebooks)
  /\ calls \in 0..MaxCalls /\ edits \in 0..MaxEdits /\ steady \in BOOLEAN

\* The name is a cell's identity for every tool: whatever names a file comes
\* with, no two cells the tools see have the same one, and each has one.  What
\* is saved is read back under the same names (_ensure_names).
NamesIdentify ==
  /\ Unnamed \notin NamesOf(book)
  /\ \A i, j \in DOMAIN book : book[i].name = book[j].name => i = j
  /\ Named(book) = book

\* The cells of b but n, in their order: each with each that is not before it.
Others(b, n) ==
  {<<b[p[1]], b[p[2]]>> : p \in {q \in (DOMAIN b) \X (DOMAIN b) :
     q[1] <= q[2] /\ b[q[1]].name # n /\ b[q[2]].name # n}}

\* The cell n of b is where the caller said: behind that other cell, at the
\* index as far as there is one, or last.
IsAt(b, n, to) ==
  LET i == At(b, n)
  IN  CASE to[1] = "end"   -> i = Len(b)
        [] to[1] = "index" -> i = to[2] + 1 \/ (i = 1 /\ to[2] < 0) \/ (i = Len(b) /\ to[2] >= i)
        [] to[1] = "after" -> IF i = 1 THEN to[2] = Unnamed ELSE to[2] = b[i - 1].name

\* A change of one cell puts it where it was asked for and leaves all others as
\* they were and in their order.
ChangesOneCell ==
  [][/\ \A n \in Names, s \in Sources, to \in Targets(book) :
          AddCell(n, s, to) => IsAt(book', n, to) /\ Others(book', n) = Others(book, n)
     /\ \A n \in NamesOf(book), to \in Targets(book) :
          MoveCell(n, to) => IsAt(book', n, to) /\ Others(book', n) = Others(book, n)
     /\ \A n \in NamesOf(book), s \in Sources, new \in Names \cup NamesOf(book) :
          UpdateCell(n, new, s) => Others(book', new) = Others(book, n)
     /\ \A n \in NamesOf(book) : RemoveCell(n) => n \notin NamesOf(book') /\ Others(book', n) = Others(book, n)]_vars

\* As long as the clock names snapshots in the order they are taken, the undo
\* stack is the last MAX_SNAPSHOTS states that were snapshotted, also in a new
\* server process and after a crash in undo_last (model.py: "snapshots from a
\* previous server process remain undoable").
UndoIsStack ==
  steady => ideal = [i \in DOMAIN undo |-> files[undo[i]]]
============================================================================
