---------------------------- MODULE OutputBuffer ----------------------------
(***************************************************************************)
(* The bounded buffer a running cell writes its outputs to (tasks.py) and  *)
(* any tool may look into meanwhile.  Every method runs under one lock and *)
(* is one action.  A text is a sequence of characters, told apart by when  *)
(* they were written; the note that replaces dropped ones counts as one.   *)
(***************************************************************************)
EXTENDS Naturals, Sequences

CONSTANTS
  Streams,        \* stdout, stderr
  Rich,           \* every other kind of output
  HeadChars, TailChars, \* STREAM_HEAD_CHARS, STREAM_TAIL_CHARS
  Slack,          \* the 200 of _cap_text
  HeadOutputs, TailOutputs,
  Sizes,          \* how much one stream message may bring
  MaxChars        \* bound: characters between two clears

ASSUME CapsAssumption ==
  /\ HeadChars \in Nat /\ TailChars \in Nat \ {0} /\ Slack \in Nat \ {0}
  /\ HeadOutputs \in Nat \ {0} /\ TailOutputs \in Nat \ {0}
  /\ Sizes \subseteq Nat \ {0} /\ MaxChars \in Nat \ {0}
  /\ Rich \notin Streams

VARIABLES
  head, tail,     \* _head, _tail
  dropped,        \* _dropped
  pending,        \* _pending_clear
  log,            \* history: all outputs since the last clear, in full
  written         \* history: how many characters they have

history    == <<log, written>>
bufferVars == <<head, tail, dropped, pending, history>>

CharsNote == 0 \* "[... n chars dropped ...]"
Chars     == 1..MaxChars

Outputs == [kind: Streams \cup {Rich}, text: Seq(Chars \cup {CharsNote})]

BufferInit ==
  /\ head = <<>> /\ tail = <<>> /\ dropped = 0 /\ pending = FALSE
  /\ log = <<>> /\ written = 0

----------------------------------------------------------------------------
Limit == HeadChars + TailChars + Slack

Front(s, n) == SubSeq(s, 1, n)
Back(s, n)  == SubSeq(s, Len(s) - n + 1, Len(s))

\* Mutant: only the beginning of a long text is kept.
CapFront(text) == IF Len(text) <= Limit THEN text ELSE Front(text, HeadChars) \o <<CharsNote>>

CapText(text) ==
  IF Len(text) <= Limit THEN text
  ELSE Front(text, HeadChars) \o <<CharsNote>> \o Back(text, TailChars)

\* The last of the outputs s is a stream that takes out in as well.
Coalesces(s, out) == s # <<>> /\ out.kind \in Streams /\ s[Len(s)].kind = out.kind

Coalesced(s, out) == [s EXCEPT ![Len(s)].text = CapText(@ \o out.text)]

PushKeep(t, out) == Append(t, out) \* mutant: a deque without maxlen

\* _tail.append(out): the deque has a maxlen.
Push(t, out) == Append(IF Len(t) = TailOutputs THEN Tail(t) ELSE t, out)

\* add(), once the clear that was pending is done.
Place(h, t, d, out) ==
  \/ /\ Coalesces(t, out)
     /\ head' = h /\ tail' = Coalesced(t, out) /\ dropped' = d
  \/ /\ t = <<>> /\ Coalesces(h, out)
     /\ head' = Coalesced(h, out) /\ tail' = t /\ dropped' = d
  \/ /\ ~Coalesces(IF t # <<>> THEN t ELSE h, out)
     /\ IF Len(h) < HeadOutputs /\ t = <<>> /\ d = 0
        THEN head' = Append(h, out) /\ tail' = t /\ dropped' = d
        ELSE /\ head' = h
             /\ tail' = Push(t, out)
             /\ dropped' = IF Len(t) = TailOutputs THEN d + 1 ELSE d

\* What an unbounded buffer would hold.
Logged(l, out) ==
  IF Coalesces(l, out) THEN [l EXCEPT ![Len(l)].text = @ \o out.text] ELSE Append(l, out)

Output(kind, before, n) == [kind |-> kind, text |-> [j \in 1..n |-> before + j]]

Add(kind, n) ==
  LET before == IF pending THEN 0 ELSE written
      out    == Output(kind, before, n)
  IN  /\ IF pending THEN Place(<<>>, <<>>, 0, out) ELSE Place(head, tail, dropped, out)
      /\ pending' = FALSE
      /\ log' = Logged(IF pending THEN <<>> ELSE log, out)
      /\ written' = before + n

Clear ==
  /\ head' = <<>> /\ tail' = <<>> /\ dropped' = 0 /\ pending' = FALSE
  /\ log' = <<>> /\ written' = 0

\* clear(wait=True): what is there stays until the next output comes.
ClearLater == pending' = TRUE /\ UNCHANGED <<head, tail, dropped, history>>

----------------------------------------------------------------------------
(* snapshot().                                                             *)

OutputsNote(n) == [kind |-> "dropped", text |-> <<n>>]

Snapshot == head \o (IF dropped > 0 THEN <<OutputsNote(dropped)>> ELSE <<>>) \o tail

----------------------------------------------------------------------------
(* Properties.                                                             *)

BufferTypeOK ==
  /\ head \in Seq(Outputs) /\ Len(head) <= HeadOutputs
  /\ tail \in Seq(Outputs) /\ Len(tail) <= TailOutputs
  /\ dropped \in Nat
  /\ pending \in BOOLEAN
  /\ log \in Seq(Outputs) /\ written \in 0..MaxChars

\* What a reader is to see of the outputs l: all of them, or the first and the
\* last ones and how many are missing in between.
Abridged(l) ==
  IF Len(l) <= HeadOutputs + TailOutputs THEN l
  ELSE Front(l, HeadOutputs)
       \o <<OutputsNote(Len(l) - HeadOutputs - TailOutputs)>>
       \o Back(l, TailOutputs)

\* A text shown stands for the full one: it is the full one, or that was over
\* the limit, and its beginning and its end are shown around one note.
StandsFor(shown, full) ==
  \/ shown = full
  \/ /\ Len(full) > Limit /\ Len(shown) <= Limit
     /\ Front(shown, HeadChars) = Front(full, HeadChars)
     /\ Back(shown, TailChars) = Back(full, TailChars)
     /\ \E i \in DOMAIN shown : shown[i] = CharsNote

\* Whatever the order of messages, clears and the caps they hit, a snapshot is
\* the whole output or its beginning and its end, with nothing missing in
\* silence and the number of dropped outputs right (tasks.py: "keeps head+tail").
KeepsEnds ==
  LET all == Abridged(log)
  IN  /\ Len(Snapshot) = Len(all)
      /\ \A i \in DOMAIN all : /\ Snapshot[i].kind = all[i].kind
                               /\ StandsFor(Snapshot[i].text, all[i].text)
============================================================================
