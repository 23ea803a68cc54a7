---------------------------- MODULE ExecuteProofs ----------------------------
(***************************************************************************)
(* A call of execute() reports what its own cell did and fills the buffer  *)
(* with what its own cell printed, for any number of calls, any caps and   *)
(* any delay of the channels.                                              *)
(***************************************************************************)
EXTENDS Execute, SequenceTheorems, TLAPS

----------------------------------------------------------------------------
(* What a bounded buffer keeps of an unbounded log.                        *)

Texts == Seq(Chars \cup {CharsNote})

\* A function on 1..n is a sequence of length n.
LEMMA SeqOfLength ==
  ASSUME NEW S, NEW n \in Nat, NEW f \in [1..n -> S]
  PROVE  f \in Seq(S) /\ Len(f) = n
<1>1. f \in Seq(S)
  BY SeqDef
<1>2. Len(f) \in Nat /\ 1..Len(f) = 1..n
  BY <1>1, LenProperties
<1> QED BY <1>1, <1>2

\* The beginning and the end of a sequence, element by element.
LEMMA Ends ==
  ASSUME NEW S, NEW s \in Seq(S), NEW n \in 0..Len(s)
  PROVE  /\ Front(s, n) \in Seq(S) /\ Len(Front(s, n)) = n
         /\ \A j \in 1..n : Front(s, n)[j] = s[j]
         /\ Back(s, n) \in Seq(S) /\ Len(Back(s, n)) = n
         /\ \A j \in 1..n : Back(s, n)[j] = s[Len(s) - n + j]
<1>1. Len(s) \in Nat /\ n \in Nat /\ \A i \in 1..Len(s) : s[i] \in S
  BY LenProperties, ElementOfSeq
<1>2. Front(s, n) \in Seq(S) /\ Len(Front(s, n)) = n /\ \A j \in 1..n : Front(s, n)[j] = s[j]
  BY <1>1, SubSeqProperties DEF Front
<1>3. /\ Back(s, n) \in Seq(S) /\ Len(Back(s, n)) = n
      /\ \A j \in 1..n : Back(s, n)[j] = s[Len(s) - n + j]
  <2> DEFINE m == Len(s) - n + 1
  <2>1. m \in Int /\ m >= 1 /\ Len(s) - m + 1 = n
    BY <1>1
  <2>2. \A i \in m..Len(s) : s[i] \in S
    BY <1>1, <2>1
  <2>3. /\ SubSeq(s, m, Len(s)) \in Seq(S)
        /\ Len(SubSeq(s, m, Len(s))) = IF m <= Len(s) THEN Len(s) - m + 1 ELSE 0
        /\ \A i \in 1..Len(s) - m + 1 : SubSeq(s, m, Len(s))[i] = s[m + i - 1]
    BY <1>1, <2>1, <2>2, SubSeqProperties
  <2>4. Back(s, n) = SubSeq(s, m, Len(s))
    BY DEF Back
  <2> QED BY <1>1, <2>1, <2>3, <2>4
<1> QED BY <1>2, <1>3

----------------------------------------------------------------------------
(* Texts.                                                                  *)

\* StandsFor, said of single characters, and long enough to stay true when
\* more is written.
Shows(shown, full) ==
  \/ shown = full
  \/ /\ Len(full) > Limit
     /\ HeadChars + TailChars <= Len(shown) /\ Len(shown) <= Limit
     /\ \A j \in 1..HeadChars : shown[j] = full[j]
     /\ \A j \in 0..TailChars - 1 : shown[Len(shown) - j] = full[Len(full) - j]
     /\ \E j \in 1..Len(shown) : shown[j] = CharsNote

LEMMA ShowsStandsFor ==
  ASSUME NEW shown \in Texts, NEW full \in Texts, Shows(shown, full)
  PROVE  StandsFor(shown, full)
<1> SUFFICES ASSUME shown # full PROVE StandsFor(shown, full)
  BY DEF StandsFor
<1>1. HeadChars \in Nat /\ TailChars \in Nat /\ Slack \in Nat /\ Len(shown) \in Nat /\ Len(full) \in Nat
      /\ Limit = HeadChars + TailChars + Slack
  BY CapsAssumption, LenProperties DEF Limit, Texts
<1>2. HeadChars \in 0..Len(shown) /\ HeadChars \in 0..Len(full)
      /\ TailChars \in 0..Len(shown) /\ TailChars \in 0..Len(full)
  BY <1>1 DEF Shows
<1>3. Front(shown, HeadChars) = Front(full, HeadChars)
  <2>1. \A j \in 1..HeadChars : Front(shown, HeadChars)[j] = Front(full, HeadChars)[j]
    BY <1>2, Ends DEF Shows, Texts
  <2> QED BY <1>2, <2>1, Ends, SeqEqual DEF Texts
<1>4. Back(shown, TailChars) = Back(full, TailChars)
  <2>1. ASSUME NEW j \in 1..TailChars
        PROVE  Back(shown, TailChars)[j] = Back(full, TailChars)[j]
    <3>1. TailChars - j \in 0..TailChars - 1
      BY <1>1
    <3>2. shown[Len(shown) - (TailChars - j)] = full[Len(full) - (TailChars - j)]
      BY <3>1 DEF Shows
    <3>3. Len(shown) - (TailChars - j) = Len(shown) - TailChars + j
          /\ Len(full) - (TailChars - j) = Len(full) - TailChars + j
      BY <1>1
    <3> QED BY <1>2, <3>2, <3>3, Ends DEF Texts
  <2> QED BY <1>2, <2>1, Ends, SeqEqual DEF Texts
<1>5. \E i \in DOMAIN shown : shown[i] = CharsNote
  BY LenProperties DEF Shows, Texts
<1> QED BY <1>3, <1>4, <1>5 DEF StandsFor, Shows

\* A text that is over the limit shows every text with the same ends.
LEMMA CappedShows ==
  ASSUME NEW s \in Texts, NEW f \in Texts, Len(s) > Limit, Len(f) > Limit,
         \A j \in 1..HeadChars : s[j] = f[j],
         \A j \in 0..TailChars - 1 : s[Len(s) - j] = f[Len(f) - j]
  PROVE  CapText(s) \in Texts /\ Shows(CapText(s), f)
<1> DEFINE a == Front(s, HeadChars)
           n == <<CharsNote>>
           b == Back(s, TailChars)
           d == a \o n
           c == d \o b
<1>1. HeadChars \in Nat /\ TailChars \in Nat \ {0} /\ Slack \in Nat \ {0}
      /\ Limit = HeadChars + TailChars + Slack /\ Len(s) \in Nat /\ Len(f) \in Nat
  BY CapsAssumption, LenProperties DEF Limit, Texts
<1>2. HeadChars \in 0..Len(s) /\ TailChars \in 0..Len(s)
  BY <1>1
<1>3. a \in Texts /\ Len(a) = HeadChars /\ \A j \in 1..HeadChars : a[j] = s[j]
  BY <1>2, Ends DEF Texts
<1>4. b \in Texts /\ Len(b) = TailChars /\ \A j \in 1..TailChars : b[j] = s[Len(s) - TailChars + j]
  BY <1>2, Ends DEF Texts
<1>5. n \in Texts /\ Len(n) = 1 /\ n[1] = CharsNote
  BY DEF Texts
<1> HIDE DEF a, b, n
<1>6. d \in Texts /\ Len(d) = Len(a) + Len(n)
      /\ \A j \in 1..Len(a) + Len(n) : d[j] = IF j <= Len(a) THEN a[j] ELSE n[j - Len(a)]
  BY <1>3, <1>5, ConcatProperties DEF Texts
<1> HIDE DEF d
<1>7. c \in Texts /\ Len(c) = Len(d) + Len(b)
      /\ \A j \in 1..Len(d) + Len(b) : c[j] = IF j <= Len(d) THEN d[j] ELSE b[j - Len(d)]
  <2>1. d \in Seq(Chars \cup {CharsNote}) /\ b \in Seq(Chars \cup {CharsNote})
    BY <1>4, <1>6 DEF Texts
  <2> QED BY <2>1, ConcatProperties DEF Texts
<1>8. CapText(s) = c
  BY <1>1 DEF CapText, a, b, d, n
<1> HIDE DEF c
<1>9. ASSUME NEW j \in 1..HeadChars PROVE c[j] = f[j]
  <2>1. j \in 1..Len(a) + Len(n) /\ j <= Len(a) /\ j \in 1..Len(d) + Len(b) /\ j <= Len(d)
    BY <1>1, <1>3, <1>4, <1>5, <1>6
  <2>2. c[j] = d[j] /\ d[j] = a[j] /\ a[j] = s[j]
    BY <1>3, <1>6, <1>7, <2>1
  <2> QED BY <2>2
<1>10. ASSUME NEW j \in 0..TailChars - 1 PROVE c[Len(c) - j] = f[Len(f) - j]
  <2>1. TailChars - j \in 1..TailChars /\ Len(c) - j \in 1..Len(d) + Len(b)
        /\ ~(Len(c) - j <= Len(d)) /\ Len(c) - j - Len(d) = TailChars - j
    BY <1>1, <1>3, <1>4, <1>5, <1>6, <1>7
  <2>2. c[Len(c) - j] = b[TailChars - j]
    BY <1>7, <2>1
  <2>3. b[TailChars - j] = s[Len(s) - TailChars + (TailChars - j)]
    BY <1>4, <2>1
  <2>4. Len(s) - TailChars + (TailChars - j) = Len(s) - j
    BY <1>1
  <2> QED BY <2>2, <2>3, <2>4
<1>11. \E j \in 1..Len(c) : c[j] = CharsNote
  <2> DEFINE k == HeadChars + 1
  <2>1. k \in 1..Len(a) + Len(n) /\ ~(k <= Len(a)) /\ k - Len(a) = 1
        /\ k \in 1..Len(d) + Len(b) /\ k <= Len(d)
    BY <1>1, <1>3, <1>4, <1>5, <1>6
  <2> HIDE DEF k
  <2>2. c[k] = d[k] /\ d[k] = n[1]
    BY <1>6, <1>7, <2>1
  <2> QED BY <1>5, <1>7, <2>1, <2>2
<1>12. Len(c) <= Limit /\ HeadChars + TailChars <= Len(c)
  BY <1>1, <1>3, <1>4, <1>5, <1>6, <1>7
<1> QED BY <1>7, <1>8, <1>9, <1>10, <1>11, <1>12 DEF Shows

\* What is capped shows what was written, however often it was capped before.
LEMMA CapShows ==
  ASSUME NEW shown \in Texts, NEW full \in Texts, NEW new \in Texts, Shows(shown, full)
  PROVE  CapText(shown \o new) \in Texts /\ Shows(CapText(shown \o new), full \o new)
<1> DEFINE s == shown \o new
           f == full \o new
<1>1. HeadChars \in Nat /\ TailChars \in Nat \ {0} /\ Slack \in Nat \ {0}
      /\ Limit = HeadChars + TailChars + Slack
      /\ Len(shown) \in Nat /\ Len(full) \in Nat /\ Len(new) \in Nat
  BY CapsAssumption, LenProperties DEF Limit, Texts
<1>2. s \in Texts /\ Len(s) = Len(shown) + Len(new)
      /\ \A i \in 1..Len(shown) + Len(new) :
           s[i] = IF i <= Len(shown) THEN shown[i] ELSE new[i - Len(shown)]
  BY ConcatProperties DEF Texts
<1>3. f \in Texts /\ Len(f) = Len(full) + Len(new)
      /\ \A i \in 1..Len(full) + Len(new) :
           f[i] = IF i <= Len(full) THEN full[i] ELSE new[i - Len(full)]
  BY ConcatProperties DEF Texts
<1> HIDE DEF s, f
\* The ends of both are the same, the note aside.
<1>4. CASE shown # full
  <2>1. Len(f) > Limit /\ HeadChars + TailChars <= Len(s)
    BY <1>1, <1>2, <1>3, <1>4 DEF Shows
  <2>2. ASSUME NEW j \in 1..HeadChars PROVE s[j] = f[j]
    <3>1. j <= Len(shown) /\ j <= Len(full) /\ j \in 1..Len(shown) + Len(new)
          /\ j \in 1..Len(full) + Len(new)
      BY <1>1, <1>4 DEF Shows
    <3>2. s[j] = shown[j] /\ f[j] = full[j]
      BY <1>2, <1>3, <3>1
    <3> QED BY <1>4, <3>2 DEF Shows
  <2>3. ASSUME NEW j \in 0..TailChars - 1 PROVE s[Len(s) - j] = f[Len(f) - j]
    <3>1. CASE j < Len(new)
      <4>1. s[Len(s) - j] = new[Len(s) - j - Len(shown)]
        BY <1>1, <1>2, <3>1
      <4>2. f[Len(f) - j] = new[Len(f) - j - Len(full)]
        BY <1>1, <1>3, <3>1
      <4>3. Len(s) - j - Len(shown) = Len(new) - j /\ Len(f) - j - Len(full) = Len(new) - j
        BY <1>1, <1>2, <1>3
      <4> QED BY <4>1, <4>2, <4>3
    <3>2. CASE j >= Len(new)
      <4> DEFINE k == j - Len(new)
      <4>1. k \in 0..TailChars - 1
        BY <1>1, <3>2
      <4>2. shown[Len(shown) - k] = full[Len(full) - k]
        BY <1>4, <4>1 DEF Shows
      <4>3. Len(shown) - k \in 1..Len(shown) /\ Len(full) - k \in 1..Len(full)
            /\ Len(s) - j = Len(shown) - k /\ Len(f) - j = Len(full) - k
        BY <1>1, <1>2, <1>3, <1>4, <4>1 DEF Shows
      <4> HIDE DEF k
      <4> DEFINE x == Len(shown) - k
                 y == Len(full) - k
      <4>4. s[x] = shown[x] /\ x = Len(s) - j
        <5>1. x \in 1..Len(shown) + Len(new) /\ x <= Len(shown)
          BY <1>1, <4>3
        <5> HIDE DEF x
        <5>2. s[x] = shown[x]
          BY <1>2, <5>1
        <5> QED BY <4>3, <5>2 DEF x
      <4>5. f[y] = full[y] /\ y = Len(f) - j
        <5>1. y \in 1..Len(full) + Len(new) /\ y <= Len(full)
          BY <1>1, <4>3
        <5> HIDE DEF y
        <5>2. f[y] = full[y]
          BY <1>3, <5>1
        <5> QED BY <4>3, <5>2 DEF y
      <4> QED BY <4>2, <4>4, <4>5
    <3> QED BY <1>1, <3>1, <3>2
  <2>4. \E j \in 1..Len(s) : s[j] = CharsNote
    <3>1. PICK j \in 1..Len(shown) : shown[j] = CharsNote
      BY <1>4 DEF Shows
    <3>2. j \in 1..Len(s) /\ s[j] = CharsNote
      BY <1>1, <1>2, <3>1
    <3> QED BY <3>2
  <2>5. CASE Len(s) <= Limit
    <3>1. Shows(s, f)
      BY <2>1, <2>2, <2>3, <2>4, <2>5 DEF Shows
    <3>2. CapText(s) = s
      BY <2>5 DEF CapText
    <3> QED BY <1>2, <3>1, <3>2 DEF s, f
  <2>6. CASE Len(s) > Limit
    <3>1. s \in Texts /\ f \in Texts
      BY <1>2, <1>3
    <3>2. CapText(s) \in Texts /\ Shows(CapText(s), f)
      BY <2>1, <2>2, <2>3, <2>6, <3>1, CappedShows
    <3> QED BY <3>2 DEF s, f
  <2> QED BY <1>1, <1>2, <2>5, <2>6
<1>5. CASE shown = full
  <2>1. s = f
    BY <1>5 DEF s, f
  <2>2. CASE Len(s) <= Limit
    BY <1>2, <2>1, <2>2 DEF CapText, Shows, s, f
  <2>3. CASE Len(s) > Limit
    BY <1>1, <1>2, <2>1, <2>3, CappedShows DEF s, f
  <2> QED BY <1>1, <1>2, <2>2, <2>3
<1> QED BY <1>4, <1>5

----------------------------------------------------------------------------
(* Outputs.                                                                *)

Same(x, y) == x.kind = y.kind /\ Shows(x.text, y.text)

\* The first outputs of l in h, the last ones in t, the d in between dropped.
Keeps(h, t, d, l) ==
  /\ h \in Seq(Outputs) /\ t \in Seq(Outputs) /\ d \in Nat /\ l \in Seq(Outputs)
  /\ Len(h) <= HeadOutputs /\ Len(t) <= TailOutputs
  /\ Len(l) = Len(h) + d + Len(t)
  /\ Len(t) > 0 => Len(h) = HeadOutputs
  /\ d > 0 => Len(t) = TailOutputs
  /\ \A i \in 1..Len(h) : Same(h[i], l[i])
  /\ \A i \in 1..Len(t) : Same(t[i], l[Len(h) + d + i])

\* An output that more text is added to.
Longer(x, out)   == [x EXCEPT !.text = CapText(@ \o out.text)]
LongerLog(y, out) == [y EXCEPT !.text = @ \o out.text]

LEMMA LongerSame ==
  ASSUME NEW x \in Outputs, NEW y \in Outputs, NEW out \in Outputs, Same(x, y)
  PROVE  /\ Longer(x, out) \in Outputs /\ LongerLog(y, out) \in Outputs
         /\ Same(Longer(x, out), LongerLog(y, out))
<1>1. x.text \in Texts /\ y.text \in Texts /\ out.text \in Texts /\ Shows(x.text, y.text)
  BY DEF Outputs, Texts, Same
<1>2. CapText(x.text \o out.text) \in Texts
      /\ Shows(CapText(x.text \o out.text), y.text \o out.text)
  BY <1>1, CapShows
<1>3. y.text \o out.text \in Texts
  BY <1>1, ConcatProperties DEF Texts
<1>4. /\ Longer(x, out) = [kind |-> x.kind, text |-> CapText(x.text \o out.text)]
      /\ LongerLog(y, out) = [kind |-> y.kind, text |-> y.text \o out.text]
  <2>1. \A o \in Outputs : \A z : [o EXCEPT !.text = z] = [kind |-> o.kind, text |-> z]
    BY DEF Outputs
  <2> QED BY <2>1, Zenon DEF Longer, LongerLog
<1> QED BY <1>2, <1>3, <1>4 DEF Outputs, Texts, Same

\* Only the last output gets longer.
LEMMA CoalescedIs ==
  ASSUME NEW s \in Seq(Outputs), NEW out \in Outputs, s # <<>>, Longer(s[Len(s)], out) \in Outputs
  PROVE  /\ Len(s) \in 1..Len(s)
         /\ Len(Coalesced(s, out)) = Len(s)
         /\ \A j \in 1..Len(s) :
              Coalesced(s, out)[j] = IF j = Len(s) THEN Longer(s[Len(s)], out) ELSE s[j]
         /\ Coalesced(s, out) \in Seq(Outputs)
<1>1. Len(s) \in 1..Len(s) /\ s \in [1..Len(s) -> Outputs]
  BY EmptySeq, LenProperties
<1>2. Coalesced(s, out) = [j \in 1..Len(s) |-> IF j = Len(s) THEN Longer(s[Len(s)], out) ELSE s[j]]
  BY <1>1 DEF Coalesced, Longer
<1>3. Coalesced(s, out) \in [1..Len(s) -> Outputs] /\ Len(s) \in Nat
  <2>1. \A j \in 1..Len(s) : (IF j = Len(s) THEN Longer(s[Len(s)], out) ELSE s[j]) \in Outputs
    BY <1>1
  <2>2. Len(s) \in Nat
    BY LenProperties
  <2> QED BY <1>2, <2>1, <2>2, Zenon
<1>4. Coalesced(s, out) \in Seq(Outputs) /\ Len(Coalesced(s, out)) = Len(s)
  BY <1>3, SeqOfLength
<1> QED BY <1>1, <1>2, <1>4

LEMMA LoggedIs ==
  ASSUME NEW l \in Seq(Outputs), NEW out \in Outputs, Coalesces(l, out)
  PROVE  /\ l # <<>> /\ Len(l) \in 1..Len(l)
         /\ Len(Logged(l, out)) = Len(l)
         /\ \A j \in 1..Len(l) :
              Logged(l, out)[j] = IF j = Len(l) THEN LongerLog(l[Len(l)], out) ELSE l[j]
         /\ Logged(l, out) \in Seq(Outputs)
<1>1. l # <<>> /\ Len(l) \in 1..Len(l) /\ l \in [1..Len(l) -> Outputs]
  BY EmptySeq, LenProperties DEF Coalesces
<1>2. Logged(l, out) = [j \in 1..Len(l) |-> IF j = Len(l) THEN LongerLog(l[Len(l)], out) ELSE l[j]]
  BY <1>1 DEF Logged, LongerLog
<1>3. LongerLog(l[Len(l)], out) \in Outputs
  <2>1. l[Len(l)] \in Outputs /\ Same(l[Len(l)], l[Len(l)])
    BY <1>1 DEF Same, Shows
  <2> QED BY <2>1, LongerSame
<1>4. Logged(l, out) \in [1..Len(l) -> Outputs] /\ Len(l) \in Nat
  <2>1. \A j \in 1..Len(l) : (IF j = Len(l) THEN LongerLog(l[Len(l)], out) ELSE l[j]) \in Outputs
    BY <1>1, <1>3
  <2>2. Len(l) \in Nat
    BY LenProperties
  <2> QED BY <1>2, <2>1, <2>2, Zenon
<1>5. Logged(l, out) \in Seq(Outputs) /\ Len(Logged(l, out)) = Len(l)
  BY <1>4, SeqOfLength
<1> QED BY <1>1, <1>2, <1>5

\* The log takes out in whenever the buffer does.
LEMMA CoalescesAlike ==
  ASSUME NEW h, NEW t, NEW d, NEW l, NEW out \in Outputs, Keeps(h, t, d, l)
  PROVE  Coalesces(l, out) <=> Coalesces(IF t # <<>> THEN t ELSE h, out)
<1>1. Len(h) \in Nat /\ Len(t) \in Nat /\ Len(l) \in Nat /\ d \in Nat /\ TailOutputs \in Nat \ {0}
  BY LenProperties, CapsAssumption DEF Keeps
<1>2. (h = <<>> <=> Len(h) = 0) /\ (t = <<>> <=> Len(t) = 0) /\ (l = <<>> <=> Len(l) = 0)
  BY EmptySeq DEF Keeps
<1>3. CASE t # <<>>
  <2>1. Len(t) \in 1..Len(t) /\ Len(h) + d + Len(t) = Len(l) /\ l # <<>>
    BY <1>1, <1>2, <1>3 DEF Keeps
  <2>2. t[Len(t)].kind = l[Len(l)].kind
    BY <2>1 DEF Keeps, Same
  <2> QED BY <1>3, <2>1, <2>2 DEF Coalesces
<1>4. CASE t = <<>>
  <2>1. Len(l) = Len(h)
    BY <1>1, <1>2, <1>4 DEF Keeps
  <2>2. h # <<>> => h[Len(h)].kind = l[Len(l)].kind
    BY <1>1, <1>2, <2>1 DEF Keeps, Same
  <2> QED BY <1>2, <1>4, <2>1, <2>2 DEF Coalesces
<1> QED BY <1>3, <1>4

\* add() keeps the ends: when the last output takes out in ...
LEMMA CoalescedKeeps ==
  ASSUME NEW h, NEW t, NEW d, NEW l, NEW out \in Outputs, Keeps(h, t, d, l), Coalesces(l, out)
  PROVE  /\ t # <<>> => Keeps(h, Coalesced(t, out), d, Logged(l, out))
         /\ t = <<>> => Keeps(Coalesced(h, out), t, d, Logged(l, out))
<1>1. Len(h) \in Nat /\ Len(t) \in Nat /\ Len(l) \in Nat /\ d \in Nat /\ TailOutputs \in Nat \ {0}
      /\ Len(l) = Len(h) + d + Len(t)
  BY LenProperties, CapsAssumption DEF Keeps
<1>2. (h = <<>> <=> Len(h) = 0) /\ (t = <<>> <=> Len(t) = 0) /\ h \in Seq(Outputs) /\ t \in Seq(Outputs)
      /\ l \in Seq(Outputs)
  BY EmptySeq DEF Keeps
<1> DEFINE k == Logged(l, out)
<1>3. /\ Len(l) \in 1..Len(l) /\ Len(k) = Len(l) /\ k \in Seq(Outputs)
      /\ \A j \in 1..Len(l) : k[j] = IF j = Len(l) THEN LongerLog(l[Len(l)], out) ELSE l[j]
  BY <1>2, LoggedIs
<1>4. l[Len(l)] \in Outputs
  BY <1>2, <1>3, ElementOfSeq
<1> HIDE DEF k
<1>5. CASE t # <<>>
  <2> DEFINE s == Coalesced(t, out)
  <2>1. Len(t) \in 1..Len(t) /\ Len(h) + d + Len(t) = Len(l) /\ Len(h) < Len(l)
    BY <1>1, <1>2, <1>5
  <2>2. t[Len(t)] \in Outputs /\ Same(t[Len(t)], l[Len(l)])
    BY <1>2, <2>1, ElementOfSeq DEF Keeps
  <2>3. Longer(t[Len(t)], out) \in Outputs
        /\ Same(Longer(t[Len(t)], out), LongerLog(l[Len(l)], out))
    BY <1>4, <2>2, LongerSame
  <2>4. /\ Len(s) = Len(t) /\ s \in Seq(Outputs)
        /\ \A j \in 1..Len(t) : s[j] = IF j = Len(t) THEN Longer(t[Len(t)], out) ELSE t[j]
    BY <1>2, <1>5, <2>3, CoalescedIs
  <2> HIDE DEF s
  <2>5. ASSUME NEW i \in 1..Len(h) PROVE Same(h[i], k[i])
    <3>1. i \in 1..Len(l) /\ i # Len(l)
      BY <1>1, <2>1
    <3> QED BY <1>3, <3>1 DEF Keeps
  <2>6. ASSUME NEW i \in 1..Len(t) PROVE Same(s[i], k[Len(h) + d + i])
    <3>1. Len(h) + d + i \in 1..Len(l) /\ (Len(h) + d + i = Len(l) <=> i = Len(t))
      BY <1>1, <2>1
    <3>2. CASE i = Len(t)
      BY <1>3, <2>3, <2>4, <3>1, <3>2
    <3>3. CASE i # Len(t)
      <4>1. s[i] = t[i] /\ k[Len(h) + d + i] = l[Len(h) + d + i]
        BY <1>3, <2>4, <3>1, <3>3
      <4> QED BY <4>1 DEF Keeps
    <3> QED BY <3>2, <3>3
  <2>7. Keeps(h, s, d, k)
    BY <1>1, <1>2, <1>3, <2>4, <2>5, <2>6 DEF Keeps
  <2> QED BY <1>5, <2>7 DEF s, k
<1>6. CASE t = <<>>
  <2> DEFINE s == Coalesced(h, out)
  <2>1. Len(t) = 0 /\ d = 0 /\ Len(h) = Len(l) /\ h # <<>>
    BY <1>1, <1>2, <1>3, <1>6 DEF Keeps
  <2>2. h[Len(h)] \in Outputs /\ Same(h[Len(h)], l[Len(l)])
    BY <1>2, <1>3, <2>1, ElementOfSeq DEF Keeps
  <2>3. Longer(h[Len(h)], out) \in Outputs
        /\ Same(Longer(h[Len(h)], out), LongerLog(l[Len(l)], out))
    BY <1>4, <2>2, LongerSame
  <2>4. /\ Len(s) = Len(h) /\ s \in Seq(Outputs)
        /\ \A j \in 1..Len(h) : s[j] = IF j = Len(h) THEN Longer(h[Len(h)], out) ELSE h[j]
    BY <1>2, <2>1, <2>3, CoalescedIs
  <2> HIDE DEF s
  <2>5. ASSUME NEW i \in 1..Len(h) PROVE Same(s[i], k[i])
    <3>1. CASE i = Len(h)
      BY <1>3, <2>1, <2>3, <2>4, <3>1
    <3>2. CASE i # Len(h)
      <4>1. s[i] = h[i] /\ k[i] = l[i]
        BY <1>3, <2>1, <2>4, <3>2
      <4> QED BY <4>1 DEF Keeps
    <3> QED BY <3>1, <3>2
  <2>6. Keeps(s, t, d, k)
    BY <1>1, <1>2, <1>3, <2>1, <2>4, <2>5 DEF Keeps
  <2> QED BY <1>6, <2>6 DEF s, k
<1> QED BY <1>5, <1>6 DEF k

\* ... when there is room for it at the beginning ...
LEMMA HeadKeeps ==
  ASSUME NEW h, NEW t, NEW d, NEW l, NEW out \in Outputs, Keeps(h, t, d, l),
         Len(h) < HeadOutputs
  PROVE  t = <<>> /\ d = 0 /\ Keeps(Append(h, out), t, d, Append(l, out))
<1>1. Len(h) \in Nat /\ Len(t) \in Nat /\ Len(l) \in Nat /\ d \in Nat /\ TailOutputs \in Nat \ {0}
      /\ HeadOutputs \in Nat /\ h \in Seq(Outputs) /\ t \in Seq(Outputs) /\ l \in Seq(Outputs)
  BY LenProperties, CapsAssumption DEF Keeps
<1>2. Len(t) = 0 /\ d = 0 /\ Len(l) = Len(h) /\ t = <<>>
  BY <1>1, EmptySeq DEF Keeps
<1>3. /\ Append(h, out) \in Seq(Outputs) /\ Len(Append(h, out)) = Len(h) + 1
      /\ \A i \in 1..Len(h) : Append(h, out)[i] = h[i]
      /\ Append(h, out)[Len(h) + 1] = out
  <2>1. h \in Seq(Outputs) /\ out \in Outputs
    BY <1>1
  <2> QED BY <2>1, AppendProperties
<1>4. /\ Append(l, out) \in Seq(Outputs) /\ Len(Append(l, out)) = Len(l) + 1
      /\ \A i \in 1..Len(l) : Append(l, out)[i] = l[i]
      /\ Append(l, out)[Len(l) + 1] = out
  <2>1. l \in Seq(Outputs) /\ out \in Outputs
    BY <1>1
  <2> QED BY <2>1, AppendProperties
<1>5. ASSUME NEW i \in 1..Len(h) + 1 PROVE Same(Append(h, out)[i], Append(l, out)[i])
  <2>1. CASE i = Len(h) + 1
    BY <1>2, <1>3, <1>4, <2>1 DEF Same, Shows
  <2>2. CASE i # Len(h) + 1
    <3>1. i \in 1..Len(h)
      BY <1>1, <2>2
    <3> QED BY <1>2, <1>3, <1>4, <3>1 DEF Keeps
  <2> QED BY <2>1, <2>2
<1> QED BY <1>1, <1>2, <1>3, <1>4, <1>5 DEF Keeps

\* ... and when it pushes another one off the end.
LEMMA PushKeeps ==
  ASSUME NEW h, NEW t, NEW d, NEW l, NEW out \in Outputs, Keeps(h, t, d, l),
         Len(h) = HeadOutputs
  PROVE  Keeps(h, Push(t, out), IF Len(t) = TailOutputs THEN d + 1 ELSE d, Append(l, out))
<1>1. Len(h) \in Nat /\ Len(t) \in Nat /\ Len(l) \in Nat /\ d \in Nat /\ TailOutputs \in Nat \ {0}
      /\ HeadOutputs \in Nat /\ h \in Seq(Outputs) /\ t \in Seq(Outputs) /\ l \in Seq(Outputs)
      /\ Len(l) = Len(h) + d + Len(t) /\ Len(t) <= TailOutputs
  BY LenProperties, CapsAssumption DEF Keeps
<1> DEFINE r == IF Len(t) = TailOutputs THEN Tail(t) ELSE t
           e == IF Len(t) = TailOutputs THEN d + 1 ELSE d
           p == Append(r, out)
           k == Append(l, out)
<1>2. /\ r \in Seq(Outputs) /\ e \in Nat /\ Len(r) \in Nat /\ e + Len(r) = d + Len(t)
      /\ Len(r) < TailOutputs /\ (e > 0 => Len(r) = TailOutputs - 1)
      /\ \A i \in 1..Len(r) : i + e - d \in 1..Len(t) /\ r[i] = t[i + e - d]
  <2>1. CASE Len(t) = TailOutputs
    <3>1. t # <<>>
      BY <1>1, <2>1, EmptySeq
    <3>2. Tail(t) \in Seq(Outputs) /\ Len(Tail(t)) = Len(t) - 1
          /\ \A i \in 1..Len(Tail(t)) : Tail(t)[i] = t[i + 1]
      BY <1>1, <3>1, HeadTailProperties
    <3>3. r = Tail(t) /\ e = d + 1 /\ Len(r) = Len(t) - 1 /\ Len(t) > 0
      BY <1>1, <2>1, <3>2
    <3> HIDE DEF r, e
    <3>4. ASSUME NEW i \in 1..Len(r) PROVE i + e - d \in 1..Len(t) /\ r[i] = t[i + e - d]
      <4>1. i + e - d = i + 1 /\ i + 1 \in 1..Len(t)
        BY <1>1, <3>3
      <4>2. r[i] = t[i + 1]
        BY <3>2, <3>3
      <4> QED BY <4>1, <4>2
    <3>5. e \in Nat /\ Len(r) \in Nat /\ e + Len(r) = d + Len(t)
          /\ Len(r) < TailOutputs /\ Len(r) = TailOutputs - 1
      <4>1. e = d + 1 /\ Len(r) = Len(t) - 1 /\ Len(t) > 0
        BY <3>3
      <4>2. d \in Nat /\ Len(t) \in Nat /\ TailOutputs \in Nat
        BY <1>1
      <4> QED BY <2>1, <4>1, <4>2
    <3> QED BY <3>2, <3>3, <3>4, <3>5
  <2>2. CASE Len(t) # TailOutputs
    BY <1>1, <2>2 DEF Keeps
  <2> QED BY <2>1, <2>2
<1> HIDE DEF r, e
<1>3. /\ p \in Seq(Outputs) /\ Len(p) = Len(r) + 1
      /\ \A i \in 1..Len(r) : p[i] = r[i]
      /\ p[Len(r) + 1] = out
  <2>1. r \in Seq(Outputs) /\ out \in Outputs
    BY <1>2
  <2> QED BY <2>1, AppendProperties
<1>4. /\ k \in Seq(Outputs) /\ Len(k) = Len(l) + 1
      /\ \A i \in 1..Len(l) : k[i] = l[i]
      /\ k[Len(l) + 1] = out
  <2>1. l \in Seq(Outputs) /\ out \in Outputs
    BY <1>1
  <2> QED BY <2>1, AppendProperties
<1> HIDE DEF p, k
<1>5. ASSUME NEW i \in 1..Len(h) PROVE Same(h[i], k[i])
  <2>1. i \in 1..Len(l)
    BY <1>1
  <2> QED BY <1>4, <2>1 DEF Keeps
<1>6. ASSUME NEW i \in 1..Len(p) PROVE Same(p[i], k[Len(h) + e + i])
  <2>1. CASE i = Len(r) + 1
    <3>1. Len(h) + e + i = Len(l) + 1
      <4>1. e \in Nat /\ Len(r) \in Nat /\ e + Len(r) = d + Len(t)
        BY <1>2
      <4> QED BY <1>1, <2>1, <4>1
    <3> QED BY <1>3, <1>4, <2>1, <3>1 DEF Same, Shows
  <2>2. CASE i # Len(r) + 1
    <3> DEFINE j == i + e - d
    <3>1. i \in 1..Len(r) /\ j \in 1..Len(t) /\ r[i] = t[j]
      BY <1>2, <1>3, <2>2
    <3>2. Len(h) + e + i \in 1..Len(l) /\ Len(h) + e + i = Len(h) + d + j
      BY <1>1, <1>2, <3>1
    <3>3. Same(t[j], l[Len(h) + d + j])
      BY <3>1 DEF Keeps
    <3>4. p[i] = t[j] /\ k[Len(h) + e + i] = l[Len(h) + d + j]
      BY <1>3, <1>4, <3>1, <3>2
    <3> QED BY <3>3, <3>4
  <2> QED BY <2>1, <2>2
<1>7. Keeps(h, p, e, k)
  BY <1>1, <1>2, <1>3, <1>4, <1>5, <1>6 DEF Keeps
<1> QED BY <1>7 DEF Push, p, r, e, k

\* Whatever add() does with out, and in whatever order, the ends are kept.
LEMMA PlaceKeeps ==
  ASSUME NEW h, NEW t, NEW d, NEW l, NEW out \in Outputs, Keeps(h, t, d, l), Place(h, t, d, out)
  PROVE  Keeps(head', tail', dropped', Logged(l, out))
<1>1. CASE Coalesces(t, out)
  <2>1. t # <<>> /\ Coalesces(l, out)
    BY <1>1, CoalescesAlike DEF Coalesces
  <2>2. head' = h /\ tail' = Coalesced(t, out) /\ dropped' = d
    BY <1>1, <2>1 DEF Place
  <2> QED BY <2>1, <2>2, CoalescedKeeps
<1>2. CASE t = <<>> /\ Coalesces(h, out)
  <2>1. Coalesces(l, out) /\ ~Coalesces(t, out)
    BY <1>2, CoalescesAlike DEF Coalesces
  <2>2. head' = Coalesced(h, out) /\ tail' = t /\ dropped' = d
    BY <1>2, <2>1 DEF Place
  <2> QED BY <1>2, <2>1, <2>2, CoalescedKeeps
<1>3. CASE ~Coalesces(IF t # <<>> THEN t ELSE h, out)
  <2>1. Logged(l, out) = Append(l, out)
    BY <1>3, CoalescesAlike DEF Logged
  <2>2. ~Coalesces(t, out) /\ ~(t = <<>> /\ Coalesces(h, out))
    BY <1>3 DEF Coalesces
  <2>3. IF Len(h) < HeadOutputs /\ t = <<>> /\ d = 0
        THEN head' = Append(h, out) /\ tail' = t /\ dropped' = d
        ELSE /\ head' = h
             /\ tail' = Push(t, out)
             /\ dropped' = IF Len(t) = TailOutputs THEN d + 1 ELSE d
    BY <2>2 DEF Place
  <2>4. CASE Len(h) < HeadOutputs
    <3>1. t = <<>> /\ d = 0 /\ Keeps(Append(h, out), t, d, Append(l, out))
      BY <2>4, HeadKeeps
    <3> QED BY <2>1, <2>3, <2>4, <3>1
  <2>5. CASE ~(Len(h) < HeadOutputs)
    <3>1. Len(h) = HeadOutputs
      BY <2>5, LenProperties, CapsAssumption DEF Keeps
    <3> QED BY <2>1, <2>3, <2>5, <3>1, PushKeeps
  <2> QED BY <2>4, <2>5
<1> QED BY <1>1, <1>2, <1>3

\* An empty buffer has lost nothing.
LEMMA EmptyKeeps == Keeps(<<>>, <<>>, 0, <<>>)
BY CapsAssumption DEF Keeps

\* What is kept is what a snapshot is to show.
LEMMA KeepsShown == ASSUME Keeps(head, tail, dropped, log) PROVE KeepsEnds
<1> DEFINE H == HeadOutputs
           T == TailOutputs
           n == Len(log) - H - T
           all == Abridged(log)
           noted == IF dropped > 0 THEN <<OutputsNote(dropped)>> ELSE <<>>
           Shown == Outputs \cup {OutputsNote(dropped)}
<1>1. /\ Len(head) \in Nat /\ Len(tail) \in Nat /\ Len(log) \in Nat /\ dropped \in Nat
      /\ H \in Nat \ {0} /\ T \in Nat \ {0} /\ Len(log) = Len(head) + dropped + Len(tail)
      /\ Len(head) <= H /\ Len(tail) <= T /\ (Len(tail) > 0 => Len(head) = H)
      /\ (dropped > 0 => Len(tail) = T)
      /\ head \in Seq(Outputs) /\ tail \in Seq(Outputs) /\ log \in Seq(Outputs)
  BY LenProperties, CapsAssumption DEF Keeps
<1>2. head \in Seq(Shown) /\ tail \in Seq(Shown) /\ noted \in Seq(Shown)
      /\ Len(noted) = (IF dropped > 0 THEN 1 ELSE 0)
  <2>1. Outputs \subseteq Shown /\ OutputsNote(dropped) \in Shown
    OBVIOUS
  <2> HIDE DEF Shown
  <2>2. <<>> \in Seq(Shown) /\ <<OutputsNote(dropped)>> \in Seq(Shown)
        /\ Len(<<>>) = 0 /\ Len(<<OutputsNote(dropped)>>) = 1
    BY <2>1
  <2> QED BY <1>1, <2>1, <2>2, SeqMonotonic
<1>3. ASSUME NEW x \in Outputs, NEW y \in Outputs, Same(x, y)
      PROVE  x.kind = y.kind /\ StandsFor(x.text, y.text)
  BY <1>3, ShowsStandsFor DEF Same, Outputs, Texts
<1> DEFINE first == head \o noted
<1>4. /\ first \in Seq(Shown) /\ Len(first) = Len(head) + Len(noted)
      /\ \A i \in 1..Len(head) + Len(noted) :
           first[i] = IF i <= Len(head) THEN head[i] ELSE noted[i - Len(head)]
  BY <1>2, ConcatProperties
<1> HIDE DEF first
<1>5. /\ Len(Snapshot) = Len(first) + Len(tail)
      /\ \A i \in 1..Len(first) + Len(tail) :
           Snapshot[i] = IF i <= Len(first) THEN first[i] ELSE tail[i - Len(first)]
  <2>1. first \in Seq(Shown) /\ tail \in Seq(Shown) /\ Snapshot = first \o tail
    BY <1>2, <1>4 DEF Snapshot, first
  <2> QED BY <2>1, ConcatProperties
<1>6. ASSUME NEW i \in 1..Len(head) PROVE Snapshot[i] = head[i]
  <2>1. i \in 1..Len(head) + Len(noted) /\ i <= Len(head)
        /\ i \in 1..Len(first) + Len(tail) /\ i <= Len(first)
    BY <1>1, <1>2, <1>4
  <2> QED BY <1>4, <1>5, <2>1
<1>7. ASSUME NEW i \in 1..Len(tail) PROVE Snapshot[Len(first) + i] = tail[i]
  <2> DEFINE k == Len(first) + i
  <2>1. k \in 1..Len(first) + Len(tail) /\ ~(k <= Len(first)) /\ k - Len(first) = i
    BY <1>1, <1>2, <1>4
  <2> HIDE DEF k
  <2>2. Snapshot[k] = tail[k - Len(first)]
    BY <1>5, <2>1
  <2>3. Snapshot[k] = tail[i]
    BY <2>1, <2>2
  <2> QED BY <2>3 DEF k
<1>8. CASE dropped = 0
  <2>1. all = log /\ Len(first) = Len(head)
    BY <1>1, <1>2, <1>4, <1>8 DEF Abridged
  <2>2. DOMAIN all = 1..Len(log) /\ Len(Snapshot) = Len(log)
    <3> HIDE DEF all
    <3>1. DOMAIN log = 1..Len(log)
      BY <1>1, LenProperties
    <3>2. Len(first) + Len(tail) = Len(log)
      BY <1>1, <1>8, <2>1
    <3> QED BY <1>5, <2>1, <3>1, <3>2
  <2>3. ASSUME NEW i \in 1..Len(log)
        PROVE  Snapshot[i].kind = log[i].kind /\ StandsFor(Snapshot[i].text, log[i].text)
    <3>1. PICK x \in Outputs : Snapshot[i] = x /\ Same(x, log[i])
      <4>1. CASE i <= Len(head)
        <5>1. i \in 1..Len(head)
          BY <1>1, <4>1
        <5> QED BY <1>1, <1>6, <5>1, ElementOfSeq DEF Keeps
      <4>2. CASE i > Len(head)
        <5> DEFINE j == i - Len(head)
        <5>1. j \in 1..Len(tail) /\ Len(first) + j = i /\ Len(head) + dropped + j = i
          BY <1>1, <1>8, <2>1, <4>2
        <5> HIDE DEF j
        <5>2. Snapshot[i] = tail[j] /\ tail[j] \in Outputs /\ Same(tail[j], log[i])
          BY <1>1, <1>7, <5>1, ElementOfSeq DEF Keeps
        <5> QED BY <5>2
      <4> QED BY <1>1, <4>1, <4>2
    <3>2. log[i] \in Outputs
      BY <1>1, ElementOfSeq
    <3> QED BY <1>3, <3>1, <3>2
  <2> QED BY <2>1, <2>2, <2>3 DEF KeepsEnds
<1>9. CASE dropped > 0
  <2>1. Len(head) = H /\ Len(tail) = T /\ n = dropped /\ Len(log) > H + T
        /\ noted = <<OutputsNote(dropped)>> /\ Len(first) = H + 1
    <3>1. Len(tail) = T /\ Len(head) = H /\ noted = <<OutputsNote(dropped)>> /\ Len(noted) = 1
      BY <1>1, <1>2, <1>9
    <3>2. Len(first) = Len(head) + Len(noted)
      BY <1>4
    <3> QED BY <1>1, <1>9, <3>1, <3>2
  <2> DEFINE a == Front(log, H)
             b == Back(log, T)
             d == a \o <<OutputsNote(dropped)>>
  <2>2. /\ a \in Seq(Outputs) /\ Len(a) = H /\ \A i \in 1..H : a[i] = log[i]
        /\ b \in Seq(Outputs) /\ Len(b) = T /\ \A i \in 1..T : b[i] = log[Len(log) - T + i]
    <3>1. H \in 0..Len(log) /\ T \in 0..Len(log)
      BY <1>1, <2>1
    <3> QED BY <1>1, <3>1, Ends
  <2>3. all = d \o b
    BY <1>1, <2>1 DEF Abridged
  <2> HIDE DEF a, b
  <2>4. a \in Seq(Shown) /\ b \in Seq(Shown) /\ <<OutputsNote(dropped)>> \in Seq(Shown)
        /\ Len(<<OutputsNote(dropped)>>) = 1 /\ <<OutputsNote(dropped)>>[1] = OutputsNote(dropped)
    BY <2>2, SeqMonotonic
  <2>5. /\ d \in Seq(Shown) /\ Len(d) = H + 1
        /\ (\A i \in 1..H : d[i] = a[i]) /\ d[H + 1] = OutputsNote(dropped)
    <3>1. /\ d \in Seq(Shown) /\ Len(d) = Len(a) + 1
          /\ \A i \in 1..Len(a) + 1 :
               d[i] = IF i <= Len(a) THEN a[i] ELSE <<OutputsNote(dropped)>>[i - Len(a)]
      BY <2>4, ConcatProperties
    <3> HIDE DEF d
    <3> QED BY <1>1, <2>2, <2>4, <3>1
  <2> HIDE DEF d
  <2>6. /\ all \in Seq(Shown) /\ Len(all) = Len(d) + Len(b)
        /\ \A i \in 1..Len(d) + Len(b) : all[i] = IF i <= Len(d) THEN d[i] ELSE b[i - Len(d)]
    <3>1. d \in Seq(Shown) /\ b \in Seq(Shown)
      BY <2>4, <2>5
    <3> QED BY <2>3, <3>1, ConcatProperties
  <2> HIDE DEF all
  <2>7. DOMAIN all = 1..H + 1 + T /\ Len(Snapshot) = H + 1 + T /\ Len(all) = H + 1 + T
    BY <1>1, <1>5, <2>1, <2>2, <2>5, <2>6, LenProperties
  <2>8. ASSUME NEW i \in 1..H + 1 + T
        PROVE  Snapshot[i].kind = all[i].kind /\ StandsFor(Snapshot[i].text, all[i].text)
    <3>1. CASE i <= H
      <4>1. i \in 1..H /\ i \in 1..Len(head) /\ i \in 1..Len(d) + Len(b) /\ i <= Len(d)
            /\ i \in 1..Len(log)
        BY <1>1, <2>1, <2>2, <2>5, <3>1
      <4>2. Snapshot[i] = head[i] /\ all[i] = log[i]
        BY <1>6, <2>2, <2>5, <2>6, <4>1
      <4>3. Same(head[i], log[i]) /\ head[i] \in Outputs /\ log[i] \in Outputs
        BY <1>1, <4>1, ElementOfSeq DEF Keeps
      <4> QED BY <1>3, <4>2, <4>3
    <3>2. CASE i = H + 1
      <4>1. i \in 1..Len(d) + Len(b) /\ i <= Len(d)
            /\ i \in 1..Len(first) + Len(tail) /\ i <= Len(first)
            /\ i \in 1..Len(head) + Len(noted) /\ ~(i <= Len(head)) /\ i - Len(head) = 1
        BY <1>1, <1>2, <1>9, <2>1, <2>2, <2>5, <3>2
      <4>2. Snapshot[i] = noted[1] /\ all[i] = d[i]
        BY <1>4, <1>5, <2>6, <4>1
      <4>3. Snapshot[i] = all[i]
        BY <2>1, <2>5, <3>2, <4>2
      <4> QED BY <4>3 DEF StandsFor
    <3>3. CASE i > H + 1
      <4> DEFINE j == i - (H + 1)
      <4>1. j \in 1..T /\ j \in 1..Len(tail) /\ Len(first) + j = i
            /\ i \in 1..Len(d) + Len(b) /\ ~(i <= Len(d)) /\ i - Len(d) = j
            /\ Len(log) - T + j = Len(head) + dropped + j /\ Len(log) - T + j \in 1..Len(log)
        BY <1>1, <2>1, <2>2, <2>5, <3>3
      <4> HIDE DEF j
      <4>2. Snapshot[i] = tail[j] /\ all[i] = log[Len(log) - T + j]
        BY <1>7, <2>2, <2>6, <4>1
      <4>3. Same(tail[j], log[Len(head) + dropped + j]) /\ tail[j] \in Outputs
            /\ log[Len(log) - T + j] \in Outputs
        BY <1>1, <4>1, ElementOfSeq DEF Keeps
      <4> QED BY <1>3, <4>1, <4>2, <4>3
    <3>4. i <= H \/ i = H + 1 \/ i > H + 1
      BY <1>1
    <3> QED BY <3>1, <3>2, <3>3, <3>4
  <2> QED BY <2>7, <2>8 DEF KeepsEnds, all
<1> QED BY <1>1, <1>8, <1>9

----------------------------------------------------------------------------
(* What the messages under way will make of the buffer.                    *)

Printed == [log: Seq(Outputs), written: 0..MaxChars, pending: BOOLEAN]
Buffer  == [log |-> log, written |-> written, pending |-> pending]

\* What the call for cell c makes of the message m.
After(c, p, m) ==
  IF m.owner # c THEN p
  ELSE IF m.type \in {"output", "error"} THEN Extended(p, m.kind, m.n)
  ELSE IF m.type = "clear" THEN Blank
  ELSE IF m.type = "clear_wait" THEN [p EXCEPT !.pending = TRUE]
  ELSE p

\* The messages q lead from p to r.
Replays(c, p, q, r) ==
  \E P \in [0..Len(q) -> Printed] :
    /\ P[0] = p /\ P[Len(q)] = r
    /\ \A j \in 1..Len(q) : P[j] = After(c, P[j - 1], q[j])

----------------------------------------------------------------------------
(* The inductive invariant.                                                *)

\* Cells are run in the order of their calls; nothing runs without a kernel.
OrderInv ==
  /\ cpc # "idle" => cell # 0
  /\ cell = 0 => status = "none"
  /\ \A i, j \in 1..Len(requests) : i < j => requests[i] < requests[j]
  /\ \A i \in 1..Len(requests) : requests[i] <= cell /\ now < requests[i]
  /\ now <= cell
  /\ now # Nothing \/ requests # <<>> => alive
  /\ \A i \in 1..Len(iopub) : iopub[i].owner <= cell
  /\ \A c \in lost : c <= cell
  /\ cpc = "read" => cell \notin lost
  /\ now # Nothing => made.written < MaxChars

\* What the kernel is over with it never takes up again; messages tell how
\* a cell ended.
OverInv ==
  /\ \A c \in Cells : c > cell => outcome[c] = "none"
  /\ \A c \in Cells : outcome[c] # "none" => now # c /\ \A i \in 1..Len(requests) : requests[i] # c
  /\ \A i \in 1..Len(iopub) :
       /\ iopub[i].type = "idle" => outcome[iopub[i].owner] # "none"
       /\ iopub[i].type = "error" => outcome[iopub[i].owner] = "error"

Own(i) == iopub[i].owner = cell

\* The kernel has not come to the cell: nothing of it is there.
Waits ==
  /\ \A i \in 1..Len(iopub) : ~Own(i)
  /\ Buffer = Blank /\ now # cell

\* It has: what is under way completes the buffer.
HasBegun == Replays(cell, Buffer, iopub, made) /\ requests = <<>> /\ now \in {Nothing, cell}

\* The idle status is the last message, an error comes before it.
EndsInOrder ==
  \A i \in 1..Len(iopub) : Own(i) /\ iopub[i].type = "idle" =>
    /\ i = Len(iopub)
    /\ outcome[cell] = "error" =>
         status = "error" \/ (i > 1 /\ Own(i - 1) /\ iopub[i - 1].type = "error")

ReadInv ==
  cpc = "read" =>
    /\ requests # <<>> => requests[Len(requests)] = cell
    /\ now # Nothing /\ now # cell => requests # <<>>
    /\ status \in {"ok", "error"}
    /\ status = "error" => outcome[cell] = "error"
    /\ Waits \/ HasBegun
    /\ EndsInOrder

\* Once the idle status was read the kernel is at rest.
ReplyInv ==
  /\ cpc = "drain" => status = "timeout"
  /\ cpc = "reply" /\ status # "timeout" =>
       /\ now = Nothing /\ requests = <<>> /\ log = made.log
       /\ outcome[cell] \in {"ok", "error"} /\ status = outcome[cell]

\* With no cell given up on, all there is belongs to the call.
AloneInv ==
  lost = {} =>
    /\ \A i \in 1..Len(requests) : requests[i] = cell
    /\ now \in {Nothing, cell}
    /\ cpc # "drain" /\ (cpc = "reply" => status # "timeout")
    /\ cpc = "idle" => requests = <<>> /\ now = Nothing /\ shell = <<>>
    /\ Len(shell) <= 1 /\ \A i \in 1..Len(shell) : shell[i].status = outcome[cell]
    /\ now # Nothing \/ requests # <<>> => shell = <<>>

\* With none given up on, neither is what it reports.
AloneOutcome ==
  cpc = "idle" =>
    /\ status = "ok" => outcome[cell] = "ok"
    /\ status = "error" => outcome[cell] = "error" \/ lost # {}

CallInv ==
  /\ TypeOK /\ Keeps(head, tail, dropped, log)
  /\ OrderInv /\ OverInv /\ ReadInv /\ ReplyInv /\ AloneOutcome /\ AloneInv

----------------------------------------------------------------------------
(* What is printed.                                                        *)

LEMMA BlankOK == Blank \in Printed
BY CapsAssumption DEF Blank, Printed

\* An output is one as long as its characters are within the bound.
LEMMA OutputOK ==
  ASSUME NEW kind \in Streams \cup {Rich}, NEW before \in Nat, NEW n \in Nat, before + n <= MaxChars
  PROVE  Output(kind, before, n) \in Outputs
<1>1. \A j \in 1..n : before + j \in Chars \cup {CharsNote}
  BY CapsAssumption DEF Chars
<1>2. [j \in 1..n |-> before + j] \in [1..n -> Chars \cup {CharsNote}]
  BY <1>1
<1>3. [j \in 1..n |-> before + j] \in Seq(Chars \cup {CharsNote})
  BY <1>2, SeqOfLength
<1> QED BY <1>3 DEF Output, Outputs

LEMMA LoggedOK ==
  ASSUME NEW l \in Seq(Outputs), NEW out \in Outputs PROVE Logged(l, out) \in Seq(Outputs)
<1>1. CASE Coalesces(l, out)
  BY <1>1, LoggedIs
<1>2. CASE ~Coalesces(l, out)
  BY <1>2, AppendProperties DEF Logged
<1> QED BY <1>1, <1>2

\* More is printed, within the bound.
LEMMA ExtendedOK ==
  ASSUME NEW p \in Printed, NEW kind \in Streams \cup {Rich}, NEW n \in Nat,
         Extended(p, kind, n).written <= MaxChars
  PROVE  Extended(p, kind, n) \in Printed
<1> DEFINE before == IF p.pending THEN 0 ELSE p.written
           l      == IF p.pending THEN <<>> ELSE p.log
<1>1. p.log \in Seq(Outputs) /\ p.written \in 0..MaxChars /\ MaxChars \in Nat
  BY CapsAssumption DEF Printed
<1>2. before \in Nat /\ l \in Seq(Outputs)
  BY <1>1
<1>3. Extended(p, kind, n) = [log |-> Logged(l, Output(kind, before, n)),
                              written |-> before + n, pending |-> FALSE]
  BY DEF Extended
<1> HIDE DEF before, l
<1>4. before + n <= MaxChars
  BY <1>3
<1>5. Logged(l, Output(kind, before, n)) \in Seq(Outputs)
  BY <1>2, <1>4, OutputOK, LoggedOK
<1> QED BY <1>1, <1>2, <1>3, <1>4, <1>5 DEF Printed

\* One more output or none is one more character at the end.
LEMMA RoomForError ==
  ASSUME NEW p \in Printed, p.written < MaxChars
  PROVE  Extended(p, Rich, 1) \in Printed
<1>1. Extended(p, Rich, 1).written <= MaxChars
  BY CapsAssumption DEF Extended, Printed
<1> QED BY <1>1, ExtendedOK

\* add() makes of the buffer what printing makes of the output, and keeps both
\* ends of it.
LEMMA AddIs ==
  ASSUME NEW kind \in Streams \cup {Rich}, NEW n \in Nat, Add(kind, n), Buffer \in Printed,
         Extended(Buffer, kind, n) \in Printed, Keeps(head, tail, dropped, log)
  PROVE  Buffer' = Extended(Buffer, kind, n) /\ Keeps(head', tail', dropped', log')
<1> DEFINE before == IF pending THEN 0 ELSE written
           out    == Output(kind, before, n)
<1>1. Buffer' = Extended(Buffer, kind, n)
  BY DEF Add, Buffer, Extended
<1>2. before \in Nat /\ before + n <= MaxChars
  <2>1. written \in 0..MaxChars /\ MaxChars \in Nat
    BY CapsAssumption DEF Buffer, Printed
  <2>2. Extended(Buffer, kind, n).written = before + n
    BY DEF Extended, Buffer
  <2>3. Extended(Buffer, kind, n).written \in 0..MaxChars
    BY DEF Printed
  <2> QED BY <2>1, <2>2, <2>3
<1>3. out \in Outputs
  BY <1>2, OutputOK
<1>4. CASE pending
  <2>1. Place(<<>>, <<>>, 0, out) /\ log' = Logged(<<>>, out)
    BY <1>4 DEF Add
  <2> HIDE DEF out
  <2> QED BY <1>1, <1>3, <2>1, EmptyKeeps, PlaceKeeps
<1>5. CASE ~pending
  <2>1. Place(head, tail, dropped, out) /\ log' = Logged(log, out)
    BY <1>5 DEF Add
  <2> HIDE DEF out
  <2> QED BY <1>1, <1>3, <2>1, PlaceKeeps
<1> QED BY <1>4, <1>5

----------------------------------------------------------------------------
(* Replays.                                                                *)

\* Messages of other cells change nothing.
LEMMA NothingReplays ==
  ASSUME NEW c, NEW p \in Printed, NEW q \in Seq(Messages), \A i \in 1..Len(q) : q[i].owner # c
  PROVE  Replays(c, p, q, p)
<1> DEFINE P == [j \in 0..Len(q) |-> p]
<1>1. Len(q) \in Nat
  BY LenProperties
<1>2. P \in [0..Len(q) -> Printed] /\ P[0] = p /\ P[Len(q)] = p
  BY <1>1
<1>3. ASSUME NEW j \in 1..Len(q) PROVE P[j] = After(c, P[j - 1], q[j])
  <2>1. P[j] = p /\ P[j - 1] = p
    BY <1>1
  <2> QED BY <2>1 DEF After
<1> HIDE DEF P
<1> QED BY <1>2, <1>3 DEF Replays

\* A message is sent.
LEMMA MoreReplays ==
  ASSUME NEW c, NEW p, NEW q \in Seq(Messages), NEW r, NEW m \in Messages,
         Replays(c, p, q, r), After(c, r, m) \in Printed
  PROVE  Replays(c, p, Append(q, m), After(c, r, m))
<1>1. PICK P \in [0..Len(q) -> Printed] :
        /\ P[0] = p /\ P[Len(q)] = r
        /\ \A j \in 1..Len(q) : P[j] = After(c, P[j - 1], q[j])
  BY DEF Replays
<1> DEFINE s == Append(q, m)
           R == [j \in 0..Len(s) |-> IF j = Len(s) THEN After(c, r, m) ELSE P[j]]
<1>2. /\ Len(q) \in Nat /\ Len(s) = Len(q) + 1
      /\ \A i \in 1..Len(q) : s[i] = q[i]
      /\ s[Len(q) + 1] = m
  BY LenProperties, AppendProperties
<1> HIDE DEF s
<1>3. R \in [0..Len(s) -> Printed] /\ R[0] = p /\ R[Len(s)] = After(c, r, m)
  <2>1. \A j \in 0..Len(s) : j = Len(s) \/ j \in 0..Len(q)
    BY <1>2
  <2>2. 0 \in 0..Len(s) /\ 0 # Len(s) /\ Len(s) \in 0..Len(s)
    BY <1>2
  <2> QED BY <1>1, <2>1, <2>2
<1>4. ASSUME NEW j \in 1..Len(s) PROVE R[j] = After(c, R[j - 1], s[j])
  <2>1. CASE j = Len(s)
    <3>1. j - 1 = Len(q) /\ R[j - 1] = r /\ s[j] = m
      BY <1>1, <1>2, <2>1
    <3> QED BY <1>3, <2>1, <3>1
  <2>2. CASE j # Len(s)
    <3>1. j \in 1..Len(q) /\ j - 1 \in 0..Len(s) /\ j - 1 # Len(s) /\ j \in 0..Len(s)
      BY <1>2, <2>2
    <3>2. R[j] = P[j] /\ R[j - 1] = P[j - 1] /\ s[j] = q[j]
      BY <1>2, <2>2, <3>1
    <3> HIDE DEF R
    <3> QED BY <1>1, <3>1, <3>2
  <2> QED BY <2>1, <2>2
<1> HIDE DEF R
<1>5. Replays(c, p, s, After(c, r, m))
  BY <1>3, <1>4 DEF Replays
<1> QED BY <1>5 DEF s

\* A message is received.
LEMMA FirstReplays ==
  ASSUME NEW c, NEW p, NEW q \in Seq(Messages), NEW r, Replays(c, p, q, r), q # <<>>
  PROVE  After(c, p, Head(q)) \in Printed /\ Replays(c, After(c, p, Head(q)), Tail(q), r)
<1>1. PICK P \in [0..Len(q) -> Printed] :
        /\ P[0] = p /\ P[Len(q)] = r
        /\ \A j \in 1..Len(q) : P[j] = After(c, P[j - 1], q[j])
  BY DEF Replays
<1> DEFINE s == Tail(q)
           R == [j \in 0..Len(s) |-> P[j + 1]]
<1>2. /\ Len(q) \in Nat \ {0} /\ Len(s) = Len(q) - 1 /\ Head(q) = q[1]
      /\ \A i \in 1..Len(s) : s[i] = q[i + 1]
  BY EmptySeq, HeadTailProperties
<1> HIDE DEF s
<1>3. \A j \in 0..Len(s) : j + 1 \in 0..Len(q)
  BY <1>2
<1>4. 0 \in 0..Len(s) /\ Len(s) \in 0..Len(s) /\ 0 + 1 = 1 /\ Len(s) + 1 = Len(q) /\ 1 \in 1..Len(q)
      /\ 1 - 1 = 0
  BY <1>2
<1>5. P[1] = After(c, p, Head(q))
  BY <1>1, <1>2, <1>4
<1>6. R \in [0..Len(s) -> Printed] /\ R[0] = After(c, p, Head(q)) /\ R[Len(s)] = r
  BY <1>1, <1>3, <1>4, <1>5
<1>7. ASSUME NEW j \in 1..Len(s) PROVE R[j] = After(c, R[j - 1], s[j])
  <2>1. j + 1 \in 1..Len(q) /\ j + 1 - 1 = j /\ j - 1 + 1 = j /\ j - 1 \in 0..Len(s) /\ j \in 0..Len(s)
    BY <1>2
  <2>2. R[j] = P[j + 1] /\ R[j - 1] = P[j] /\ s[j] = q[j + 1]
    BY <1>2, <2>1
  <2>3. P[j + 1] = After(c, P[j + 1 - 1], q[j + 1])
    BY <1>1, <2>1
  <2> HIDE DEF R
  <2> QED BY <2>1, <2>2, <2>3
<1>8. After(c, p, Head(q)) \in Printed
  BY <1>4, <1>6
<1> HIDE DEF R
<1>9. Replays(c, After(c, p, Head(q)), s, r)
  BY <1>6, <1>7 DEF Replays
<1> QED BY <1>8, <1>9 DEF s

\* Nothing is under way.
LEMMA LastReplays ==
  ASSUME NEW c, NEW p, NEW r, Replays(c, p, <<>>, r) PROVE p = r
BY DEF Replays

\* Replays end with something that was printed.
LEMMA ReplaysOK ==
  ASSUME NEW c, NEW p, NEW q \in Seq(Messages), NEW r, Replays(c, p, q, r)
  PROVE  p \in Printed /\ r \in Printed
BY LenProperties DEF Replays

----------------------------------------------------------------------------
(* The steps of the kernel.                                                *)

LEMMA InitCall == Init => CallInv
<1> SUFFICES ASSUME Init PROVE CallInv
  OBVIOUS
<1>1. /\ cell = 0 /\ cpc = "idle" /\ status = "none" /\ iopub = <<>> /\ shell = <<>>
      /\ alive = FALSE /\ requests = <<>> /\ now = Nothing /\ signal = "none" /\ made = Blank
      /\ outcome = [c \in Cells |-> "none"] /\ lost = {}
      /\ head = <<>> /\ tail = <<>> /\ dropped = 0 /\ pending = FALSE /\ log = <<>> /\ written = 0
      /\ Nothing = 0
  BY DEF Init, BufferInit, Nothing
<1>2. TypeOK
  <2>1. made \in Printed
    BY <1>1, BlankOK
  <2>2. BufferTypeOK
    <3>1. Keeps(head, tail, dropped, log)
      BY <1>1, EmptyKeeps
    <3>2. pending \in BOOLEAN
      BY <1>1
    <3>3. written \in 0..MaxChars
      BY <1>1, CapsAssumption
    <3> QED BY <3>1, <3>2, <3>3 DEF Keeps, BufferTypeOK
  <2>3. iopub \in Seq(Messages) /\ shell \in Seq([owner: Cells, status: {"ok", "error"}])
        /\ requests \in Seq(Cells)
    BY <1>1, EmptySeq
  <2>4. cell \in 0..MaxCells /\ outcome \in [Cells -> {"none", "ok", "error"}]
    BY <1>1, BoundsAssumption
  <2>5. now \in Cells \cup {Nothing} /\ lost \subseteq Cells /\ alive \in BOOLEAN
    BY <1>1
  <2> QED BY <1>1, <2>1, <2>2, <2>3, <2>4, <2>5 DEF TypeOK, Printed
<1>3. Keeps(head, tail, dropped, log)
  BY <1>1, EmptyKeeps
<1>4. OrderInv
  BY <1>1 DEF OrderInv
<1>5. OverInv
  BY <1>1 DEF OverInv
<1>6. AloneInv
  BY <1>1 DEF AloneInv
<1> QED BY <1>1, <1>2, <1>3, <1>4, <1>5, <1>6 DEF CallInv, ReadInv, ReplyInv, AloneOutcome

\* A signal alone changes nothing that the invariant speaks of.
LEMMA SignalCall ==
  ASSUME CallInv, signal' \in {"none", "heeded", "swallowed"},
         UNCHANGED <<client, channels, alive, requests, now, made, outcome, lost, bufferVars>>
  PROVE  CallInv'
<1>1. UNCHANGED <<cell, cpc, status, iopub, shell, alive, requests, now, made, outcome, lost,
                  head, tail, dropped, pending, log, written>>
  BY DEF client, channels, bufferVars, history
<1>2. TypeOK'
  BY <1>1 DEF CallInv, TypeOK, BufferTypeOK
<1>3. Keeps(head, tail, dropped, log)'
  BY <1>1 DEF CallInv
<1>4. OrderInv' /\ OverInv'
  BY <1>1 DEF CallInv, OrderInv, OverInv
<1>5. ReadInv'
  BY <1>1 DEF CallInv, ReadInv, Waits, HasBegun, EndsInOrder, Own, Buffer
<1>6. ReplyInv' /\ AloneOutcome' /\ AloneInv'
  BY <1>1 DEF CallInv, ReplyInv, AloneOutcome, AloneInv
<1> QED BY <1>2, <1>3, <1>4, <1>5, <1>6 DEF CallInv

LEMMA InterruptCall == ASSUME CallInv, Interrupt PROVE CallInv'
<1>1. signal' \in {"none", "heeded", "swallowed"}
  BY DEF Interrupt, Signal, CallInv, TypeOK
<1> QED BY <1>1, SignalCall DEF Interrupt

\* The kernel dies: what it sent stays.
LEMMA DieCall == ASSUME CallInv, Die PROVE CallInv'
<1>1. /\ alive' = FALSE /\ requests' = <<>> /\ now' = Nothing
      /\ UNCHANGED <<cell, cpc, status, iopub, shell, signal, made, outcome, lost,
                     head, tail, dropped, pending, log, written>>
  BY DEF Die, client, channels, bufferVars, history
<1>2. TypeOK'
  <2>1. requests' \in Seq(Cells) /\ alive' \in BOOLEAN /\ now' \in Cells \cup {Nothing}
    BY <1>1, EmptySeq
  <2> QED BY <1>1, <2>1 DEF CallInv, TypeOK, BufferTypeOK
<1>3. Keeps(head, tail, dropped, log)'
  BY <1>1 DEF CallInv
<1>4. OrderInv'
  BY <1>1 DEF CallInv, OrderInv, Nothing, TypeOK
<1>5. OverInv'
  BY <1>1 DEF CallInv, OverInv, Nothing, Cells
<1>6. ReadInv'
  <2> SUFFICES ASSUME cpc = "read" PROVE ReadInv'
    BY <1>1 DEF ReadInv
  <2>1. Waits => Waits'
    <3>1. now' # cell
      BY <1>1 DEF CallInv, OrderInv, Nothing
    <3> QED BY <1>1, <3>1 DEF Waits, Own, Buffer
  <2>2. HasBegun => HasBegun'
    BY <1>1 DEF HasBegun, Buffer
  <2> QED BY <1>1, <2>1, <2>2 DEF CallInv, ReadInv, EndsInOrder, Own
<1>7. ReplyInv' /\ AloneOutcome' /\ AloneInv'
  BY <1>1 DEF CallInv, ReplyInv, AloneOutcome, AloneInv
<1> QED BY <1>2, <1>3, <1>4, <1>5, <1>6, <1>7 DEF CallInv

\* The kernel takes the next request.
LEMMA BeginCall == ASSUME CallInv, Begin PROVE CallInv'
<1>1. /\ now = Nothing /\ requests # <<>> /\ now' = Head(requests) /\ requests' = Tail(requests)
      /\ signal' = "none" /\ made' = Blank /\ Nothing = 0
      /\ UNCHANGED <<cell, cpc, status, iopub, shell, alive, outcome, lost,
                     head, tail, dropped, pending, log, written>>
  BY DEF Begin, client, channels, bufferVars, history, Nothing
<1>2. /\ requests \in Seq(Cells) /\ Len(requests) \in Nat \ {0} /\ now' = requests[1] /\ now' \in Cells
      /\ requests' \in Seq(Cells) /\ Len(requests') = Len(requests) - 1
      /\ \A i \in 1..Len(requests') : requests'[i] = requests[i + 1]
      /\ requests' # <<>> => Len(requests') > 0
  <2>1. requests \in Seq(Cells)
    BY DEF CallInv, TypeOK
  <2>2. Len(requests) \in Nat \ {0} /\ now' = requests[1]
    BY <1>1, <2>1, EmptySeq
  <2>3. now' \in Cells /\ requests' \in Seq(Cells) /\ Len(requests') = Len(requests) - 1
        /\ \A i \in 1..Len(requests') : requests'[i] = requests[i + 1]
    BY <1>1, <2>1, HeadTailProperties
  <2> QED BY <2>1, <2>2, <2>3, EmptySeq
<1>3. TypeOK'
  <2>1. made' \in Printed
    BY <1>1, BlankOK
  <2> QED BY <1>1, <1>2, <2>1 DEF CallInv, TypeOK, BufferTypeOK, Printed
<1>4. Keeps(head, tail, dropped, log)'
  BY <1>1 DEF CallInv
<1>5. \A i \in 1..Len(requests') : requests'[i] <= cell /\ now' < requests'[i]
  BY <1>1, <1>2 DEF CallInv, OrderInv
<1>6. now' <= cell /\ now' # Nothing
  BY <1>1, <1>2 DEF CallInv, OrderInv, Cells
<1>7. OrderInv'
  <2>1. \A i, j \in 1..Len(requests') : i < j => requests'[i] < requests'[j]
    BY <1>1, <1>2 DEF CallInv, OrderInv
  <2>2. alive'
    BY <1>1 DEF CallInv, OrderInv
  <2>3. made'.written < MaxChars
    BY <1>1, CapsAssumption DEF Blank
  <2>4. cpc' # "idle" => cell' # 0
    BY <1>1 DEF CallInv, OrderInv
  <2> QED BY <1>1, <1>5, <1>6, <2>1, <2>2, <2>3, <2>4 DEF CallInv, OrderInv
<1>8. OverInv'
  <2>1. ASSUME NEW c \in Cells, outcome[c] # "none"
        PROVE  now' # c /\ \A i \in 1..Len(requests') : requests'[i] # c
    <3>1. \A i \in 1..Len(requests) : requests[i] # c
      BY <2>1 DEF CallInv, OverInv
    <3>2. 1 \in 1..Len(requests) /\ \A i \in 1..Len(requests') : i + 1 \in 1..Len(requests)
      BY <1>2
    <3> QED BY <1>2, <3>1, <3>2
  <2> QED BY <1>1, <2>1 DEF CallInv, OverInv
<1>9. ReadInv'
  <2> SUFFICES ASSUME cpc = "read" PROVE ReadInv'
    BY <1>1 DEF ReadInv
  <2>1. requests[Len(requests)] = cell /\ Waits
    BY <1>1 DEF CallInv, ReadInv, HasBegun
  <2>2. requests' # <<>> => requests'[Len(requests')] = cell
    BY <1>2, <2>1
  <2>3. now' # cell => requests' # <<>>
    <3>1. requests' = <<>> => Len(requests) = 1
      BY <1>2
    <3> QED BY <1>2, <2>1, <3>1
  <2>4. Waits' \/ HasBegun'
    <3>1. CASE now' # cell
      BY <1>1, <2>1, <3>1 DEF Waits, Own, Buffer
    <3>2. CASE now' = cell
      <4>1. requests' = <<>>
        <5>1. SUFFICES ASSUME requests' # <<>> PROVE FALSE
          OBVIOUS
        <5>2. Len(requests) \in 1..Len(requests) /\ 1 \in 1..Len(requests) /\ 1 < Len(requests)
          BY <1>2, <5>1
        <5>3. requests[1] < requests[Len(requests)]
          BY <5>2 DEF CallInv, OrderInv
        <5> QED BY <1>2, <2>1, <3>2, <5>3 DEF Cells
      <4>2. Replays(cell, Blank, iopub, Blank)
        <5>1. iopub \in Seq(Messages) /\ \A i \in 1..Len(iopub) : iopub[i].owner # cell
          BY <2>1 DEF CallInv, TypeOK, Waits, Own
        <5> QED BY <5>1, BlankOK, NothingReplays
      <4>3. Buffer' = Blank
        BY <1>1, <2>1 DEF Waits, Buffer
      <4> QED BY <1>1, <3>2, <4>1, <4>2, <4>3 DEF HasBegun
    <3> QED BY <3>1, <3>2
  <2>5. EndsInOrder'
    BY <1>1 DEF CallInv, ReadInv, EndsInOrder, Own
  <2> QED BY <1>1, <2>2, <2>3, <2>4, <2>5 DEF CallInv, ReadInv
<1>10. ReplyInv'
  BY <1>1 DEF CallInv, ReplyInv
<1>11. AloneOutcome'
  BY <1>1 DEF CallInv, AloneOutcome
<1>12. AloneInv'
  BY <1>1, <1>2 DEF CallInv, AloneInv
<1> QED BY <1>3, <1>4, <1>7, <1>8, <1>9, <1>10, <1>11, <1>12 DEF CallInv

\* Once the cell has ended, the kernel has nothing more to do.
LEMMA EndedAtRest ==
  ASSUME CallInv, cpc = "read", outcome[cell] # "none"
  PROVE  now = Nothing /\ requests = <<>>
<1>1. cell \in Cells /\ cell # 0
  BY BoundsAssumption DEF CallInv, OrderInv, TypeOK, Cells
<1>2. now # cell /\ \A i \in 1..Len(requests) : requests[i] # cell
  BY <1>1 DEF CallInv, OverInv
<1>3. requests = <<>>
  <2>1. SUFFICES ASSUME requests # <<>> PROVE FALSE
    OBVIOUS
  <2>2. Len(requests) \in 1..Len(requests)
    BY <2>1, EmptySeq DEF CallInv, TypeOK
  <2> QED BY <1>2, <2>1, <2>2 DEF CallInv, ReadInv
<1> QED BY <1>2, <1>3 DEF CallInv, ReadInv

\* What a message adds to the channel.
LEMMA Appended ==
  ASSUME CallInv, NEW m \in Messages
  PROVE  /\ Append(iopub, m) \in Seq(Messages) /\ Len(Append(iopub, m)) = Len(iopub) + 1
         /\ \A i \in 1..Len(iopub) : Append(iopub, m)[i] = iopub[i]
         /\ Append(iopub, m)[Len(iopub) + 1] = m
         /\ Len(iopub) \in Nat
BY AppendProperties, LenProperties DEF CallInv, TypeOK

\* The kernel sends a message about its cell: made becomes what the call will
\* make of it, and the cell goes on.
LEMMA SendCall ==
  ASSUME CallInv, NEW m \in Messages, NEW p \in Printed, Send(m, p),
         m.owner = now, m.type \notin {"idle", "error"},
         p = After(now, made, m), p.written < MaxChars
  PROVE  CallInv'
<1>1. /\ now # Nothing /\ iopub' = Append(iopub, m) /\ made' = (IF now \in lost THEN Blank ELSE p)
      /\ UNCHANGED <<cell, cpc, status, shell, alive, requests, now, signal, outcome, lost,
                     head, tail, dropped, pending, log, written>>
  BY DEF Send, Record, client, bufferVars, history
<1>2. /\ iopub' \in Seq(Messages) /\ Len(iopub') = Len(iopub) + 1 /\ Len(iopub) \in Nat
      /\ \A i \in 1..Len(iopub) : iopub'[i] = iopub[i]
      /\ iopub'[Len(iopub) + 1] = m
  BY <1>1, Appended
<1>3. made' \in Printed /\ made'.written < MaxChars
  BY <1>1, BlankOK, CapsAssumption DEF Blank
<1>4. TypeOK'
  BY <1>1, <1>2, <1>3 DEF CallInv, TypeOK, BufferTypeOK, Printed
<1>5. Keeps(head, tail, dropped, log)'
  BY <1>1 DEF CallInv
<1>6. ASSUME NEW i \in 1..Len(iopub') PROVE i \in 1..Len(iopub) \/ (i = Len(iopub) + 1 /\ iopub'[i] = m)
  BY <1>2
<1>7. OrderInv'
  <2>1. \A i \in 1..Len(iopub') : iopub'[i].owner <= cell
    BY <1>1, <1>2, <1>6 DEF CallInv, OrderInv
  <2> QED BY <1>1, <1>3, <2>1 DEF CallInv, OrderInv
<1>8. OverInv'
  <2>1. ASSUME NEW i \in 1..Len(iopub')
        PROVE  /\ iopub'[i].type = "idle" => outcome[iopub'[i].owner] # "none"
               /\ iopub'[i].type = "error" => outcome[iopub'[i].owner] = "error"
    <3>1. CASE i \in 1..Len(iopub)
      BY <1>2, <3>1 DEF CallInv, OverInv
    <3>2. CASE iopub'[i] = m
      BY <3>2
    <3> QED BY <1>6, <3>1, <3>2
  <2> QED BY <1>1, <2>1 DEF CallInv, OverInv
<1>9. ReadInv'
  <2> SUFFICES ASSUME cpc = "read" PROVE ReadInv'
    BY <1>1 DEF ReadInv
  <2>1. Waits => Waits'
    <3> SUFFICES ASSUME Waits PROVE Waits'
      OBVIOUS
    <3>1. m.owner # cell
      BY DEF Waits
    <3>2. ASSUME NEW i \in 1..Len(iopub') PROVE iopub'[i].owner # cell
      BY <1>2, <1>6, <3>1 DEF Waits, Own
    <3> QED BY <1>1, <3>2 DEF Waits, Own, Buffer
  <2>2. HasBegun => HasBegun'
    <3> SUFFICES ASSUME HasBegun PROVE HasBegun'
      OBVIOUS
    <3>1. now = cell /\ made' = p
      BY <1>1 DEF HasBegun, CallInv, OrderInv
    <3>2. Replays(cell, Buffer, iopub', p)
      <4>1. iopub \in Seq(Messages) /\ Replays(cell, Buffer, iopub, made) /\ p = After(cell, made, m)
        BY <3>1 DEF HasBegun, CallInv, TypeOK
      <4> QED BY <1>1, <4>1, MoreReplays
    <3> QED BY <1>1, <3>1, <3>2 DEF HasBegun, Buffer
  <2>3. outcome[cell] = "none"
    BY <1>1, EndedAtRest
  <2>4. EndsInOrder'
    <3>1. ASSUME NEW i \in 1..Len(iopub'), iopub'[i].owner = cell, iopub'[i].type = "idle" PROVE FALSE
      BY <1>2, <1>6, <2>3, <3>1 DEF CallInv, OverInv
    <3> QED BY <1>1, <3>1 DEF EndsInOrder, Own
  <2> QED BY <1>1, <2>1, <2>2, <2>4 DEF CallInv, ReadInv
<1>10. ReplyInv'
  BY <1>1 DEF CallInv, ReplyInv
<1>11. AloneOutcome' /\ AloneInv'
  BY <1>1 DEF CallInv, AloneOutcome, AloneInv
<1> QED BY <1>4, <1>5, <1>7, <1>8, <1>9, <1>10, <1>11 DEF CallInv

LEMMA MadeOK == ASSUME CallInv PROVE made \in Printed
BY DEF CallInv, TypeOK, Printed

\* A message the kernel sends is one.
LEMMA MessageOK ==
  ASSUME CallInv, now # Nothing, NEW type \in {"output", "error", "clear", "clear_wait", "idle"},
         NEW kind \in Streams \cup {Rich}, NEW n \in Sizes \cup {1}
  PROVE  /\ Message(type, kind, n) \in Messages
         /\ Message(type, kind, n).owner = now /\ Message(type, kind, n).type = type
         /\ Message(type, kind, n).kind = kind /\ Message(type, kind, n).n = n
BY DEF CallInv, TypeOK, Message, Messages

LEMMA PrintOutCall ==
  ASSUME CallInv, NEW kind \in Streams \cup {Rich}, NEW n \in Sizes \cup {1}, PrintOut(kind, n)
  PROVE  CallInv'
<1> DEFINE m == Message("output", kind, n)
           p == Extended(made, kind, n)
<1>1. Send(m, p) /\ p.written < MaxChars /\ now # Nothing
  BY DEF PrintOut, Send
<1>2. m \in Messages /\ m.owner = now /\ m.type = "output" /\ m.kind = kind /\ m.n = n
  BY <1>1, MessageOK
<1>3. p \in Printed
  <2>1. p.written \in Nat /\ n \in Nat
    BY MadeOK, CapsAssumption DEF Printed, Extended
  <2> QED BY <1>1, <2>1, MadeOK, CapsAssumption, ExtendedOK
<1> HIDE DEF m
<1>4. p = After(now, made, m)
  BY <1>2 DEF After
<1> HIDE DEF p
<1> QED BY <1>1, <1>2, <1>3, <1>4, SendCall

LEMMA ClearCall == ASSUME CallInv, ClearOutput PROVE CallInv'
<1>1. CASE Send(Message("clear", Rich, 1), Blank)
  <2> DEFINE m == Message("clear", Rich, 1)
  <2>1. m \in Messages /\ m.owner = now /\ m.type = "clear"
    BY <1>1, MessageOK DEF Send
  <2>2. Send(m, Blank)
    BY <1>1
  <2> HIDE DEF m
  <2>3. Blank = After(now, made, m) /\ Blank.written < MaxChars
    BY <2>1, CapsAssumption DEF After, Blank
  <2> QED BY <2>1, <2>2, <2>3, BlankOK, SendCall
<1>2. CASE ~made.pending /\ Send(Message("clear_wait", Rich, 1), [made EXCEPT !.pending = TRUE])
  <2> DEFINE m == Message("clear_wait", Rich, 1)
             p == [made EXCEPT !.pending = TRUE]
  <2>1. m \in Messages /\ m.owner = now /\ m.type = "clear_wait"
    BY <1>2, MessageOK DEF Send
  <2>2. Send(m, p)
    BY <1>2
  <2> HIDE DEF m
  <2>3. p = After(now, made, m)
    BY <2>1 DEF After
  <2>4. p \in Printed /\ p.written = made.written
    BY MadeOK DEF Printed
  <2> HIDE DEF p
  <2>5. p.written < MaxChars
    BY <2>2, <2>4 DEF Send, CallInv, OrderInv
  <2> QED BY <2>1, <2>2, <2>3, <2>4, <2>5, SendCall
<1> QED BY <1>1, <1>2 DEF ClearOutput

\* What the end of a cell adds to the channel: an error, perhaps, and the idle
\* status.
LEMMA EndSends ==
  ASSUME CallInv, NEW how \in {"ok", "error"}, End(how)
  PROVE  \E m \in Messages, e \in Messages :
           /\ m.owner = now /\ m.type = "idle"
           /\ e.owner = now /\ e.type = "error" /\ e.kind = Rich /\ e.n = 1
           /\ iopub' = IF how = "error" THEN Append(Append(iopub, e), m) ELSE Append(iopub, m)
<1> DEFINE m == Message("idle", Rich, 1)
           e == Message("error", Rich, 1)
<1>1. iopub' = iopub \o (IF how = "error" THEN <<e>> ELSE <<>>) \o <<m>> /\ now # Nothing
  BY DEF End
<1>2. /\ m \in Messages /\ m.owner = now /\ m.type = "idle"
      /\ e \in Messages /\ e.owner = now /\ e.type = "error" /\ e.kind = Rich /\ e.n = 1
  <2>1. now # Nothing /\ Rich \in Streams \cup {Rich} /\ 1 \in Sizes \cup {1}
    BY <1>1
  <2>2. m \in Messages /\ m.owner = now /\ m.type = "idle"
    BY <2>1, MessageOK
  <2>3. e \in Messages /\ e.owner = now /\ e.type = "error" /\ e.kind = Rich /\ e.n = 1
    BY <2>1, MessageOK
  <2> QED BY <2>2, <2>3
<1> HIDE DEF m, e
<1>3. iopub \in Seq(Messages)
  BY DEF CallInv, TypeOK
<1>4. CASE how = "error"
  <2>1. Append(iopub, e) = iopub \o <<e>> /\ Append(iopub, e) \in Seq(Messages)
    BY <1>2, <1>3, AppendIsConcat, AppendProperties
  <2>2. iopub' = Append(iopub, e) \o <<m>>
    BY <1>1, <1>4, <2>1
  <2>3. iopub' = Append(Append(iopub, e), m)
    BY <1>2, <2>1, <2>2, AppendIsConcat
  <2> QED BY <1>2, <1>4, <2>3
<1>5. CASE how # "error"
  <2>1. iopub' = iopub \o <<m>>
    BY <1>1, <1>3, <1>5, ConcatEmptySeq
  <2>2. iopub' = Append(iopub, m)
    BY <1>2, <1>3, <2>1, AppendIsConcat
  <2> QED BY <1>2, <1>5, <2>2
<1> QED BY <1>4, <1>5

\* The same, message by message.
LEMMA EndChannel ==
  ASSUME CallInv, NEW how \in {"ok", "error"}, End(how)
  PROVE  /\ iopub' \in Seq(Messages) /\ Len(iopub) \in Nat
         /\ Len(iopub') = Len(iopub) + (IF how = "error" THEN 2 ELSE 1)
         /\ \A i \in 1..Len(iopub) : iopub'[i] = iopub[i]
         /\ \A i \in 1..Len(iopub') : i > Len(iopub) =>
              /\ iopub'[i].owner = now
              /\ iopub'[i].type = IF i = Len(iopub') THEN "idle" ELSE "error"
         /\ Replays(now, Buffer, iopub, made) =>
              Replays(now, Buffer, iopub', IF how = "error" THEN Extended(made, Rich, 1) ELSE made)
         /\ now # cell /\ (\A i \in 1..Len(iopub) : ~Own(i)) =>
              \A i \in 1..Len(iopub') : iopub'[i].owner # cell
<1>1. PICK m \in Messages, e \in Messages :
        /\ m.owner = now /\ m.type = "idle"
        /\ e.owner = now /\ e.type = "error" /\ e.kind = Rich /\ e.n = 1
        /\ iopub' = IF how = "error" THEN Append(Append(iopub, e), m) ELSE Append(iopub, m)
  BY EndSends
<1> DEFINE q == IF how = "error" THEN Append(iopub, e) ELSE iopub
           r == IF how = "error" THEN Extended(made, Rich, 1) ELSE made
<1>2. /\ q \in Seq(Messages) /\ Len(iopub) \in Nat /\ Len(q) \in Nat
      /\ Len(q) = Len(iopub) + (IF how = "error" THEN 1 ELSE 0)
      /\ \A i \in 1..Len(iopub) : q[i] = iopub[i]
      /\ how = "error" => q[Len(iopub) + 1] = e
  <2>1. Len(iopub) \in Nat /\ iopub \in Seq(Messages)
    BY LenProperties DEF CallInv, TypeOK
  <2>2. CASE how = "error"
    BY <2>1, <2>2, Appended
  <2>3. CASE how # "error"
    BY <2>1, <2>3
  <2> QED BY <2>2, <2>3
<1>3. iopub' = Append(q, m)
  BY <1>1
<1>4. r \in Printed /\ (Replays(now, Buffer, iopub, made) => Replays(now, Buffer, q, r))
  <2>1. CASE how = "error"
    <3>1. After(now, made, e) = Extended(made, Rich, 1)
      BY <1>1 DEF After
    <3>2. made \in Printed /\ Extended(made, Rich, 1) \in Printed /\ iopub \in Seq(Messages)
      BY MadeOK, RoomForError DEF CallInv, OrderInv, End, TypeOK
    <3>3. ASSUME Replays(now, Buffer, iopub, made)
          PROVE  Replays(now, Buffer, Append(iopub, e), Extended(made, Rich, 1))
      BY <1>1, <3>1, <3>2, <3>3, MoreReplays
    <3> QED BY <2>1, <3>2, <3>3
  <2>2. CASE how # "error"
    BY <2>2, MadeOK
  <2> QED BY <2>1, <2>2
<1> HIDE DEF q, r
<1>5. /\ iopub' \in Seq(Messages) /\ Len(iopub') = Len(q) + 1
      /\ \A i \in 1..Len(q) : iopub'[i] = q[i]
      /\ iopub'[Len(q) + 1] = m
  BY <1>2, <1>3, AppendProperties
<1>6. Replays(now, Buffer, iopub, made) => Replays(now, Buffer, iopub', r)
  <2>1. After(now, r, m) = r
    BY <1>1 DEF After
  <2>2. ASSUME Replays(now, Buffer, q, r) PROVE Replays(now, Buffer, Append(q, m), r)
    BY <1>1, <1>2, <1>4, <2>1, <2>2, MoreReplays
  <2> QED BY <1>3, <1>4, <2>2
<1>7. \A i \in 1..Len(iopub) : i \in 1..Len(q) /\ iopub'[i] = iopub[i]
  BY <1>2, <1>5
<1>8. ASSUME NEW i \in 1..Len(iopub'), i > Len(iopub)
      PROVE  /\ iopub'[i].owner = now
             /\ iopub'[i].type = IF i = Len(iopub') THEN "idle" ELSE "error"
  <2>1. CASE i = Len(q) + 1
    BY <1>1, <1>5, <2>1
  <2>2. CASE i # Len(q) + 1
    <3>1. how = "error" /\ i = Len(iopub) + 1 /\ i \in 1..Len(q) /\ i # Len(iopub')
      BY <1>2, <1>5, <1>8, <2>2
    <3>2. iopub'[i] = e
      BY <1>2, <1>5, <3>1
    <3> QED BY <1>1, <3>1, <3>2
  <2> QED BY <2>1, <2>2
<1>9. ASSUME now # cell, \A i \in 1..Len(iopub) : ~Own(i), NEW i \in 1..Len(iopub')
      PROVE  iopub'[i].owner # cell
  <2>1. CASE i \in 1..Len(iopub)
    BY <1>7, <1>9, <2>1 DEF Own
  <2>2. CASE i \notin 1..Len(iopub)
    <3>1. i > Len(iopub)
      BY <1>2, <1>5, <2>2
    <3> QED BY <1>8, <1>9, <3>1
  <2> QED BY <2>1, <2>2
<1>10. Len(iopub') = Len(iopub) + (IF how = "error" THEN 2 ELSE 1)
  BY <1>2, <1>5
<1> QED BY <1>2, <1>5, <1>6, <1>7, <1>8, <1>9, <1>10 DEF r

\* A cell ends in the kernel.
LEMMA EndCall == ASSUME CallInv, NEW how \in {"ok", "error"}, End(how) PROVE CallInv'
<1> DEFINE p == IF how = "error" THEN Extended(made, Rich, 1) ELSE made
<1>1. /\ now # Nothing /\ made' = (IF now \in lost THEN Blank ELSE p)
      /\ shell' = Append(shell, [owner |-> now, status |-> how])
      /\ outcome' = [outcome EXCEPT ![now] = how] /\ now' = Nothing /\ Nothing = 0
      /\ UNCHANGED <<cell, cpc, status, alive, requests, signal, lost,
                     head, tail, dropped, pending, log, written>>
  BY DEF End, Record, client, bufferVars, history, Nothing
<1>2. /\ iopub' \in Seq(Messages) /\ Len(iopub) \in Nat
      /\ Len(iopub') = Len(iopub) + (IF how = "error" THEN 2 ELSE 1)
      /\ \A i \in 1..Len(iopub) : iopub'[i] = iopub[i]
      /\ \A i \in 1..Len(iopub') : i > Len(iopub) =>
           /\ iopub'[i].owner = now
           /\ iopub'[i].type = IF i = Len(iopub') THEN "idle" ELSE "error"
      /\ Replays(now, Buffer, iopub, made) => Replays(now, Buffer, iopub', p)
      /\ now # cell /\ (\A i \in 1..Len(iopub) : ~Own(i)) =>
           \A i \in 1..Len(iopub') : iopub'[i].owner # cell
  BY EndChannel
<1> HIDE DEF p
<1>3. made' \in Printed
  <2>1. p \in Printed
    BY <1>1, MadeOK, RoomForError DEF p, CallInv, OrderInv
  <2> QED BY <1>1, <2>1, BlankOK
<1>4. /\ now \in Cells /\ outcome' \in [Cells -> {"none", "ok", "error"}] /\ outcome'[now] = how
      /\ \A c \in Cells : c # now => outcome'[c] = outcome[c]
  BY <1>1 DEF CallInv, TypeOK
<1>5. outcome[now] = "none"
  BY <1>4 DEF CallInv, OverInv
<1>6. TypeOK'
  <2>1. shell' \in Seq([owner: Cells, status: {"ok", "error"}])
    BY <1>1, <1>4, AppendProperties DEF CallInv, TypeOK
  <2> QED BY <1>1, <1>2, <1>3, <1>4, <2>1 DEF CallInv, TypeOK, BufferTypeOK, Printed
<1>7. Keeps(head, tail, dropped, log)'
  BY <1>1 DEF CallInv
<1>8. ASSUME NEW i \in 1..Len(iopub')
      PROVE  \/ i \in 1..Len(iopub)
             \/ i > Len(iopub) /\ iopub'[i].owner = now
                /\ (iopub'[i].type = "idle" \/ (iopub'[i].type = "error" /\ how = "error"))
  <2>1. CASE i <= Len(iopub)
    BY <1>2, <2>1
  <2>2. CASE i > Len(iopub)
    <3>1. iopub'[i].owner = now /\ iopub'[i].type = IF i = Len(iopub') THEN "idle" ELSE "error"
      BY <1>2, <2>2
    <3>2. i # Len(iopub') => how = "error"
      BY <1>2, <2>2
    <3> QED BY <2>2, <3>1, <3>2
  <2> QED BY <1>2, <2>1, <2>2
<1>9. OrderInv'
  <2>1. \A i \in 1..Len(iopub') : iopub'[i].owner <= cell
    BY <1>2, <1>8 DEF CallInv, OrderInv
  <2>2. 0 <= cell
    BY BoundsAssumption DEF CallInv, TypeOK
  <2>3. \A i \in 1..Len(requests) : 0 < requests[i]
    <3>1. requests \in Seq(1..MaxCells)
      BY DEF CallInv, TypeOK, Cells
    <3>2. \A i \in 1..Len(requests) : requests[i] \in 1..MaxCells
      BY <3>1, ElementOfSeq
    <3> QED BY <3>2, BoundsAssumption
  <2> QED BY <1>1, <2>1, <2>2, <2>3 DEF CallInv, OrderInv
<1>10. OverInv'
  <2>1. ASSUME NEW i \in 1..Len(iopub')
        PROVE  /\ iopub'[i].type = "idle" => outcome'[iopub'[i].owner] # "none"
               /\ iopub'[i].type = "error" => outcome'[iopub'[i].owner] = "error"
    <3>1. CASE i \in 1..Len(iopub)
      <4>1. iopub'[i] = iopub[i] /\ iopub[i].owner \in Cells
        <5>1. iopub \in Seq(Messages)
          BY DEF CallInv, TypeOK
        <5>2. iopub[i] \in Messages
          BY <3>1, <5>1, ElementOfSeq
        <5>3. iopub[i].owner \in Cells
          BY <5>2 DEF Messages
        <5> QED BY <1>2, <3>1, <5>3
      <4> QED BY <1>4, <1>5, <3>1, <4>1 DEF CallInv, OverInv
    <3>2. CASE i \notin 1..Len(iopub)
      BY <1>4, <1>8, <3>2
    <3> QED BY <3>1, <3>2
  <2>2. ASSUME NEW c \in Cells, c > cell PROVE outcome'[c] = "none"
    BY <1>4, <2>2 DEF CallInv, OverInv, OrderInv, TypeOK, Cells
  <2>3. ASSUME NEW c \in Cells, outcome'[c] # "none"
        PROVE  now' # c /\ \A i \in 1..Len(requests) : requests[i] # c
    <3>1. now' # c
      BY <1>1 DEF Cells
    <3>2. CASE c = now
      BY <1>4, <3>1, <3>2 DEF CallInv, OrderInv, TypeOK, Cells
    <3>3. CASE c # now
      BY <1>4, <2>3, <3>1, <3>3 DEF CallInv, OverInv
    <3> QED BY <3>2, <3>3
  <2> QED BY <1>1, <2>1, <2>2, <2>3 DEF OverInv
<1>11. ReadInv'
  <2> SUFFICES ASSUME cpc = "read" PROVE ReadInv'
    BY <1>1 DEF ReadInv
  <2>1. cell \in Cells /\ (now = cell \/ outcome'[cell] = outcome[cell])
    BY <1>4, BoundsAssumption DEF CallInv, OrderInv, TypeOK, Cells
  <2>2. outcome[cell] = "none"
    BY <1>1, EndedAtRest
  <2>3. status = "ok"
    BY <2>2 DEF CallInv, ReadInv
  <2>4. ASSUME NEW i \in 1..Len(iopub), iopub[i].owner = cell PROVE iopub[i].type \notin {"idle", "error"}
    BY <2>2, <2>4 DEF CallInv, OverInv
  <2>5. Waits' \/ HasBegun'
    <3>1. CASE Waits
      <4>1. \A i \in 1..Len(iopub') : iopub'[i].owner # cell
        BY <1>2, <3>1 DEF Waits
      <4>2. now' # cell
        BY <1>1, <2>1 DEF Cells
      <4> QED BY <1>1, <3>1, <4>1, <4>2 DEF Waits, Own, Buffer
    <3>2. CASE HasBegun
      <4>1. now = cell /\ made' = p
        BY <1>1, <3>2 DEF HasBegun, CallInv, OrderInv
      <4>2. Replays(cell, Buffer, iopub', p)
        BY <1>2, <3>2, <4>1 DEF HasBegun
      <4> QED BY <1>1, <3>2, <4>1, <4>2 DEF HasBegun, Buffer
    <3> QED BY <3>1, <3>2 DEF CallInv, ReadInv
  <2>6. EndsInOrder'
    <3> SUFFICES ASSUME NEW i \in 1..Len(iopub'), iopub'[i].owner = cell, iopub'[i].type = "idle"
                 PROVE  /\ i = Len(iopub')
                        /\ outcome'[cell] = "error" =>
                             i > 1 /\ iopub'[i - 1].owner = cell /\ iopub'[i - 1].type = "error"
      BY <1>1 DEF EndsInOrder, Own
    <3>1. i > Len(iopub) /\ now = cell
      BY <1>2, <1>8, <2>4
    <3>2. i = Len(iopub')
      BY <1>2, <3>1
    <3>3. ASSUME outcome'[cell] = "error"
          PROVE  i > 1 /\ iopub'[i - 1].owner = cell /\ iopub'[i - 1].type = "error"
      <4>1. how = "error"
        BY <1>4, <3>1, <3>3
      <4>2. i - 1 \in 1..Len(iopub') /\ i - 1 > Len(iopub) /\ i - 1 # Len(iopub') /\ i > 1
        BY <1>2, <3>2, <4>1
      <4> QED BY <1>2, <3>1, <4>2
    <3> QED BY <3>2, <3>3
  <2>7. requests' # <<>> => requests'[Len(requests')] = cell
    BY <1>1 DEF CallInv, ReadInv
  <2> QED BY <1>1, <2>3, <2>5, <2>6, <2>7 DEF ReadInv
<1>12. ReplyInv'
  BY <1>1 DEF CallInv, ReplyInv
<1>13. AloneOutcome'
  <2> SUFFICES ASSUME cpc = "idle", status \in {"ok", "error"} PROVE AloneOutcome'
    BY <1>1 DEF AloneOutcome
  <2>1. cell \in Cells
    BY BoundsAssumption DEF CallInv, OrderInv, TypeOK, Cells
  <2>2. outcome[cell] # "none" => outcome'[cell] = outcome[cell]
    BY <1>4, <1>5, <2>1
  <2> QED BY <1>1, <2>2 DEF CallInv, AloneOutcome
<1>14. AloneInv'
  <2> SUFFICES ASSUME lost = {} PROVE AloneInv'
    BY <1>1 DEF AloneInv
  <2>1. now = cell /\ shell = <<>> /\ cpc # "idle"
    BY <1>1 DEF CallInv, AloneInv
  <2>2. requests = <<>>
    <3>1. SUFFICES ASSUME requests # <<>> PROVE FALSE
      OBVIOUS
    <3>2. 1 \in 1..Len(requests)
      BY <3>1, EmptySeq DEF CallInv, TypeOK
    <3>3. requests[1] = cell /\ cell < requests[1] /\ cell \in Nat
      BY <2>1, <3>2 DEF CallInv, AloneInv, OrderInv, TypeOK
    <3> QED BY <3>3
  <2>3. shell' = <<[owner |-> now, status |-> how]>>
    BY <1>1, <2>1
  <2>4. Len(shell') = 1 /\ shell'[1].status = outcome'[cell]
    BY <1>4, <2>1, <2>3
  <2>5. \A i \in 1..Len(shell') : shell'[i].status = outcome'[cell]
    BY <2>4
  <2> QED BY <1>1, <2>1, <2>2, <2>4, <2>5 DEF CallInv, AloneInv
<1> QED BY <1>6, <1>7, <1>9, <1>10, <1>11, <1>12, <1>13, <1>14 DEF CallInv

----------------------------------------------------------------------------
(* The steps of the client.                                                *)

\* execute() begins: nothing of the new cell is there yet.
LEMMA CallCall == ASSUME CallInv, Call PROVE CallInv'
<1>1. /\ cpc = "idle" /\ cell < MaxCells /\ cell' = cell + 1 /\ cpc' = "read" /\ status' = "ok"
      /\ alive' = TRUE
      /\ head' = <<>> /\ tail' = <<>> /\ dropped' = 0 /\ pending' = FALSE
      /\ log' = <<>> /\ written' = 0
      /\ UNCHANGED <<now, signal, made, outcome>>
  BY DEF Call, Clear, running
<1>2. /\ requests' = <<cell'>> \/ requests' = Append(requests, cell')
      /\ alive => requests' = Append(requests, cell')
                   /\ iopub' = iopub /\ shell' = shell /\ lost' = lost
      /\ ~alive => requests' = <<cell'>> /\ iopub' = <<>> /\ shell' = <<>> /\ lost' = {}
  BY DEF Call, channels
<1>3. cell \in Nat /\ cell' \in Cells /\ cell' \in 0..MaxCells /\ now <= cell /\ now \in Nat
      /\ cell' \in Nat
  BY <1>1, BoundsAssumption DEF CallInv, OrderInv, TypeOK, Cells, Nothing
<1>4. /\ requests' \in Seq(Cells) /\ requests' # <<>> /\ requests'[Len(requests')] = cell'
      /\ \A i \in 1..Len(requests') : requests'[i] = cell' \/ (i \in 1..Len(requests) /\ requests'[i] = requests[i])
      /\ \A i \in 1..Len(requests') : \A j \in 1..Len(requests') : i < j =>
           i \in 1..Len(requests) /\ requests'[i] = requests[i]
           /\ (requests'[j] = cell' \/ (j \in 1..Len(requests) /\ requests'[j] = requests[j]))
  <2>1. requests \in Seq(Cells) /\ Len(requests) \in Nat
    BY LenProperties DEF CallInv, TypeOK
  <2>2. CASE requests' = <<cell'>>
    <3>1. Len(requests') = 1 /\ requests'[1] = cell' /\ requests' \in Seq(Cells) /\ requests' # <<>>
      BY <1>3, <2>2
    <3> QED BY <3>1
  <2>3. CASE requests' = Append(requests, cell')
    <3>1. /\ requests' \in Seq(Cells) /\ Len(requests') = Len(requests) + 1
          /\ \A i \in 1..Len(requests) : requests'[i] = requests[i]
          /\ requests'[Len(requests) + 1] = cell'
      BY <1>3, <2>1, <2>3, AppendProperties
    <3>2. requests' # <<>>
      BY <2>1, <3>1, EmptySeq
    <3>3. \A i \in 1..Len(requests') : i \in 1..Len(requests) \/ i = Len(requests) + 1
      BY <2>1, <3>1
    <3>4. \A i \in 1..Len(requests') : \A j \in 1..Len(requests') : i < j => i \in 1..Len(requests)
      BY <2>1, <3>1
    <3> QED BY <3>1, <3>2, <3>3, <3>4
  <2> QED BY <1>2, <2>2, <2>3
<1>5. \A i \in 1..Len(requests) : requests[i] <= cell /\ requests[i] \in Nat
  <2>1. requests \in Seq(Cells)
    BY DEF CallInv, TypeOK
  <2>2. \A i \in 1..Len(requests) : requests[i] \in Cells
    BY <2>1, ElementOfSeq
  <2> QED BY <2>2 DEF CallInv, OrderInv, Cells
<1>6. \A i \in 1..Len(iopub') : i \in 1..Len(iopub) /\ iopub'[i] = iopub[i]
  <2>1. CASE alive
    BY <1>2, <2>1
  <2>2. CASE ~alive
    BY <1>2, <2>2
  <2> QED BY <2>1, <2>2
<1>7. \A i \in 1..Len(iopub') : iopub'[i].owner <= cell /\ iopub'[i].owner \in Nat
  <2>1. iopub \in Seq(Messages)
    BY DEF CallInv, TypeOK
  <2>2. \A i \in 1..Len(iopub) : iopub[i] \in Messages
    BY <2>1, ElementOfSeq
  <2>3. \A i \in 1..Len(iopub) : iopub[i].owner \in Nat
    BY <2>2 DEF Messages, Cells
  <2> QED BY <1>6, <2>3 DEF CallInv, OrderInv
<1>8. lost' \subseteq lost
  BY <1>2
<1>9. TypeOK'
  <2>1. iopub' \in Seq(Messages) /\ shell' \in Seq([owner: Cells, status: {"ok", "error"}])
    <3>1. CASE alive
      BY <1>2, <3>1 DEF CallInv, TypeOK
    <3>2. CASE ~alive
      <4>1. iopub' = <<>> /\ shell' = <<>>
        BY <1>2, <3>2
      <4> QED BY <4>1, EmptySeq
    <3> QED BY <3>1, <3>2
  <2>2. BufferTypeOK'
    <3>1. Keeps(head', tail', dropped', log')
      BY <1>1, EmptyKeeps
    <3>2. written' \in 0..MaxChars
      BY <1>1, CapsAssumption
    <3> QED BY <1>1, <3>1, <3>2 DEF Keeps, BufferTypeOK
  <2> QED BY <1>1, <1>3, <1>4, <1>8, <2>1, <2>2 DEF CallInv, TypeOK
<1>10. Keeps(head, tail, dropped, log)'
  BY <1>1, EmptyKeeps
<1>11. OrderInv'
  <2>1. \A i, j \in 1..Len(requests') : i < j => requests'[i] < requests'[j]
    <3> SUFFICES ASSUME NEW i \in 1..Len(requests'), NEW j \in 1..Len(requests'), i < j
                 PROVE  requests'[i] < requests'[j]
      OBVIOUS
    <3>1. i \in 1..Len(requests) /\ requests'[i] = requests[i]
          /\ (requests'[j] = cell' \/ (j \in 1..Len(requests) /\ requests'[j] = requests[j]))
      BY <1>4
    <3>2. CASE requests'[j] = cell'
      BY <1>1, <1>3, <1>5, <3>1, <3>2
    <3>3. CASE j \in 1..Len(requests) /\ requests'[j] = requests[j]
      BY <3>1, <3>3 DEF CallInv, OrderInv
    <3> QED BY <3>1, <3>2, <3>3
  <2>2. \A i \in 1..Len(requests') : requests'[i] <= cell' /\ now < requests'[i]
    BY <1>1, <1>3, <1>4, <1>5 DEF CallInv, OrderInv
  <2>3. now' <= cell' /\ cell' # 0
    BY <1>1, <1>3
  <2>4. \A i \in 1..Len(iopub') : iopub'[i].owner <= cell'
    BY <1>1, <1>3, <1>7
  <2>5. \A c \in lost' : c <= cell' /\ c # cell'
    <3>1. \A c \in lost : c <= cell /\ c \in Nat
      BY DEF CallInv, OrderInv, TypeOK, Cells
    <3>2. \A c \in lost : c <= cell' /\ c # cell'
      BY <1>1, <1>3, <3>1
    <3> QED BY <1>8, <3>2
  <2> QED BY <1>1, <2>1, <2>2, <2>3, <2>4, <2>5 DEF CallInv, OrderInv
<1>12. outcome[cell'] = "none"
  BY <1>1, <1>3 DEF CallInv, OverInv
<1>13. OverInv'
  <2>1. ASSUME NEW c \in Cells, c > cell' PROVE outcome[c] = "none"
    <3>1. c > cell
      BY <1>1, <1>3, <2>1 DEF Cells
    <3> QED BY <3>1 DEF CallInv, OverInv
  <2>2. ASSUME NEW c \in Cells, outcome[c] # "none"
        PROVE  now # c /\ \A i \in 1..Len(requests') : requests'[i] # c
    BY <1>4, <1>12, <2>2 DEF CallInv, OverInv
  <2>3. \A i \in 1..Len(iopub') :
          /\ iopub'[i].type = "idle" => outcome[iopub'[i].owner] # "none"
          /\ iopub'[i].type = "error" => outcome[iopub'[i].owner] = "error"
    BY <1>6 DEF CallInv, OverInv
  <2> QED BY <1>1, <2>1, <2>2, <2>3 DEF OverInv
<1>14. ReadInv'
  <2>1. \A i \in 1..Len(iopub') : iopub'[i].owner # cell'
    BY <1>1, <1>3, <1>7
  <2>2. now # cell'
    BY <1>1, <1>3
  <2>3. Waits'
    BY <1>1, <2>1, <2>2 DEF Waits, Own, Buffer, Blank
  <2> QED BY <1>1, <1>4, <2>1, <2>3 DEF ReadInv, EndsInOrder, Own
<1>15. ReplyInv' /\ AloneOutcome'
  BY <1>1 DEF ReplyInv, AloneOutcome
<1>16. AloneInv'
  <2> SUFFICES ASSUME lost' = {} PROVE AloneInv'
    BY DEF AloneInv
  <2>1. now = Nothing /\ shell' = <<>>
    <3>1. CASE alive
      BY <1>1, <1>2, <3>1 DEF CallInv, AloneInv
    <3>2. CASE ~alive
      BY <1>2, <3>2 DEF CallInv, OrderInv
    <3> QED BY <3>1, <3>2
  <2>2. \A i \in 1..Len(requests') : requests'[i] = cell'
    <3>1. CASE alive
      <4>1. requests = <<>>
        BY <1>1, <1>2, <3>1 DEF CallInv, AloneInv
      <4>2. ~\E i \in 1..Len(requests) : TRUE
        BY <4>1
      <4> QED BY <1>4, <4>2
    <3>2. CASE ~alive
      <4>1. requests' = <<cell'>>
        BY <1>2, <3>2
      <4>2. Len(requests') = 1 /\ requests'[1] = cell'
        BY <4>1
      <4> QED BY <4>2
    <3> QED BY <3>1, <3>2
  <2>3. Len(shell') <= 1 /\ ~\E i \in 1..Len(shell') : TRUE
    BY <2>1
  <2> QED BY <1>1, <2>1, <2>2, <2>3 DEF AloneInv
<1> QED BY <1>9, <1>10, <1>11, <1>13, <1>14, <1>15, <1>16 DEF CallInv

\* The kernel is replaced between two calls.
LEMMA RestartCall == ASSUME CallInv, Restart PROVE CallInv'
<1>1. /\ cpc = "idle" /\ alive' \in BOOLEAN /\ iopub' = <<>> /\ shell' = <<>> /\ requests' = <<>>
      /\ now' = Nothing /\ status' = "none" /\ lost' = {} /\ Nothing = 0
      /\ UNCHANGED <<cell, cpc, signal, made, outcome, head, tail, dropped, pending, log, written>>
  BY DEF Restart, bufferVars, history, Nothing
<1>2. ~(\E i \in 1..Len(requests') : TRUE) /\ ~(\E i \in 1..Len(iopub') : TRUE)
      /\ ~(\E i \in 1..Len(shell') : TRUE) /\ Len(shell') = 0
  BY <1>1
<1>3. TypeOK'
  <2>1. iopub' \in Seq(Messages) /\ shell' \in Seq([owner: Cells, status: {"ok", "error"}])
        /\ requests' \in Seq(Cells)
    BY <1>1, EmptySeq
  <2> QED BY <1>1, <2>1 DEF CallInv, TypeOK, BufferTypeOK
<1>4. Keeps(head, tail, dropped, log)'
  BY <1>1 DEF CallInv
<1>5. OrderInv'
  <2>1. 0 <= cell
    BY BoundsAssumption DEF CallInv, TypeOK
  <2> QED BY <1>1, <1>2, <2>1 DEF OrderInv
<1>6. OverInv'
  BY <1>1, <1>2 DEF CallInv, OverInv, Cells
<1>7. ReadInv' /\ ReplyInv' /\ AloneOutcome'
  BY <1>1 DEF ReadInv, ReplyInv, AloneOutcome
<1>8. AloneInv'
  BY <1>1, <1>2 DEF AloneInv
<1> QED BY <1>3, <1>4, <1>5, <1>6, <1>7, <1>8 DEF CallInv

\* The call gives up on its cell.
LEMMA SilenceCall == ASSUME CallInv, Silence PROVE CallInv'
<1>1. /\ cpc = "read" /\ cpc' = "drain" /\ status' = "timeout" /\ lost' = lost \cup {cell}
      /\ made' = Blank
      /\ UNCHANGED <<cell, iopub, shell, alive, requests, now, outcome,
                     head, tail, dropped, pending, log, written>>
  BY DEF Silence, channels, bufferVars, history
<1>2. signal' \in {"none", "heeded", "swallowed"}
  BY DEF Silence, Signal, CallInv, TypeOK
<1>3. cell \in Cells /\ cell # 0 /\ cell \in Nat
  BY <1>1, BoundsAssumption DEF CallInv, OrderInv, TypeOK, Cells
<1>4. TypeOK'
  BY <1>1, <1>2, <1>3, BlankOK DEF CallInv, TypeOK, BufferTypeOK, Printed
<1>5. Keeps(head, tail, dropped, log)'
  BY <1>1 DEF CallInv
<1>6. OrderInv'
  <2>1. \A c \in lost' : c <= cell
    BY <1>1, <1>3 DEF CallInv, OrderInv
  <2>2. made'.written < MaxChars
    BY <1>1, CapsAssumption DEF Blank
  <2> QED BY <1>1, <1>3, <2>1, <2>2 DEF CallInv, OrderInv
<1>7. OverInv'
  BY <1>1 DEF CallInv, OverInv
<1>8. ReadInv' /\ ReplyInv' /\ AloneOutcome' /\ AloneInv'
  BY <1>1 DEF ReadInv, ReplyInv, AloneOutcome, AloneInv
<1> QED BY <1>4, <1>5, <1>6, <1>7, <1>8 DEF CallInv

\* It stops waiting for the end of that cell.
LEMMA DrainEndsCall == ASSUME CallInv, DrainEnds PROVE CallInv'
<1>1. /\ cpc = "drain" /\ cpc' = "reply"
      /\ UNCHANGED <<cell, status, iopub, shell, alive, requests, now, signal, made, outcome, lost,
                     head, tail, dropped, pending, log, written>>
  BY DEF DrainEnds, channels, kernel, running, bufferVars, history
<1>2. TypeOK'
  BY <1>1 DEF CallInv, TypeOK, BufferTypeOK
<1>3. Keeps(head, tail, dropped, log)' /\ OrderInv' /\ OverInv'
  BY <1>1 DEF CallInv, OrderInv, OverInv
<1>4. ReadInv' /\ ReplyInv' /\ AloneOutcome' /\ AloneInv'
  BY <1>1 DEF CallInv, ReadInv, ReplyInv, AloneOutcome, AloneInv
<1> QED BY <1>2, <1>3, <1>4 DEF CallInv

\* A reply ends the call.  With no cell given up on it is the cell's own.
LEMMA ReplyCall == ASSUME CallInv, Reply PROVE CallInv'
<1>1. /\ cpc = "reply" /\ cpc' = "idle"
      /\ UNCHANGED <<cell, iopub, alive, requests, now, signal, made, outcome, lost,
                     head, tail, dropped, pending, log, written>>
  BY DEF Reply, kernel, running, bufferVars, history
<1>2. /\ \/ shell # <<>> /\ shell' = Tail(shell) /\ status' = StatusAfter(status, Head(shell))
         \/ shell = <<>> /\ shell' = shell /\ status' = status
      /\ shell \in Seq([owner: Cells, status: {"ok", "error"}]) /\ Len(shell) \in Nat
  BY LenProperties DEF Reply, NoReply, CallInv, TypeOK
<1>3. /\ shell' \in Seq([owner: Cells, status: {"ok", "error"}])
      /\ Len(shell) <= 1 => shell' = <<>>
  <2>1. CASE shell = <<>>
    BY <1>2, <2>1
  <2>2. CASE shell # <<>>
    <3>1. Tail(shell) \in Seq([owner: Cells, status: {"ok", "error"}]) /\ Len(Tail(shell)) = Len(shell) - 1
      BY <1>2, <2>2, HeadTailProperties
    <3>2. Len(shell) <= 1 => Tail(shell) = <<>>
      <4>1. Len(Tail(shell)) \in Nat
        BY <3>1, LenProperties
      <4>2. Len(shell) <= 1 => Len(Tail(shell)) = 0
        BY <1>2, <3>1, <4>1
      <4> QED BY <3>1, <4>2, EmptySeq
    <3> QED BY <1>2, <2>2, <3>1, <3>2
  <2> QED BY <2>1, <2>2
<1>4. status' = status \/ (status = "ok" /\ status' = "error" /\ shell # <<>> /\ Head(shell).status = "error")
  BY <1>2 DEF StatusAfter
<1>5. TypeOK'
  BY <1>1, <1>3, <1>4 DEF CallInv, TypeOK, BufferTypeOK
<1>6. Keeps(head, tail, dropped, log)' /\ OverInv'
  BY <1>1 DEF CallInv, OverInv
<1>7. OrderInv'
  <2>1. cell # 0
    BY <1>1 DEF CallInv, OrderInv
  <2> QED BY <1>1, <2>1 DEF CallInv, OrderInv
<1>8. ReadInv' /\ ReplyInv'
  BY <1>1 DEF ReadInv, ReplyInv
<1>9. AloneOutcome'
  <2>1. status' = "ok" => outcome[cell] = "ok"
    BY <1>1, <1>4 DEF CallInv, ReplyInv
  <2>2. ASSUME status' = "error", lost = {} PROVE outcome[cell] = "error"
    <3>1. CASE status = "error"
      BY <1>1, <3>1 DEF CallInv, ReplyInv
    <3>2. CASE status # "error"
      <4>1. shell # <<>> /\ Head(shell).status = "error"
        BY <1>4, <2>2, <3>2
      <4>2. Head(shell) = shell[1] /\ 1 \in 1..Len(shell)
        BY <1>2, <4>1, EmptySeq
      <4> QED BY <2>2, <4>1, <4>2 DEF CallInv, AloneInv
    <3> QED BY <3>1, <3>2
  <2> QED BY <1>1, <2>1, <2>2 DEF AloneOutcome
<1>10. AloneInv'
  <2> SUFFICES ASSUME lost = {} PROVE AloneInv'
    BY <1>1 DEF AloneInv
  <2>1. requests = <<>> /\ now = Nothing /\ Len(shell) <= 1
    BY <1>1 DEF CallInv, AloneInv, ReplyInv
  <2>2. shell' = <<>>
    BY <1>3, <2>1
  <2>3. ~(\E i \in 1..Len(requests) : TRUE) /\ ~(\E i \in 1..Len(shell') : TRUE) /\ Len(shell') <= 1
    BY <2>1, <2>2
  <2> QED BY <1>1, <2>1, <2>2, <2>3 DEF AloneInv
<1> QED BY <1>5, <1>6, <1>7, <1>8, <1>9, <1>10 DEF CallInv

\* What is left of the channel when a message is received.
LEMMA Received ==
  ASSUME CallInv, NEW from, Receive(from)
  PROVE  /\ cpc = from /\ iopub # <<>> /\ iopub \in Seq(Messages)
         /\ UNCHANGED <<cell, shell, alive, requests, now, signal, made, outcome, lost>>
         /\ iopub' = Tail(iopub) /\ iopub' \in Seq(Messages)
         /\ Head(iopub) \in Messages /\ Head(iopub) = iopub[1]
         /\ Len(iopub) \in Nat \ {0} /\ Len(iopub') = Len(iopub) - 1
         /\ \A i \in 1..Len(iopub') : i + 1 \in 1..Len(iopub) /\ iopub'[i] = iopub[i + 1]
<1>1. /\ cpc = from /\ iopub # <<>> /\ iopub' = Tail(iopub)
      /\ UNCHANGED <<cell, shell, alive, requests, now, signal, made, outcome, lost>>
  BY DEF Receive, kernel, running
<1>2. iopub \in Seq(Messages)
  BY DEF CallInv, TypeOK
<1>3. Len(iopub) \in Nat \ {0} /\ Head(iopub) = iopub[1] /\ Head(iopub) \in Messages
  BY <1>1, <1>2, EmptySeq, HeadTailProperties
<1>4. /\ iopub' \in Seq(Messages) /\ Len(iopub') = Len(iopub) - 1
      /\ \A i \in 1..Len(iopub') : iopub'[i] = iopub[i + 1]
  BY <1>1, <1>2, HeadTailProperties
<1>5. \A i \in 1..Len(iopub') : i + 1 \in 1..Len(iopub)
  BY <1>3, <1>4
<1> QED BY <1>1, <1>2, <1>3, <1>4, <1>5

\* Neither order nor what messages tell depends on those that were received.
LEMMA ReceivedInOrder ==
  ASSUME CallInv, NEW from \in {"read", "drain"}, Receive(from), cpc' # "idle", cpc' = "read" => cpc = "read"
  PROVE  OrderInv' /\ OverInv'
<1>1. /\ cpc = from
      /\ UNCHANGED <<cell, shell, alive, requests, now, signal, made, outcome, lost>>
      /\ \A i \in 1..Len(iopub') : i + 1 \in 1..Len(iopub) /\ iopub'[i] = iopub[i + 1]
  BY Received
<1>2. cell # 0
  BY <1>1 DEF CallInv, OrderInv
<1>3. OrderInv'
  BY <1>1, <1>2 DEF CallInv, OrderInv
<1>4. OverInv'
  BY <1>1 DEF CallInv, OverInv
<1> QED BY <1>3, <1>4

\* Once the call has given up, messages are read and dropped.
LEMMA DrainCall == ASSUME CallInv, Drain PROVE CallInv'
<1>1. Receive("drain") /\ cpc = "drain" /\ cpc' \in {"drain", "reply"}
      /\ UNCHANGED <<status, head, tail, dropped, pending, log, written>>
  BY DEF Drain, Receive, bufferVars, history
<1>2. /\ UNCHANGED <<cell, shell, alive, requests, now, signal, made, outcome, lost>>
      /\ iopub' \in Seq(Messages)
  BY <1>1, Received
<1>3. TypeOK'
  BY <1>1, <1>2 DEF CallInv, TypeOK, BufferTypeOK
<1>4. Keeps(head, tail, dropped, log)'
  BY <1>1 DEF CallInv
<1>5. OrderInv' /\ OverInv'
  BY <1>1, ReceivedInOrder
<1>6. ReadInv' /\ ReplyInv' /\ AloneOutcome' /\ AloneInv'
  BY <1>1, <1>2 DEF CallInv, ReadInv, ReplyInv, AloneOutcome, AloneInv
<1> QED BY <1>3, <1>4, <1>5, <1>6 DEF CallInv

\* A message that does not end the call: what is left completes what the
\* buffer has become.
LEMMA ReadOn ==
  ASSUME CallInv, Receive("read"), cpc' = "read",
         status' = IF Own(1) /\ iopub[1].type = "error" THEN "error" ELSE status,
         Buffer' = After(cell, Buffer, Head(iopub)), Keeps(head', tail', dropped', log')
  PROVE  CallInv'
<1>1. /\ cpc = "read" /\ iopub # <<>> /\ iopub \in Seq(Messages)
      /\ UNCHANGED <<cell, shell, alive, requests, now, signal, made, outcome, lost>>
      /\ iopub' = Tail(iopub) /\ iopub' \in Seq(Messages)
      /\ Head(iopub) \in Messages /\ Head(iopub) = iopub[1]
      /\ Len(iopub) \in Nat \ {0} /\ Len(iopub') = Len(iopub) - 1
      /\ \A i \in 1..Len(iopub') : i + 1 \in 1..Len(iopub) /\ iopub'[i] = iopub[i + 1]
  BY Received
<1>2. Buffer \in Printed
  BY DEF CallInv, TypeOK, BufferTypeOK, Buffer, Printed
<1>3. 1 \in 1..Len(iopub)
  BY <1>1
<1>4. /\ Waits => ~Own(1) /\ Buffer' = Blank
      /\ HasBegun => Buffer' \in Printed /\ Replays(cell, Buffer', iopub', made)
  <2>1. ASSUME Waits PROVE ~Own(1) /\ Buffer' = Blank
    BY <1>1, <1>3, <2>1 DEF Waits, Own, After
  <2>2. ASSUME HasBegun PROVE Buffer' \in Printed /\ Replays(cell, Buffer', iopub', made)
    <3>1. Replays(cell, Buffer, iopub, made)
      BY <2>2 DEF HasBegun
    <3> QED BY <1>1, <3>1, FirstReplays
  <2> QED BY <2>1, <2>2
<1>5. Waits \/ HasBegun
  BY <1>1 DEF CallInv, ReadInv
<1>6. TypeOK'
  <2>1. Buffer' \in Printed
    BY <1>4, <1>5, BlankOK
  <2>2. pending' \in BOOLEAN
    BY <2>1 DEF Buffer, Printed
  <2>3. written' \in 0..MaxChars
    BY <2>1 DEF Buffer, Printed
  <2>4. BufferTypeOK'
    BY <2>2, <2>3 DEF Keeps, BufferTypeOK
  <2>5. status' \in {"none", "ok", "error", "timeout"}
    BY DEF CallInv, TypeOK
  <2> QED BY <1>1, <2>4, <2>5 DEF CallInv, TypeOK
<1>7. OrderInv' /\ OverInv'
  BY <1>1, ReceivedInOrder
<1>8. Own(1) /\ iopub[1].type = "error" => outcome[cell] = "error"
  BY <1>3 DEF CallInv, OverInv, Own
<1>9. Waits' \/ HasBegun'
  <2>1. ASSUME Waits PROVE Waits'
    <3>1. \A i \in 1..Len(iopub') : iopub'[i].owner # cell
      BY <1>1, <2>1 DEF Waits, Own
    <3> QED BY <1>1, <1>4, <2>1, <3>1 DEF Waits, Own, Buffer
  <2>2. ASSUME HasBegun PROVE HasBegun'
    <3>1. Replays(cell, Buffer', iopub', made)
      BY <1>4, <2>2
    <3> QED BY <1>1, <2>2, <3>1 DEF HasBegun, Buffer
  <2> QED BY <1>5, <2>1, <2>2
<1>10. EndsInOrder'
  <2> SUFFICES ASSUME NEW i \in 1..Len(iopub'), iopub'[i].owner = cell, iopub'[i].type = "idle"
               PROVE  /\ i = Len(iopub')
                      /\ outcome[cell] = "error" =>
                           \/ status' = "error"
                           \/ i > 1 /\ iopub'[i - 1].owner = cell /\ iopub'[i - 1].type = "error"
    BY <1>1 DEF EndsInOrder, Own
  <2>1. i + 1 \in 1..Len(iopub) /\ Own(i + 1) /\ iopub[i + 1].type = "idle" /\ i + 1 - 1 = i
    BY <1>1 DEF Own
  <2>2. /\ i + 1 = Len(iopub)
        /\ outcome[cell] = "error" => status = "error" \/ (Own(i) /\ iopub[i].type = "error")
    <3>1. EndsInOrder
      BY <1>1 DEF CallInv, ReadInv
    <3>2. /\ i + 1 = Len(iopub)
          /\ outcome[cell] = "error" =>
               status = "error" \/ (Own(i + 1 - 1) /\ iopub[i + 1 - 1].type = "error")
      BY <2>1, <3>1 DEF EndsInOrder
    <3> QED BY <2>1, <3>2
  <2>3. i = Len(iopub')
    <3>1. Len(iopub) \in Nat \ {0} /\ Len(iopub') = Len(iopub) - 1
      BY <1>1
    <3>2. i \in Int /\ i + 1 = Len(iopub)
      BY <2>2, <3>1
    <3> QED BY <3>1, <3>2
  <2>4. CASE i = 1
    BY <2>2, <2>4, <2>3
  <2>5. CASE i # 1
    <3>1. i > 1 /\ i - 1 \in 1..Len(iopub') /\ i - 1 + 1 = i
      BY <1>1, <2>5
    <3>2. iopub'[i - 1] = iopub[i]
      BY <1>1, <3>1
    <3> QED BY <2>2, <2>3, <3>1, <3>2 DEF Own
  <2> QED BY <2>4, <2>5
<1>11. ReadInv'
  BY <1>1, <1>8, <1>9, <1>10 DEF CallInv, ReadInv
<1>12. ReplyInv' /\ AloneOutcome'
  BY <1>1 DEF ReplyInv, AloneOutcome
<1>13. AloneInv'
  BY <1>1 DEF CallInv, AloneInv
<1> QED BY <1>6, <1>7, <1>11, <1>12, <1>13 DEF CallInv

\* The idle status of the cell: it is the last message, so that the buffer is
\* complete and the kernel at rest.
LEMMA ReadLast ==
  ASSUME CallInv, Receive("read"), Own(1), iopub[1].type = "idle", cpc' = "reply",
         UNCHANGED <<status, head, tail, dropped, pending, log, written>>
  PROVE  CallInv'
<1>1. /\ cpc = "read" /\ iopub # <<>> /\ iopub \in Seq(Messages)
      /\ UNCHANGED <<cell, shell, alive, requests, now, signal, made, outcome, lost>>
      /\ iopub' = Tail(iopub) /\ iopub' \in Seq(Messages)
      /\ Head(iopub) = iopub[1]
      /\ Len(iopub) \in Nat \ {0} /\ Len(iopub') = Len(iopub) - 1
  BY Received
<1>2. 1 \in 1..Len(iopub)
  BY <1>1
<1>3. TypeOK'
  BY <1>1 DEF CallInv, TypeOK, BufferTypeOK
<1>4. Keeps(head, tail, dropped, log)'
  BY DEF CallInv
<1>5. OrderInv' /\ OverInv'
  BY <1>1, ReceivedInOrder
<1>6. /\ outcome[cell] # "none"
      /\ Len(iopub) = 1 /\ (outcome[cell] = "error" => status = "error")
      /\ status \in {"ok", "error"} /\ (status = "error" => outcome[cell] = "error")
  <2>1. outcome[cell] # "none"
    BY <1>2 DEF CallInv, OverInv, Own
  <2>2. EndsInOrder /\ status \in {"ok", "error"} /\ (status = "error" => outcome[cell] = "error")
    BY <1>1 DEF CallInv, ReadInv
  <2>3. 1 = Len(iopub) /\ (outcome[cell] = "error" => status = "error")
    BY <1>2, <2>2 DEF EndsInOrder
  <2> QED BY <2>1, <2>2, <2>3
<1>7. outcome[cell] \in {"ok", "error"} /\ status = outcome[cell]
  <2>1. cell \in Cells
    BY <1>1, BoundsAssumption DEF CallInv, OrderInv, TypeOK, Cells
  <2>2. outcome[cell] \in {"none", "ok", "error"}
    BY <2>1 DEF CallInv, TypeOK
  <2> QED BY <1>6, <2>2
<1>8. now = Nothing /\ requests = <<>>
  BY <1>1, <1>6, EndedAtRest
<1>9. log = made.log
  <2>1. HasBegun
    BY <1>1, <1>2 DEF CallInv, ReadInv, Waits
  <2>2. Replays(cell, After(cell, Buffer, Head(iopub)), Tail(iopub), made)
    BY <1>1, <2>1, FirstReplays DEF HasBegun
  <2>3. After(cell, Buffer, Head(iopub)) = Buffer
    BY <1>1 DEF After, Own
  <2>4. Tail(iopub) = <<>>
    <3>1. iopub' \in Seq(Messages) /\ Len(iopub') = 0
      BY <1>1, <1>6
    <3> QED BY <1>1, <3>1, EmptySeq
  <2>5. Buffer = made
    BY <2>2, <2>3, <2>4, LastReplays
  <2> QED BY <2>5 DEF Buffer
<1>10. ReadInv' /\ ReplyInv' /\ AloneOutcome'
  BY <1>1, <1>7, <1>8, <1>9 DEF ReadInv, ReplyInv, AloneOutcome
<1>11. AloneInv'
  BY <1>1, <1>6 DEF CallInv, AloneInv
<1> QED BY <1>3, <1>4, <1>5, <1>10, <1>11 DEF CallInv

LEMMA ReadCall == ASSUME CallInv, Read PROVE CallInv'
<1> DEFINE m == Head(iopub)
<1>1. /\ Receive("read") /\ cpc = "read" /\ m \in Messages /\ m = iopub[1]
      /\ Own(1) <=> Ours(m)
  BY Received DEF Read, Own, Ours
<1>2. Keeps(head, tail, dropped, log)
  BY DEF CallInv
<1>3. CASE ~Ours(m) /\ UNCHANGED <<cpc, status, bufferVars>>
  <2>1. UNCHANGED <<cpc, status, head, tail, dropped, pending, log, written>>
    BY <1>3 DEF bufferVars, history
  <2>2. Buffer' = After(cell, Buffer, m)
    BY <1>3, <2>1 DEF Buffer, After, Ours
  <2> QED BY <1>1, <1>2, <1>3, <2>1, <2>2, ReadOn
<1>4. CASE Ours(m) /\ m.type = "idle" /\ cpc' = "reply" /\ UNCHANGED <<status, bufferVars>>
  BY <1>1, <1>4, ReadLast DEF bufferVars, history
<1>5. CASE /\ Ours(m) /\ m.type \in {"output", "error"}
           /\ status' = IF m.type = "error" THEN "error" ELSE status
           /\ Add(m.kind, m.n) /\ UNCHANGED cpc
  <2>1. m.kind \in Streams \cup {Rich} /\ m.n \in Nat
    <3>1. Sizes \cup {1} \subseteq Nat
      BY CapsAssumption
    <3> QED BY <1>1, <3>1 DEF Messages
  <2>2. HasBegun
    <3>1. 1 \in 1..Len(iopub)
      BY <1>1, Received
    <3> QED BY <1>1, <1>5, <3>1 DEF CallInv, ReadInv, Waits
  <2>3. After(cell, Buffer, m) = Extended(Buffer, m.kind, m.n)
    BY <1>5 DEF After, Ours
  <2>4. Buffer \in Printed /\ Extended(Buffer, m.kind, m.n) \in Printed
    <3>1. Replays(cell, Buffer, iopub, made) /\ iopub \in Seq(Messages) /\ iopub # <<>>
      BY <1>1, <2>2, Received DEF HasBegun
    <3>2. Buffer \in Printed
      BY <3>1, ReplaysOK
    <3>3. After(cell, Buffer, m) \in Printed
      BY <3>1, FirstReplays
    <3> QED BY <2>3, <3>2, <3>3
  <2>5. Add(m.kind, m.n)
    BY <1>5
  <2> HIDE DEF m
  <2>6. Buffer' = Extended(Buffer, m.kind, m.n) /\ Keeps(head', tail', dropped', log')
    BY <1>2, <2>1, <2>4, <2>5, AddIs
  <2>7. Buffer' = After(cell, Buffer, Head(iopub))
    BY <2>3, <2>6 DEF m
  <2>8. cpc' = "read" /\ status' = IF Own(1) /\ iopub[1].type = "error" THEN "error" ELSE status
    BY <1>1, <1>5
  <2> QED BY <1>1, <2>6, <2>7, <2>8, ReadOn
<1>6. CASE Ours(m) /\ m.type = "clear" /\ Clear /\ UNCHANGED <<cpc, status>>
  <2>1. Buffer' = Blank /\ After(cell, Buffer, m) = Blank
    BY <1>6 DEF Clear, Buffer, Blank, After, Ours
  <2>2. Keeps(head', tail', dropped', log')
    BY <1>6, EmptyKeeps DEF Clear
  <2> QED BY <1>1, <1>6, <2>1, <2>2, ReadOn
<1>7. CASE Ours(m) /\ m.type = "clear_wait" /\ ClearLater /\ UNCHANGED <<cpc, status>>
  <2>1. Buffer' = [Buffer EXCEPT !.pending = TRUE]
    <3>1. pending' = TRUE /\ log' = log /\ written' = written
      BY <1>7 DEF ClearLater, history
    <3>2. Buffer' = [log |-> log, written |-> written, pending |-> TRUE]
      BY <3>1, Zenon DEF Buffer
    <3>3. \A l, w, p, b : [[log |-> l, written |-> w, pending |-> p] EXCEPT !.pending = b]
                            = [log |-> l, written |-> w, pending |-> b]
      OBVIOUS
    <3>4. [Buffer EXCEPT !.pending = TRUE] = [log |-> log, written |-> written, pending |-> TRUE]
      BY <3>3, Zenon DEF Buffer
    <3> QED BY <3>2, <3>4
  <2>2. After(cell, Buffer, m) = [Buffer EXCEPT !.pending = TRUE]
    BY <1>7 DEF After, Ours
  <2>3. Keeps(head', tail', dropped', log')
    BY <1>2, <1>7 DEF ClearLater, history
  <2> QED BY <1>1, <1>7, <2>1, <2>3, <2>2, ReadOn
<1> QED BY <1>3, <1>4, <1>5, <1>6, <1>7 DEF Read

LEMMA StutterCall == ASSUME CallInv, UNCHANGED vars PROVE CallInv'
<1>1. /\ signal' = signal
      /\ UNCHANGED <<client, channels, alive, requests, now, made, outcome, lost, bufferVars>>
  BY DEF vars, kernel, running
<1> QED BY <1>1, SignalCall DEF CallInv, TypeOK

LEMMA CallInductive == Spec => []CallInv
<1>1. ASSUME CallInv, [Next]_vars PROVE CallInv'
  <2>1. CASE Call
    BY <1>1, <2>1, CallCall
  <2>2. CASE Client
    <3>1. CASE Read
      BY <1>1, <3>1, ReadCall
    <3>2. CASE Silence
      BY <1>1, <3>2, SilenceCall
    <3>3. CASE Drain
      BY <1>1, <3>3, DrainCall
    <3>4. CASE DrainEnds
      BY <1>1, <3>4, DrainEndsCall
    <3>5. CASE Reply
      BY <1>1, <3>5, ReplyCall
    <3> QED BY <2>2, <3>1, <3>2, <3>3, <3>4, <3>5 DEF Client
  <2>3. CASE Interrupt
    BY <1>1, <2>3, InterruptCall
  <2>4. CASE Restart
    BY <1>1, <2>4, RestartCall
  <2>5. CASE Begin
    BY <1>1, <2>5, BeginCall
  <2>6. CASE Printing
    <3>1. PICK s \in Streams, n \in Sizes : PrintOut(s, n) \/ PrintOut(Rich, 1) \/ ClearOutput
      BY <2>6 DEF Printing
    <3> QED BY <1>1, <3>1, PrintOutCall, ClearCall
  <2>7. CASE End("ok")
    BY <1>1, <2>7, EndCall
  <2>8. CASE End("error")
    BY <1>1, <2>8, EndCall
  <2>9. CASE Die
    BY <1>1, <2>9, DieCall
  <2>10. CASE UNCHANGED vars
    BY <1>1, <2>10, StutterCall
  <2> QED BY <1>1, <2>1, <2>2, <2>3, <2>4, <2>5, <2>6, <2>7, <2>8, <2>9, <2>10 DEF Next
<1> QED BY <1>1, InitCall, PTL DEF Spec

----------------------------------------------------------------------------
(* What follows.                                                           *)

\* A call is in one of its states and the channels, the kernel and the buffer
\* hold what they may (kernel.py, KernelSession; tasks.py, OutputBuffer).
THEOREM TypeCorrect == Spec => []TypeOK
<1>1. CallInv => TypeOK
  BY DEF CallInv
<1> QED BY <1>1, CallInductive, PTL

\* A snapshot of the buffer of a running cell is all of its output or the
\* beginning and the end of it, with the number of outputs left out, for any
\* caps (tasks.py, OutputBuffer.snapshot).
THEOREM BufferKeepsEnds == Spec => []KeepsEnds
<1>1. CallInv => KeepsEnds
  BY KeepsShown DEF CallInv
<1> QED BY <1>1, CallInductive, PTL

\* A call that did not time out has filled its buffer with what its own cell
\* printed, neither more nor less, however late the messages of cells that
\* were given up on come (kernel.py, execute: msg_id).
THEOREM OutputsAreOwn == Spec => []OwnOutputs
<1>1. CallInv => OwnOutputs
  BY DEF CallInv, ReplyInv, OwnOutputs
<1> QED BY <1>1, CallInductive, PTL

\* A reply that is under way tells how the call's cell or an earlier one ended.
RepliesTell ==
  \A i \in 1..Len(shell) : shell[i].owner <= cell /\ shell[i].status = outcome[shell[i].owner]

\* An error that is reported was raised, by this cell or by an earlier one.
ErrorWasRaised == cpc = "idle" /\ status = "error" => \E c \in 1..cell : outcome[c] = "error"

LEMMA EndTells ==
  ASSUME CallInv, RepliesTell, ErrorWasRaised, NEW how \in {"ok", "error"}, End(how)
  PROVE  RepliesTell' /\ ErrorWasRaised'
<1>1. /\ now # Nothing /\ shell' = Append(shell, [owner |-> now, status |-> how])
      /\ outcome' = [outcome EXCEPT ![now] = how]
      /\ UNCHANGED <<cell, cpc, status>>
  BY DEF End, client
<1>2. /\ now \in Cells /\ now <= cell /\ outcome[now] = "none" /\ outcome'[now] = how
      /\ \A c \in Cells : outcome[c] # "none" => outcome'[c] = outcome[c]
  BY <1>1 DEF CallInv, TypeOK, OrderInv, OverInv
<1>3. /\ shell \in Seq([owner: Cells, status: {"ok", "error"}]) /\ Len(shell) \in Nat
      /\ \A i \in 1..Len(shell) : shell[i] \in [owner: Cells, status: {"ok", "error"}]
  <2>1. shell \in Seq([owner: Cells, status: {"ok", "error"}])
    BY DEF CallInv, TypeOK
  <2> QED BY <2>1, LenProperties, ElementOfSeq
<1>4. /\ Len(shell') = Len(shell) + 1
      /\ \A i \in 1..Len(shell) : shell'[i] = shell[i]
      /\ shell'[Len(shell) + 1] = [owner |-> now, status |-> how]
  BY <1>1, <1>2, <1>3, AppendProperties
<1>5. ASSUME NEW i \in 1..Len(shell')
      PROVE  shell'[i].owner <= cell /\ shell'[i].status = outcome'[shell'[i].owner]
  <2>1. CASE i \in 1..Len(shell)
    <3>1. /\ shell'[i] = shell[i] /\ shell[i].owner \in Cells /\ shell[i].owner <= cell
          /\ shell[i].status = outcome[shell[i].owner] /\ shell[i].status # "none"
      BY <1>3, <1>4, <2>1 DEF RepliesTell
    <3> QED BY <1>2, <3>1
  <2>2. CASE i = Len(shell) + 1
    BY <1>2, <1>4, <2>2
  <2> QED BY <1>3, <1>4, <2>1, <2>2
<1>6. ErrorWasRaised'
  <2>1. \A c \in 1..cell : c \in Cells
    BY BoundsAssumption DEF CallInv, TypeOK, Cells
  <2> QED BY <1>1, <1>2, <2>1 DEF ErrorWasRaised
<1> QED BY <1>1, <1>5, <1>6 DEF RepliesTell

LEMMA ReplyTells ==
  ASSUME CallInv, RepliesTell, Reply
  PROVE  RepliesTell' /\ ErrorWasRaised'
<1>1. /\ cpc = "reply" /\ UNCHANGED <<cell, outcome>>
      /\ \/ shell # <<>> /\ shell' = Tail(shell) /\ status' = StatusAfter(status, Head(shell))
         \/ shell' = shell /\ status' = status
  BY DEF Reply, kernel, running
<1>2. shell \in Seq([owner: Cells, status: {"ok", "error"}])
  BY DEF CallInv, TypeOK
<1>3. cell \in 1..cell
  BY <1>1, BoundsAssumption DEF CallInv, OrderInv, TypeOK
<1>4. status = "error" => outcome[cell] = "error"
  BY <1>1 DEF CallInv, ReplyInv
<1>5. CASE shell # <<>> /\ shell' = Tail(shell) /\ status' = StatusAfter(status, Head(shell))
  <2>1. /\ Len(shell) \in Nat \ {0} /\ Head(shell) = shell[1] /\ Head(shell).owner \in Cells
        /\ Len(shell') = Len(shell) - 1
        /\ \A i \in 1..Len(shell') : shell'[i] = shell[i + 1]
    <3>1. Len(shell) \in Nat \ {0} /\ Head(shell) = shell[1]
      BY <1>2, <1>5, EmptySeq
    <3>2. Head(shell) \in [owner: Cells, status: {"ok", "error"}]
      BY <1>2, <1>5, HeadTailProperties
    <3>3. Len(shell') = Len(shell) - 1 /\ \A i \in 1..Len(shell') : shell'[i] = shell[i + 1]
      BY <1>2, <1>5, HeadTailProperties
    <3> QED BY <3>1, <3>2, <3>3
  <2>2. RepliesTell'
    <3>1. \A i \in 1..Len(shell') : i + 1 \in 1..Len(shell)
      BY <2>1
    <3> QED BY <1>1, <2>1, <3>1 DEF RepliesTell
  <2>3. Head(shell).owner \in 1..cell /\ Head(shell).status = outcome[Head(shell).owner]
    <3>1. 1 \in 1..Len(shell)
      BY <2>1
    <3> QED BY <1>3, <2>1, <3>1 DEF RepliesTell, Cells, CallInv, TypeOK
  <2>4. status' = "error" => status = "error" \/ Head(shell).status = "error"
    BY <1>5 DEF StatusAfter
  <2> QED BY <1>1, <1>3, <1>4, <2>2, <2>3, <2>4 DEF ErrorWasRaised
<1>6. CASE shell' = shell /\ status' = status
  BY <1>1, <1>3, <1>4, <1>6 DEF RepliesTell, ErrorWasRaised
<1> QED BY <1>1, <1>5, <1>6

LEMMA CallTells ==
  ASSUME CallInv, RepliesTell, Call
  PROVE  RepliesTell' /\ ErrorWasRaised'
<1>1. /\ cell' = cell + 1 /\ cpc' = "read" /\ outcome' = outcome
      /\ shell' = shell \/ shell' = <<>>
  BY DEF Call, channels, running
<1>2. CASE shell' = <<>>
  <2>1. ~\E i \in 1..Len(shell') : TRUE
    BY <1>2
  <2> QED BY <1>1, <2>1 DEF RepliesTell, ErrorWasRaised
<1>3. CASE shell' = shell
  <2>1. ASSUME NEW i \in 1..Len(shell)
        PROVE  shell[i].owner <= cell' /\ shell[i].status = outcome[shell[i].owner]
    <3>1. shell \in Seq([owner: Cells, status: {"ok", "error"}])
      BY DEF CallInv, TypeOK
    <3>2. shell[i] \in [owner: Cells, status: {"ok", "error"}]
      BY <3>1, ElementOfSeq
    <3>3. shell[i].owner \in Nat
      BY <3>2 DEF Cells
    <3> QED BY <1>1, <3>3 DEF RepliesTell, CallInv, TypeOK
  <2> QED BY <1>1, <1>3, <2>1 DEF RepliesTell, ErrorWasRaised
<1> QED BY <1>1, <1>2, <1>3

LEMMA RepliesInductive == Spec => [](RepliesTell /\ ErrorWasRaised)
<1>1. Init => RepliesTell /\ ErrorWasRaised
  <2> SUFFICES ASSUME Init PROVE RepliesTell /\ ErrorWasRaised
    OBVIOUS
  <2>1. shell = <<>> /\ status = "none"
    BY DEF Init
  <2>2. ~\E i \in 1..Len(shell) : TRUE
    BY <2>1
  <2> QED BY <2>1, <2>2 DEF RepliesTell, ErrorWasRaised
<1>2. ASSUME CallInv, RepliesTell, ErrorWasRaised, [Next]_vars
      PROVE  RepliesTell' /\ ErrorWasRaised'
  <2>1. ASSUME UNCHANGED <<cell, shell, outcome>>, UNCHANGED <<cpc, status>> \/ cpc' # "idle"
        PROVE  RepliesTell' /\ ErrorWasRaised'
    BY <1>2, <2>1 DEF RepliesTell, ErrorWasRaised
  <2>2. CASE Restart
    <3>1. shell' = <<>> /\ status' = "none"
      BY <2>2 DEF Restart
    <3>2. ~\E i \in 1..Len(shell') : TRUE
      BY <3>1
    <3> QED BY <3>1, <3>2 DEF RepliesTell, ErrorWasRaised
  <2>3. CASE Interrupt \/ Begin \/ Die \/ UNCHANGED vars
    BY <2>1, <2>3 DEF Interrupt, Begin, Die, vars, client, channels, running, kernel
  <2>4. CASE Printing
    BY <2>1, <2>4 DEF Printing, PrintOut, ClearOutput, Send, client
  <2>5. CASE Silence \/ DrainEnds
    BY <2>1, <2>5 DEF Silence, DrainEnds, channels, kernel, running
  <2>6. CASE Read \/ Drain
    BY <2>1, <2>6 DEF Read, Drain, Receive, kernel, running
  <2> QED BY <1>2, <2>2, <2>3, <2>4, <2>5, <2>6, CallTells, EndTells, ReplyTells DEF Next, Client
<1> QED BY <1>1, <1>2, CallInductive, PTL DEF Spec

\* Whatever times out, "ok" is reported only for a cell that ended well.  "error"
\* is reported for a cell that raised; for one that did not only if this kernel
\* has had a timeout and an earlier cell raised, as the reply that is taken may
\* be late and its owner is not looked at (kernel.py, execute: get_shell_msg).
THEOREM OutcomeIsOwn == Spec => []OwnOutcome
<1>1. CallInv /\ ErrorWasRaised => OwnOutcome
  <2> SUFFICES ASSUME CallInv, ErrorWasRaised, cpc = "idle", status = "error", outcome[cell] # "error"
               PROVE  lost # {} /\ \E c \in 1..(cell - 1) : outcome[c] = "error"
    BY DEF OwnOutcome, CallInv, AloneOutcome
  <2>1. PICK c \in 1..cell : outcome[c] = "error"
    BY DEF ErrorWasRaised
  <2>2. c \in 1..(cell - 1)
    BY <2>1 DEF CallInv, TypeOK
  <2> QED BY <2>1, <2>2 DEF CallInv, AloneOutcome
<1> QED BY <1>1, CallInductive, RepliesInductive, PTL

----------------------------------------------------------------------------
(* The client goes on: the half of EndsUnlessPrinting without fairness.    *)

\* How many steps execute() has left if the kernel says no more.
Phase == [idle |-> 0, reply |-> 1, drain |-> 2, read |-> 3]
ReadsLeft == Len(iopub) + Phase[cpc]

\* Each step of execute() brings its end nearer: nothing it does makes it read
\* or wait once more.  Only the kernel, by printing or ending a cell, and the
\* next call put that end off.
ReadsShrink ==
  [][/\ Client => ReadsLeft' < ReadsLeft
     /\ ReadsLeft' > ReadsLeft => Call \/ Printing \/ End("ok") \/ End("error")]_vars

\* execute() never goes back: its loops read what there is, and each way out of
\* one leads nearer to the return.
THEOREM ClientAdvances == Spec => ReadsShrink
<1>1. ASSUME TypeOK, TypeOK', Next
      PROVE  /\ Client => ReadsLeft' < ReadsLeft
             /\ ReadsLeft' > ReadsLeft => Call \/ Printing \/ End("ok") \/ End("error")
  <2> USE <1>1 DEF client, channels, running, kernel
  <2>1. /\ iopub \in Seq(Messages) /\ Len(iopub) \in Nat /\ Len(iopub') \in Nat
        /\ Phase[cpc] \in Nat /\ Phase[cpc'] \in Nat
    BY DEF TypeOK, Phase
  <2>2. ASSUME NEW from \in {"read", "drain"}, Receive(from), cpc' \in {from, "reply"}
        PROVE  ReadsLeft' < ReadsLeft
    <3>1. Len(iopub') = Len(iopub) - 1
      BY <2>1, <2>2 DEF Receive
    <3>2. Phase[cpc'] <= Phase[cpc]
      BY <2>2 DEF Receive, Phase
    <3> QED BY <2>1, <3>1, <3>2 DEF ReadsLeft
  <2>3. ASSUME UNCHANGED iopub, Phase[cpc'] < Phase[cpc] PROVE ReadsLeft' < ReadsLeft
    BY <2>1, <2>3 DEF ReadsLeft
  <2>4. ASSUME Read PROVE ReadsLeft' < ReadsLeft
    <3>1. Receive("read") /\ cpc' \in {"read", "reply"}
      BY <2>4 DEF Read, Receive
    <3> QED BY <2>2, <3>1
  <2>5. ASSUME Drain PROVE ReadsLeft' < ReadsLeft
    <3>1. Receive("drain") /\ cpc' \in {"drain", "reply"}
      BY <2>5 DEF Drain, Receive
    <3> QED BY <2>2, <3>1
  <2>6. ASSUME Silence \/ DrainEnds \/ Reply PROVE ReadsLeft' < ReadsLeft
    BY <2>3, <2>6 DEF Silence, DrainEnds, Reply, Phase
  <2>7. Client => ReadsLeft' < ReadsLeft
    BY <2>4, <2>5, <2>6 DEF Client
  <2>8. CASE Client
    BY <2>1, <2>7, <2>8 DEF ReadsLeft
  <2>9. CASE Interrupt \/ Begin \/ Die
    <3>1. iopub' = iopub /\ cpc' = cpc
      BY <2>9 DEF Interrupt, Begin, Die
    <3> QED BY <2>1, <2>7, <3>1 DEF ReadsLeft
  <2>10. CASE Restart
    <3>1. Len(iopub') = 0 /\ cpc' = cpc
      BY <2>10 DEF Restart
    <3> QED BY <2>1, <2>7, <3>1 DEF ReadsLeft
  <2> QED BY <2>7, <2>8, <2>9, <2>10 DEF Next
<1>2. CallInv => TypeOK
  BY DEF CallInv
<1>3. TypeOK /\ TypeOK' /\ [Next]_vars
        => [/\ Client => ReadsLeft' < ReadsLeft
            /\ ReadsLeft' > ReadsLeft => Call \/ Printing \/ End("ok") \/ End("error")]_vars
  BY <1>1
<1> QED BY <1>2, <1>3, CallInductive, PTL DEF Spec, ReadsShrink
============================================================================
