------------------------- MODULE ToolProtocolProofs -------------------------
(***************************************************************************)
(* The stream of the tool server: every request that the client has sent   *)
(* is answered once, in its turn, and nothing else is, whatever pieces the *)
(* stream arrives in and wherever it breaks off.                           *)
(***************************************************************************)
EXTENDS ToolProtocol, FoldProofs, SequenceTheorems
LOCAL INSTANCE SequencesExt

(***************************************************************************)
(* The protocol.  Frames are in the stream one after the other, and the    *)
(* server is at the beginning of one, in the headers of one or before its  *)
(* body; what it has answered are the frames before that one.              *)
(***************************************************************************)
\* One sequence after the other, up to each place.
Flat(g, ss, S) ==
  g \in [0..Len(ss) -> Seq(S)] /\ g[0] = <<>> /\ \A i \in 1..Len(ss) : g[i] = g[i - 1] \o ss[i]

LEMMA FlatAgrees ==
  ASSUME NEW S, NEW ss, NEW tt, NEW g, NEW h, Flat(g, ss, S), Flat(h, tt, S),
         Len(ss) \in Nat, Len(tt) \in Nat, NEW k \in Nat, k <= Len(ss), k <= Len(tt), \A i \in 1..k : ss[i] = tt[i]
  PROVE  \A i \in 0..k : g[i] = h[i]
<1> DEFINE P == {i \in 0..k : g[i] = h[i]}
<1>1. 0 \in P
  BY DEF Flat
<1>2. ASSUME NEW i \in 0..(k - 1), i \in P PROVE i + 1 \in P
  <2>1. i + 1 \in 1..Len(ss) /\ i + 1 \in 1..Len(tt) /\ i + 1 \in 1..k /\ (i + 1) - 1 = i
    OBVIOUS
  <2>2. g[i + 1] = g[i] \o ss[i + 1] /\ h[i + 1] = h[i] \o tt[i + 1]
    BY <2>1 DEF Flat
  <2>3. g[i] = h[i] /\ ss[i + 1] = tt[i + 1]
    BY <1>2, <2>1
  <2>4. g[i + 1] = h[i + 1]
    BY <2>2, <2>3
  <2>5. i + 1 \in 0..k
    BY <2>1
  <2> QED BY <2>4, <2>5
<1> HIDE DEF P
<1>3. \A i \in 0..k : i \in P
  BY <1>1, <1>2, UpTo
<1> QED BY <1>3 DEF P

LEMMA FlattenIs ==
  ASSUME NEW S, NEW ss \in Seq(Seq(S))
  PROVE  \E g : Flat(g, ss, S) /\ FlattenSeq(ss) = g[Len(ss)]
<1> DEFINE n == Len(ss)
           V == Seq(S)
           step == [a \in (1..n) \X V |-> a[2] \o ss[a[1]]]
<1>1. n \in Nat /\ ss \in [1..n -> V] /\ DOMAIN ss = 1..n
  OBVIOUS
<1>2. <<>> \in V
  OBVIOUS
<1>3. step \in [(1..n) \X V -> V]
  <2>1. ASSUME NEW a \in (1..n) \X V PROVE a[2] \o ss[a[1]] \in V
    <3>1. a[2] \in Seq(S) /\ ss[a[1]] \in Seq(S)
      BY <1>1
    <3> QED BY <3>1, ConcatProperties
  <2> QED BY <2>1
<1> HIDE DEF n, V
<1>4. PICK g : Steps(g, n, V, <<>>, step)
  <2> HIDE DEF step
  <2> QED BY <1>1, <1>2, <1>3, CountedRecursion
<1>5. g \in [0..n -> V] /\ g[0] = <<>> /\ \A i \in 1..n : g[i] = step[<<i, g[i - 1]>>]
  BY <1>4 DEF Steps
<1>6. \A i \in 1..n : g[i] = g[i - 1] \o ss[i]
  <2>1. SUFFICES ASSUME NEW i \in 1..n PROVE g[i] = g[i - 1] \o ss[i]
    OBVIOUS
  <2>2. g[i - 1] \in V
    BY <1>1, <1>5
  <2> QED BY <1>5, <2>2
<1>7. Flat(g, ss, S)
  BY <1>5, <1>6 DEF Flat, n, V
<1>8. CASE n = 0
  <2>1. ss = <<>>
    BY <1>8 DEF n
  <2>2. FlattenSeq(ss) = <<>>
    BY <1>8, <2>1 DEF FlattenSeq, n
  <2> QED BY <1>5, <1>7, <1>8, <2>2 DEF n
<1>9. CASE n > 0
  <2> DEFINE Joins(f) == f = [i \in 1..n |-> IF i = 1 THEN ss[i] ELSE f[i - 1] \o ss[i]]
             F == CHOOSE f : Joins(f)
             G == [i \in 1..n |-> g[i]]
  <2>1. FlattenSeq(ss) = F[n]
    BY <1>1, <1>9 DEF FlattenSeq, n
  <2>2. Joins(G)
    <3>1. ASSUME NEW i \in 1..n PROVE G[i] = IF i = 1 THEN ss[i] ELSE G[i - 1] \o ss[i]
      <4>1. CASE i = 1
        <5>1. g[1] = g[0] \o ss[1] /\ ss[1] \in Seq(S)
          BY <1>1, <1>6, <4>1 DEF V
        <5> QED BY <1>5, <4>1, <5>1, ConcatEmptySeq
      <4>2. CASE i # 1
        <5>1. i - 1 \in 1..n
          BY <1>1, <4>2
        <5> QED BY <1>6, <4>2, <5>1
      <4> QED BY <4>1, <4>2
    <3> QED BY <3>1
  <2>3. Joins(F)
    <3> HIDE DEF G, Joins
    <3> QED BY <2>2
  <2> DEFINE P == {i \in 0..n : i = 0 \/ F[i] = g[i]}
  <2>4. ASSUME NEW i \in 0..(n - 1), i \in P PROVE i + 1 \in P
    <3>1. i + 1 \in 1..n /\ i + 1 \in 0..n
      BY <1>1
    <3>2. F[i + 1] = IF i + 1 = 1 THEN ss[i + 1] ELSE F[(i + 1) - 1] \o ss[i + 1]
      <4> HIDE DEF F
      <4> QED BY <2>3, <3>1
    <3>3. (i + 1) - 1 = i
      BY <1>1
    <3>31. g[i + 1] = g[i] \o ss[i + 1]
      BY <1>6, <3>1, <3>3
    <3>32. ss[i + 1] \in Seq(S)
      BY <1>1, <3>1 DEF V
    <3> HIDE DEF F
    <3>4. CASE i = 0
      <4>1. F[1] = ss[1]
        BY <3>2, <3>4
      <4>0. i + 1 = 1
        BY <3>4
      <4>2. g[1] = <<>> \o ss[1] /\ ss[1] \in Seq(S)
        BY <1>5, <3>31, <3>32, <3>4, <4>0
      <4>3. F[i + 1] = g[i + 1]
        BY <3>4, <4>1, <4>2, ConcatEmptySeq
      <4> QED BY <3>1, <4>3
    <3>5. CASE i # 0
      <4>1. F[i] = g[i]
        BY <2>4, <3>5
      <4>2. i + 1 # 1
        BY <1>1, <3>5
      <4>3. F[i + 1] = F[i] \o ss[i + 1]
        BY <3>2, <3>3, <4>2
      <4>4. F[i + 1] = g[i + 1]
        BY <3>31, <4>1, <4>3
      <4> QED BY <3>1, <4>4
    <3> QED BY <3>4, <3>5
  <2>5. 0 \in P
    BY <1>1
  <2> HIDE DEF P
  <2>6. \A i \in 0..n : i \in P
    BY <1>1, <2>4, <2>5, UpTo
  <2>7. n \in P
    BY <1>1, <2>6
  <2>8. F[n] = g[n]
    <3> HIDE DEF F
    <3> QED BY <1>9, <2>7 DEF P
  <2> QED BY <1>7, <2>1, <2>8 DEF n
<1> QED BY <1>1, <1>8, <1>9

\* A sequence is the beginning of another.
LEMMA Begins ==
  ASSUME NEW S, NEW s \in Seq(S), NEW t \in Seq(S)
  PROVE  IsPrefix(s, t) <=> Len(s) <= Len(t) /\ \A i \in 1..Len(s) : s[i] = t[i]
<1>1. Len(s) \in Nat /\ Len(t) \in Nat
  OBVIOUS
<1>2. SubSeq(s, 1, Len(s)) = s
  BY SubSeqFull
<1>3. CASE Len(s) <= Len(t)
  <2>1. \A i \in 1..Len(s) : t[i] \in S
    BY <1>1, <1>3
  <2>2. /\ SubSeq(t, 1, Len(s)) \in Seq(S) /\ Len(SubSeq(t, 1, Len(s))) = Len(s)
        /\ \A i \in 1..Len(s) : SubSeq(t, 1, Len(s))[i] = t[i]
    <3>1. /\ SubSeq(t, 1, Len(s)) \in Seq(S)
          /\ Len(SubSeq(t, 1, Len(s))) = IF 1 <= Len(s) THEN Len(s) - 1 + 1 ELSE 0
          /\ \A i \in 1..(Len(s) - 1 + 1) : SubSeq(t, 1, Len(s))[i] = t[1 + i - 1]
      BY <1>1, <2>1, SubSeqProperties
    <3>2. Len(s) - 1 + 1 = Len(s) /\ \A i \in 1..Len(s) : 1 + i - 1 = i
      BY <1>1
    <3> QED BY <1>1, <3>1, <3>2
  <2>3. SubSeq(t, 1, Len(s)) = s <=> \A i \in 1..Len(s) : s[i] = t[i]
    BY <2>2, SeqEqual
  <2> QED BY <1>2, <1>3, <2>3 DEF IsPrefix
<1>4. CASE ~(Len(s) <= Len(t))
  BY <1>4 DEF IsPrefix
<1> QED BY <1>3, <1>4

LEMMA FlattenAppend ==
  ASSUME NEW S, NEW ss \in Seq(Seq(S)), NEW s \in Seq(S)
  PROVE  FlattenSeq(ss) \in Seq(S) /\ FlattenSeq(Append(ss, s)) = FlattenSeq(ss) \o s
<1> DEFINE tt == Append(ss, s)
           n == Len(ss)
<1>1. /\ n \in Nat /\ tt \in Seq(Seq(S)) /\ Len(tt) = n + 1 /\ tt[n + 1] = s
      /\ \A i \in 1..n : ss[i] = tt[i]
  OBVIOUS
<1>2. PICK g : Flat(g, ss, S) /\ FlattenSeq(ss) = g[n]
  BY FlattenIs
<1> HIDE DEF tt, n
<1>3. PICK h : Flat(h, tt, S) /\ FlattenSeq(tt) = h[Len(tt)]
  BY <1>1, FlattenIs
<1>4. g[n] = h[n]
  <2>1. n <= Len(ss) /\ n <= Len(tt) /\ n \in 0..n
    BY <1>1 DEF n
  <2>2. \A i \in 0..n : g[i] = h[i]
    <3>1. Len(ss) \in Nat /\ Len(tt) \in Nat
      BY <1>1 DEF n
    <3> HIDE DEF Flat
    <3>2. \A i \in 1..n : ss[i] = tt[i]
      BY <1>1
    <3>3. n \in Nat /\ Flat(g, ss, S) /\ Flat(h, tt, S)
      BY <1>1, <1>2, <1>3
    <3> HIDE <1>1, <1>2, <1>3
    <3> QED BY <2>1, <3>1, <3>2, <3>3, FlatAgrees
  <2> QED BY <2>1, <2>2
<1>5. h[n + 1] = h[n] \o s
  <2>1. n + 1 \in 1..Len(tt) /\ (n + 1) - 1 = n
    BY <1>1
  <2> QED BY <1>1, <1>3, <2>1 DEF Flat
<1>6. g[n] \in Seq(S)
  BY <1>1, <1>2 DEF Flat, n
<1> QED BY <1>1, <1>2, <1>3, <1>4, <1>5, <1>6 DEF tt

LEMMA FlattenPrefix ==
  ASSUME NEW S, NEW ss \in Seq(Seq(S)), NEW tt \in Seq(Seq(S)), IsPrefix(ss, tt)
  PROVE  IsPrefix(FlattenSeq(ss), FlattenSeq(tt))
<1> DEFINE n == Len(tt)
           k == Len(ss)
<1>1. n \in Nat /\ k \in Nat /\ k <= n /\ \A i \in 1..k : ss[i] = tt[i]
  BY Begins
<1>2. PICK h : Flat(h, ss, S) /\ FlattenSeq(ss) = h[k]
  BY FlattenIs
<1>3. PICK g : Flat(g, tt, S) /\ FlattenSeq(tt) = g[n]
  BY FlattenIs
<1>4. \A i \in 0..k : h[i] = g[i]
  BY <1>1, <1>2, <1>3, FlatAgrees
<1> DEFINE P == {i \in 0..n : i < k \/ IsPrefix(g[k], g[i])}
<1>5. \A i \in 0..n : g[i] \in Seq(S)
  BY <1>3 DEF Flat
<1>6. \A i \in 1..n : tt[i] \in Seq(S)
  OBVIOUS
<1>7. k \in 0..n
  BY <1>1
<1> HIDE DEF n, k
<1>8. IsPrefix(g[k], g[k])
  BY <1>5, <1>7, Begins
<1>9. 0 \in P
  <2>1. k = 0 => IsPrefix(g[k], g[0])
    BY <1>8
  <2>2. k # 0 => 0 < k
    BY <1>1
  <2> QED BY <1>1, <2>1, <2>2
<1>10. ASSUME NEW i \in 0..(n - 1), i \in P PROVE i + 1 \in P
  <2>1. i + 1 \in 0..n /\ i + 1 \in 1..n /\ i \in 0..n /\ (i + 1) - 1 = i
    BY <1>1
  <2>2. g[i + 1] = g[i] \o tt[i + 1]
    BY <1>3, <2>1 DEF Flat, n
  <2>3. CASE i < k
    <3>1. i + 1 < k \/ i + 1 = k
      BY <1>1, <2>1, <2>3
    <3>2. i + 1 = k => IsPrefix(g[k], g[i + 1])
      BY <1>8
    <3> QED BY <2>1, <3>1, <3>2
  <2>4. CASE ~(i < k)
    <3>1. IsPrefix(g[k], g[i])
      BY <1>10, <2>4
    <3>2. g[k] \in Seq(S) /\ g[i] \in Seq(S) /\ tt[i + 1] \in Seq(S) /\ g[i + 1] \in Seq(S)
      BY <1>5, <1>6, <1>7, <2>1
    <3> DEFINE a == g[k]  b == g[i]  c == tt[i + 1]
    <3>3. a \in Seq(S) /\ b \in Seq(S) /\ c \in Seq(S) /\ IsPrefix(a, b) /\ b \o c \in Seq(S)
      BY <2>2, <3>1, <3>2
    <3> HIDE DEF a, b, c
    <3>4. Len(a) <= Len(b) /\ \A j \in 1..Len(a) : a[j] = b[j]
      BY <3>3, Begins
    <3>5. Len(b \o c) = Len(b) + Len(c) /\ \A j \in 1..Len(b) : (b \o c)[j] = b[j]
      BY <3>3
    <3>6. Len(a) <= Len(b \o c) /\ \A j \in 1..Len(a) : a[j] = (b \o c)[j]
      <4>1. Len(a) \in Nat /\ Len(b) \in Nat /\ Len(c) \in Nat
        BY <3>3
      <4> QED BY <3>4, <3>5, <4>1
    <3>7. IsPrefix(a, b \o c)
      BY <3>3, <3>6, Begins
    <3> QED BY <2>1, <2>2, <3>7 DEF a, b, c
  <2> QED BY <2>3, <2>4
<1> HIDE DEF P
<1>11. \A i \in 0..n : i \in P
  BY <1>1, <1>9, <1>10, UpTo
<1>12. n \in P
  BY <1>1, <1>11
<1>13. IsPrefix(g[k], g[n])
  BY <1>1, <1>12 DEF P
<1>14. h[k] = g[k]
  BY <1>1, <1>4
<1> QED BY <1>2, <1>3, <1>13, <1>14 DEF n, k

-----------------------------------------------------------------------------
(* What is in a frame, and what a payload says.                            *)

USE ProtocolAssumption

\* What can be in the stream, and frames as they are sent or break off.
TextUnit(m, i) == [unit |-> "text", msg |-> m, part |-> i]
Unit == {NL, Junk, OtherHeader, BadLength} \cup {ContentLength(n) : n \in Nat}
        \cup {TextUnit(m, i) : m \in Message, i \in Nat}
Sent == [kind : FrameKind, msg : Message]

LEMMA KindsOfUnit ==
  /\ NL \in Unit /\ Junk \in Unit /\ OtherHeader \in Unit /\ BadLength \in Unit
  /\ \A n \in Nat : ContentLength(n) \in Unit /\ ContentLength(n) # NL /\ ContentLength(n) # BadLength
                    /\ ContentLength(n).unit = "length" /\ ContentLength(n).n = n
  /\ \A m \in Message, i \in Nat : TextUnit(m, i) \in Unit /\ TextUnit(m, i) # NL /\ TextUnit(m, i) # BadLength
                                   /\ TextUnit(m, i).unit # "length"
  /\ NL # Junk /\ NL # OtherHeader /\ NL # BadLength /\ Junk # BadLength /\ Junk.unit # "length"
  /\ \A m \in Message, i \in Nat : Junk # TextUnit(m, i)
<1>1. /\ NL.unit = "newline" /\ Junk.unit = "junk" /\ OtherHeader.unit = "header" /\ BadLength.unit = "bad length"
      /\ \A n \in Nat : ContentLength(n).unit = "length" /\ ContentLength(n).n = n
      /\ \A m \in Message, i \in Nat : TextUnit(m, i).unit = "text"
  BY DEF NL, Junk, OtherHeader, BadLength, ContentLength, TextUnit
<1>2. /\ NL \in Unit /\ Junk \in Unit /\ OtherHeader \in Unit /\ BadLength \in Unit
      /\ \A n \in Nat : ContentLength(n) \in Unit
      /\ \A m \in Message, i \in Nat : TextUnit(m, i) \in Unit
  BY DEF Unit
<1> QED BY <1>1, <1>2

LEMMA TextIs ==
  ASSUME NEW m \in Message
  PROVE  Text(m) \in Seq(Unit) /\ Len(Text(m)) = m.parts /\ \A i \in 1..m.parts : Text(m)[i] = TextUnit(m, i)
<1>1. Text(m) = [i \in 1..m.parts |-> TextUnit(m, i)]
  BY DEF Text, TextUnit
<1>2. \A i \in 1..m.parts : TextUnit(m, i) \in Unit
  BY KindsOfUnit
<1> QED BY <1>1, <1>2

\* A body: a newline may follow the first part.
LEMMA SpreadIs ==
  ASSUME NEW m \in Message
  PROVE  LET b == Spread(Text(m))
         IN  /\ b \in Seq(Unit)
             /\ m.parts < 2 => b = Text(m)
             /\ m.parts >= 2 => /\ Len(b) = m.parts + 1 /\ b[1] = TextUnit(m, 1) /\ b[2] = NL
                                /\ \A i \in 3..(m.parts + 1) : b[i] = TextUnit(m, i - 1)
<1> DEFINE t == Text(m)
<1>1. t \in Seq(Unit) /\ Len(t) = m.parts /\ \A i \in 1..m.parts : t[i] = TextUnit(m, i)
  BY TextIs
<1>2. CASE m.parts < 2
  BY <1>1, <1>2 DEF Spread
<1>3. CASE m.parts >= 2
  <2> HIDE DEF t
  <2>1. t # <<>> /\ Head(t) = t[1] /\ Tail(t) \in Seq(Unit) /\ Len(Tail(t)) = m.parts - 1
        /\ \A i \in 1..(m.parts - 1) : Tail(t)[i] = t[i + 1]
    BY <1>1, <1>3
  <2> DEFINE h == <<Head(t), NL>>
  <2>2. h \in Seq(Unit) /\ Len(h) = 2 /\ h[1] = TextUnit(m, 1) /\ h[2] = NL
    <3>1. t[1] = TextUnit(m, 1) /\ t[1] \in Unit
      BY <1>1, <1>3
    <3> QED BY <2>1, <3>1, KindsOfUnit
  <2>3. Spread(t) = h \o Tail(t)
    BY <1>1, <1>3 DEF Spread
  <2> HIDE DEF h
  <2>4. /\ h \o Tail(t) \in Seq(Unit) /\ Len(h \o Tail(t)) = m.parts + 1
        /\ \A i \in 1..(m.parts + 1) : (h \o Tail(t))[i] = IF i <= 2 THEN h[i] ELSE Tail(t)[i - 2]
    <3>1. Len(h) + Len(Tail(t)) = m.parts + 1
      BY <2>1, <2>2
    <3>2. /\ h \o Tail(t) \in Seq(Unit) /\ Len(h \o Tail(t)) = Len(h) + Len(Tail(t))
          /\ \A i \in 1..(Len(h) + Len(Tail(t))) :
               (h \o Tail(t))[i] = IF i <= Len(h) THEN h[i] ELSE Tail(t)[i - Len(h)]
      BY <2>1, <2>2, ConcatProperties
    <3> QED BY <2>2, <3>1, <3>2
  <2>5. ASSUME NEW i \in 3..(m.parts + 1) PROVE Tail(t)[i - 2] = TextUnit(m, i - 1)
    <3>1. i - 2 \in 1..(m.parts - 1) /\ (i - 2) + 1 = i - 1 /\ i - 1 \in 1..m.parts
      BY <1>3
    <3>2. Tail(t)[i - 2] = t[i - 1]
      BY <2>1, <3>1
    <3> QED BY <1>1, <3>1, <3>2
  <2>6. 1 \in 1..(m.parts + 1) /\ 2 \in 1..(m.parts + 1) /\ \A i \in 3..(m.parts + 1) : i \in 1..(m.parts + 1) /\ ~(i <= 2)
    BY <1>3
  <2> DEFINE b == h \o Tail(t)
  <2>7. b[1] = TextUnit(m, 1) /\ b[2] = NL
    BY <2>2, <2>4, <2>6
  <2>8. \A i \in 3..(m.parts + 1) : b[i] = TextUnit(m, i - 1)
    BY <2>4, <2>5, <2>6
  <2>9. b \in Seq(Unit) /\ Len(b) = m.parts + 1
    BY <2>4
  <2>10. Spread(Text(m)) = b
    BY <2>3 DEF t
  <2> HIDE DEF b, t
  <2> QED BY <1>3, <2>7, <2>8, <2>9, <2>10
<1> QED BY <1>2, <1>3

\* A payload that says the first w parts of a text is that message if they are all.
LEMMA ParsedIs ==
  ASSUME NEW p \in Seq(Unit), NEW m \in Message, NEW w \in 1..m.parts,
         Cardinality(Said(p, Len(p))) = w,
         \A i \in Said(p, Len(p)) : Cardinality(Said(p, i)) \in 1..w /\ p[i] = TextUnit(m, Cardinality(Said(p, i)))
  PROVE  Parsed(p) = IF w = m.parts THEN {m} ELSE {}
<1>1. Said(p, Len(p)) # {}
  <2>1. SUFFICES ASSUME Said(p, Len(p)) = {} PROVE FALSE
    OBVIOUS
  <2> QED BY <2>1, FS_EmptySet
<1>2. ASSUME NEW n \in Parsed(p) PROVE n = m /\ w = m.parts
  <2>1. n \in Message /\ n.parts = w /\ \A i \in Said(p, Len(p)) : p[i] = Text(n)[Cardinality(Said(p, i))]
    BY DEF Parsed
  <2>2. PICK i \in Said(p, Len(p)) : TRUE
    BY <1>1
  <2> DEFINE c == Cardinality(Said(p, i))
  <2>3. c \in 1..w /\ p[i] = TextUnit(m, c) /\ p[i] = Text(n)[c]
    BY <2>1, <2>2
  <2> HIDE DEF c
  <2>4. Text(n)[c] = TextUnit(n, c)
    BY <2>1, <2>3, TextIs
  <2>5. TextUnit(m, c).msg = m /\ TextUnit(n, c).msg = n
    BY DEF TextUnit
  <2> QED BY <2>1, <2>3, <2>4, <2>5
<1>3. ASSUME w = m.parts PROVE m \in Parsed(p)
  <2>1. ASSUME NEW i \in Said(p, Len(p)) PROVE p[i] = Text(m)[Cardinality(Said(p, i))]
    BY <1>3, TextIs
  <2> QED BY <1>3, <2>1 DEF Parsed
<1> QED BY <1>2, <1>3

LEMMA ParsedText ==
  ASSUME NEW m \in Message, NEW w \in 1..m.parts, NEW p \in Seq(Unit), Len(p) = w,
         \A i \in 1..w : p[i] = TextUnit(m, i)
  PROVE  Parsed(p) = IF w = m.parts THEN {m} ELSE {}
<1>1. \A i \in 0..w : Said(p, i) = 1..i
  BY KindsOfUnit DEF Said
<1>2. \A i \in 0..w : Cardinality(Said(p, i)) = i
  <2>1. \A i \in 0..w : Cardinality(1..i) = i
    <3>1. SUFFICES ASSUME NEW i \in 0..w PROVE Cardinality(1..i) = i
      OBVIOUS
    <3>2. Cardinality(1..i) = IF 1 > i THEN 0 ELSE i - 1 + 1
      BY FS_Interval
    <3> QED BY <3>2
  <2> QED BY <1>1, <2>1
<1>3. /\ Cardinality(Said(p, Len(p))) = w
      /\ \A i \in Said(p, Len(p)) : Cardinality(Said(p, i)) = i /\ i \in 1..w
  BY <1>1, <1>2
<1>4. \A i \in Said(p, Len(p)) : Cardinality(Said(p, i)) \in 1..w /\ p[i] = TextUnit(m, Cardinality(Said(p, i)))
  BY <1>3
<1> QED BY <1>3, <1>4, ParsedIs

LEMMA ParsedBody == ASSUME NEW m \in Message PROVE Parsed(Spread(Text(m))) = {m}
<1> DEFINE b == Spread(Text(m))
<1>1. /\ b \in Seq(Unit)
      /\ m.parts < 2 => b = Text(m)
      /\ m.parts >= 2 => /\ Len(b) = m.parts + 1 /\ b[1] = TextUnit(m, 1) /\ b[2] = NL
                         /\ \A i \in 3..(m.parts + 1) : b[i] = TextUnit(m, i - 1)
  BY SpreadIs
<1> HIDE DEF b
<1>2. m.parts \in Nat \ {0}
  OBVIOUS
<1>3. CASE m.parts < 2
  <2>1. m.parts \in 1..m.parts
    BY <1>2
  <2> QED BY <1>1, <1>3, <2>1, TextIs, ParsedText DEF b
<1>4. CASE m.parts >= 2
  <2> DEFINE n == m.parts + 1
  <2>1. Len(b) = n /\ n \in Nat /\ n >= 3
    BY <1>1, <1>2, <1>4
  <2>2. \A i \in 3..n : Said(b, i) = (1..i) \ {2}
    <3>1. \A j \in 3..n : b[j] # NL
      <4>1. \A j \in 3..n : b[j] = TextUnit(m, j - 1) /\ j - 1 \in Nat
        BY <1>1, <1>4
      <4> QED BY <4>1, KindsOfUnit
    <3>2. b[1] # NL /\ b[2] = NL
      BY <1>1, <1>4, KindsOfUnit
    <3>3. \A i \in 3..n : \A j \in 1..i : j = 1 \/ j = 2 \/ j \in 3..n
      BY <2>1
    <3> QED BY <3>1, <3>2, <3>3 DEF Said
  <2>3. \A i \in 3..n : Cardinality(Said(b, i)) = i - 1
    <3>1. SUFFICES ASSUME NEW i \in 3..n PROVE Cardinality((1..i) \ {2}) = i - 1
      BY <2>2
    <3>2. IsFiniteSet(1..i) /\ Cardinality(1..i) = i /\ 2 \in 1..i
      <4>1. IsFiniteSet(1..i) /\ Cardinality(1..i) = IF 1 > i THEN 0 ELSE i - 1 + 1
        BY <2>1, FS_Interval
      <4> QED BY <2>1, <4>1
    <3> QED BY <3>2, FS_RemoveElement
  <2>4. Said(b, 1) = {1} /\ Cardinality(Said(b, 1)) = 1
    <3>1. Said(b, 1) = {1}
      BY <1>1, <1>4, KindsOfUnit DEF Said
    <3> QED BY <3>1, FS_Singleton
  <2>5. Cardinality(Said(b, Len(b))) = m.parts
    BY <1>2, <2>1, <2>3
  <2>6. ASSUME NEW i \in Said(b, Len(b))
        PROVE  Cardinality(Said(b, i)) \in 1..m.parts /\ b[i] = TextUnit(m, Cardinality(Said(b, i)))
    <3>1. i \in 1..n /\ b[i] # NL
      BY <2>1 DEF Said
    <3>2. i = 1 \/ i \in 3..n
      <4>1. i # 2
        BY <1>1, <1>4, <3>1
      <4> HIDE DEF n
      <4> QED BY <2>1, <3>1, <4>1
    <3>3. CASE i = 1
      BY <1>1, <1>2, <1>4, <2>4, <3>3
    <3>4. CASE i \in 3..n
      <4>1. Cardinality(Said(b, i)) = i - 1
        BY <2>3, <3>4
      <4>2. b[i] = TextUnit(m, i - 1) /\ i - 1 \in 1..m.parts
        BY <1>1, <1>2, <1>4, <3>4
      <4> QED BY <4>1, <4>2
    <3> QED BY <3>2, <3>3, <3>4
  <2>7. m.parts \in 1..m.parts
    BY <1>2
  <2> QED BY <1>1, <2>5, <2>6, <2>7, ParsedIs DEF b
<1> QED BY <1>2, <1>3, <1>4

\* Junk is no message, and nothing is none.
LEMMA ParsedNone ==
  /\ Parsed(<<>>) = {}
  /\ \A p \in Seq(Unit) : Len(p) = 1 /\ p[1] = Junk => Parsed(p) = {}
<1>1. Parsed(<<>>) = {}
  <2>1. Said(<<>>, Len(<<>>)) = {}
    BY DEF Said
  <2>2. Cardinality(Said(<<>>, Len(<<>>))) = 0
    BY <2>1, FS_EmptySet
  <2> QED BY <2>2 DEF Parsed
<1>2. ASSUME NEW p \in Seq(Unit), Len(p) = 1, p[1] = Junk, NEW m \in Parsed(p) PROVE FALSE
  <2>1. Said(p, 1) = {1}
    BY <1>2, KindsOfUnit DEF Said
  <2>2. Cardinality(Said(p, 1)) = 1
    BY <2>1, FS_Singleton
  <2>3. m \in Message /\ p[1] = Text(m)[1]
    BY <1>2, <2>1, <2>2 DEF Parsed
  <2>4. 1 \in 1..m.parts
    BY <2>3
  <2>5. Text(m)[1] = TextUnit(m, 1)
    BY <2>3, <2>4, TextIs
  <2> QED BY <1>2, <2>3, <2>5, KindsOfUnit
<1> QED BY <1>1, <1>2

\* The answer to a frame and the tool it calls.
Answer == UNION {{AnswerTo(f)[i] : i \in DOMAIN AnswerTo(f)} : f \in Sent}
Tool == UNION {{CallOf(f)[i] : i \in DOMAIN CallOf(f)} : f \in Sent}

LEMMA AnswersAre ==
  ASSUME NEW f \in Sent
  PROVE  AnswerTo(f) \in Seq(Answer) /\ CallOf(f) \in Seq(Tool)
<1>1. AnswerTo(f) = <<>> \/ \E x : AnswerTo(f) = <<x>>
  BY DEF AnswerTo
<1>2. CallOf(f) = <<>> \/ \E x : CallOf(f) = <<x>>
  BY DEF CallOf, Calls
<1>3. \A i \in DOMAIN AnswerTo(f) : AnswerTo(f)[i] \in Answer
  BY DEF Answer
<1>4. \A i \in DOMAIN CallOf(f) : CallOf(f)[i] \in Tool
  BY DEF Tool
<1>01. <<>> \in Seq(Answer) /\ <<>> \in Seq(Tool)
  OBVIOUS
<1>5. AnswerTo(f) \in Seq(Answer)
  <2>1. ASSUME NEW x, AnswerTo(f) = <<x>> PROVE <<x>> \in Seq(Answer)
    <3>1. 1 \in DOMAIN AnswerTo(f) /\ AnswerTo(f)[1] = x
      BY <2>1
    <3>2. x \in Answer
      BY <1>3, <3>1
    <3> QED BY <3>2
  <2> QED BY <1>01, <1>1, <2>1
<1>6. CallOf(f) \in Seq(Tool)
  <2>1. ASSUME NEW x, CallOf(f) = <<x>> PROVE <<x>> \in Seq(Tool)
    <3>1. 1 \in DOMAIN CallOf(f) /\ CallOf(f)[1] = x
      BY <2>1
    <3>2. x \in Tool
      BY <1>4, <3>1
    <3> QED BY <3>2
  <2> QED BY <1>01, <1>2, <2>1
<1> QED BY <1>5, <1>6

\* How the server takes a frame: its framing, and what its payload says.
TakenAs(f, payload, lines) ==
  \/ f.kind = "line" /\ lines /\ Parsed(payload) = {f.msg}
  \/ f.kind \in {"typed", "framed"} /\ ~lines /\ Parsed(payload) = {f.msg}
  \/ f.kind = "junk" /\ lines /\ Parsed(payload) = {}
  \/ f.kind = "empty" /\ ~lines /\ Parsed(payload) = {}

LEMMA Dispatched ==
  ASSUME NEW f \in Sent, NEW payload, NEW lines \in BOOLEAN, TakenAs(f, payload, lines), dispatch(payload, lines),
         replies \in Seq(Answer), ran \in Seq(Tool)
  PROVE  replies' = replies \o AnswerTo(f) /\ ran' = ran \o CallOf(f)
<1> DEFINE found == Parsed(payload)
           m == CHOOSE m \in found : TRUE
<1>1. /\ replies' = IF found = {} THEN Append(replies, Reply(NoId, lines, Error("parse")))
                    ELSE IF m.id = NoId THEN replies
                    ELSE Append(replies, Reply(m.id, lines, handle(m)))
      /\ ran' = IF found = {} THEN ran ELSE ran \o Calls(m)
  BY DEF dispatch
<1>2. replies \o <<>> = replies /\ ran \o <<>> = ran
  BY ConcatEmptySeq
<1>3. \A x : replies \o <<x>> = Append(replies, x)
  OBVIOUS
<1>4. CASE found = {}
  <2>1. f.kind \in {"junk", "empty"} /\ (lines <=> f.kind = "junk")
    BY <1>4 DEF TakenAs
  <2>2. AnswerTo(f) = <<Reply(NoId, lines, Error("parse"))>> /\ CallOf(f) = <<>>
    BY <2>1 DEF AnswerTo, CallOf
  <2> QED BY <1>1, <1>2, <1>3, <1>4, <2>2
<1>5. CASE found # {}
  <2>1. f.kind \in {"line", "typed", "framed"} /\ (lines <=> f.kind = "line") /\ found = {f.msg}
    BY <1>5 DEF TakenAs
  <2>2. m = f.msg
    BY <2>1
  <2> HIDE DEF m, found
  <2>3. /\ AnswerTo(f) = IF m.id = NoId THEN <<>> ELSE <<Reply(m.id, lines, handle(m))>>
        /\ CallOf(f) = Calls(m)
    BY <2>1, <2>2 DEF AnswerTo, CallOf
  <2>4. ran' = ran \o CallOf(f)
    BY <1>1, <1>5, <2>3
  <2>5. CASE m.id = NoId
    BY <1>1, <1>2, <1>5, <2>3, <2>4, <2>5
  <2>6. CASE m.id # NoId
    BY <1>1, <1>3, <1>5, <2>3, <2>4, <2>6
  <2> QED BY <2>5, <2>6
<1> QED BY <1>4, <1>5

\* Frames, their units, their answers and their calls, one after the other.
UnitsOf(fs) == FlattenSeq([i \in DOMAIN fs |-> Units(fs[i])])

LEMMA JoinedMore ==
  ASSUME NEW S, NEW ss \in Seq(Seq(S)), NEW s \in Seq(S), NEW tt \in Seq(Seq(S)),
         Len(tt) = Len(ss) + 1, tt[Len(ss) + 1] = s, \A i \in 1..Len(ss) : tt[i] = ss[i]
  PROVE  FlattenSeq(ss) \in Seq(S) /\ FlattenSeq(tt) = FlattenSeq(ss) \o s
<1>1. /\ Append(ss, s) \in Seq(Seq(S)) /\ Len(Append(ss, s)) = Len(ss) + 1
      /\ Append(ss, s)[Len(ss) + 1] = s /\ \A i \in 1..Len(ss) : Append(ss, s)[i] = ss[i]
  OBVIOUS
<1>2. \A i \in 1..(Len(ss) + 1) : tt[i] = Append(ss, s)[i]
  <2>1. \A i \in 1..(Len(ss) + 1) : i = Len(ss) + 1 \/ i \in 1..Len(ss)
    OBVIOUS
  <2> QED BY <1>1, <2>1
<1>3. tt = Append(ss, s)
  BY <1>1, <1>2, SeqEqual
<1> QED BY <1>3, FlattenAppend

LEMMA PartsAre == ASSUME NEW f \in Sent PROVE Units(f) \in Seq(Unit) /\ Body(f) \in Seq(Unit)
<1>1. f.msg \in Message /\ f.kind \in FrameKind
  BY DEF Sent
<1>2. Text(f.msg) \in Seq(Unit) /\ Body(f) \in Seq(Unit)
  <2>1. Text(f.msg) \in Seq(Unit) /\ Spread(Text(f.msg)) \in Seq(Unit)
    BY <1>1, TextIs, SpreadIs
  <2>2. <<>> \in Seq(Unit)
    OBVIOUS
  <2> QED BY <2>1, <2>2 DEF Body
<1> DEFINE n == Len(Body(f))
<1>3. n \in Nat /\ ContentLength(n) \in Unit
  BY <1>2, KindsOfUnit
<1> HIDE DEF n
<1>4. /\ Append(Text(f.msg), NL) \in Seq(Unit) /\ <<Junk, NL>> \in Seq(Unit) /\ <<NL>> \in Seq(Unit)
      /\ <<BadLength, NL>> \in Seq(Unit)
  BY <1>2, KindsOfUnit
<1>5. <<ContentLength(n), NL, OtherHeader, NL, NL>> \in Seq(Unit) /\ <<ContentLength(n), NL, NL>> \in Seq(Unit)
  BY <1>3, KindsOfUnit
<1>6. /\ <<ContentLength(n), NL, OtherHeader, NL, NL>> \o Body(f) \in Seq(Unit)
      /\ <<ContentLength(n), NL, NL>> \o Body(f) \in Seq(Unit)
  BY <1>2, <1>5, ConcatProperties
<1> QED BY <1>2, <1>4, <1>6 DEF Units, n

LEMMA OneMore ==
  ASSUME NEW fs \in Seq(Sent), NEW f \in Sent
  PROVE  /\ AnswersTo(fs) \in Seq(Answer) /\ AnswersTo(Append(fs, f)) = AnswersTo(fs) \o AnswerTo(f)
         /\ CallsOf(fs) \in Seq(Tool) /\ CallsOf(Append(fs, f)) = CallsOf(fs) \o CallOf(f)
         /\ UnitsOf(fs) \in Seq(Unit) /\ UnitsOf(Append(fs, f)) = UnitsOf(fs) \o Units(f)
<1> DEFINE n == Len(fs)
           gs == Append(fs, f)
           answers(hs) == [i \in DOMAIN hs |-> AnswerTo(hs[i])]
           calls(hs) == [i \in DOMAIN hs |-> CallOf(hs[i])]
           units(hs) == [i \in DOMAIN hs |-> Units(hs[i])]
<1>1. /\ n \in Nat /\ gs \in Seq(Sent) /\ Len(gs) = n + 1 /\ DOMAIN fs = 1..n /\ DOMAIN gs = 1..(n + 1)
      /\ gs[n + 1] = f /\ n + 1 \in 1..(n + 1) /\ \A i \in 1..n : gs[i] = fs[i] /\ i \in 1..(n + 1)
  OBVIOUS
<1> HIDE DEF gs
<1>2. ASSUME NEW hs \in Seq(Sent)
      PROVE  /\ answers(hs) \in Seq(Seq(Answer)) /\ Len(answers(hs)) = Len(hs)
             /\ calls(hs) \in Seq(Seq(Tool)) /\ Len(calls(hs)) = Len(hs)
             /\ units(hs) \in Seq(Seq(Unit)) /\ Len(units(hs)) = Len(hs)
  <2>1. DOMAIN hs = 1..Len(hs) /\ Len(hs) \in Nat /\ \A i \in 1..Len(hs) : hs[i] \in Sent
    OBVIOUS
  <2>2. answers(hs) \in Seq(Seq(Answer)) /\ Len(answers(hs)) = Len(hs)
    <3>1. \A i \in 1..Len(hs) : AnswerTo(hs[i]) \in Seq(Answer)
      BY <2>1, AnswersAre
    <3> QED BY <2>1, <3>1
  <2>3. calls(hs) \in Seq(Seq(Tool)) /\ Len(calls(hs)) = Len(hs)
    <3>1. \A i \in 1..Len(hs) : CallOf(hs[i]) \in Seq(Tool)
      BY <2>1, AnswersAre
    <3> QED BY <2>1, <3>1
  <2>4. units(hs) \in Seq(Seq(Unit)) /\ Len(units(hs)) = Len(hs)
    <3>1. \A i \in 1..Len(hs) : Units(hs[i]) \in Seq(Unit)
      BY <2>1, PartsAre
    <3> QED BY <2>1, <3>1
  <2> QED BY <2>2, <2>3, <2>4
<1>3. /\ answers(gs)[n + 1] = AnswerTo(f) /\ \A i \in 1..n : answers(gs)[i] = answers(fs)[i]
      /\ calls(gs)[n + 1] = CallOf(f) /\ \A i \in 1..n : calls(gs)[i] = calls(fs)[i]
      /\ units(gs)[n + 1] = Units(f) /\ \A i \in 1..n : units(gs)[i] = units(fs)[i]
  BY <1>1
<1>4. /\ AnswersTo(fs) = FlattenSeq(answers(fs)) /\ AnswersTo(gs) = FlattenSeq(answers(gs))
      /\ CallsOf(fs) = FlattenSeq(calls(fs)) /\ CallsOf(gs) = FlattenSeq(calls(gs))
      /\ UnitsOf(fs) = FlattenSeq(units(fs)) /\ UnitsOf(gs) = FlattenSeq(units(gs))
  BY DEF AnswersTo, CallsOf, UnitsOf
<1>5. /\ answers(fs) \in Seq(Seq(Answer)) /\ Len(answers(fs)) = n
      /\ answers(gs) \in Seq(Seq(Answer)) /\ Len(answers(gs)) = n + 1
  BY <1>1, <1>2
<1>6. /\ calls(fs) \in Seq(Seq(Tool)) /\ Len(calls(fs)) = n
      /\ calls(gs) \in Seq(Seq(Tool)) /\ Len(calls(gs)) = n + 1
  BY <1>1, <1>2
<1>7. /\ units(fs) \in Seq(Seq(Unit)) /\ Len(units(fs)) = n
      /\ units(gs) \in Seq(Seq(Unit)) /\ Len(units(gs)) = n + 1
  BY <1>1, <1>2
<1> HIDE DEF answers, calls, units, n
<1>8. FlattenSeq(answers(fs)) \in Seq(Answer) /\ FlattenSeq(answers(gs)) = FlattenSeq(answers(fs)) \o AnswerTo(f)
  BY <1>3, <1>5, AnswersAre, JoinedMore
<1>9. FlattenSeq(calls(fs)) \in Seq(Tool) /\ FlattenSeq(calls(gs)) = FlattenSeq(calls(fs)) \o CallOf(f)
  BY <1>3, <1>6, AnswersAre, JoinedMore
<1>10. FlattenSeq(units(fs)) \in Seq(Unit) /\ FlattenSeq(units(gs)) = FlattenSeq(units(fs)) \o Units(f)
  BY <1>3, <1>7, PartsAre, JoinedMore
<1> QED BY <1>4, <1>8, <1>9, <1>10 DEF gs

LEMMA AllBegin ==
  ASSUME NEW fs \in Seq(Sent), NEW gs \in Seq(Sent), IsPrefix(fs, gs)
  PROVE  IsPrefix(AnswersTo(fs), AnswersTo(gs)) /\ IsPrefix(CallsOf(fs), CallsOf(gs)) /\ IsPrefix(UnitsOf(fs), UnitsOf(gs))
<1> DEFINE answers(hs) == [i \in DOMAIN hs |-> AnswerTo(hs[i])]
           calls(hs) == [i \in DOMAIN hs |-> CallOf(hs[i])]
           units(hs) == [i \in DOMAIN hs |-> Units(hs[i])]
<1>1. /\ Len(fs) \in Nat /\ Len(gs) \in Nat /\ Len(fs) <= Len(gs) /\ \A i \in 1..Len(fs) : fs[i] = gs[i]
      /\ DOMAIN fs = 1..Len(fs) /\ DOMAIN gs = 1..Len(gs)
  BY Begins
<1>2. ASSUME NEW hs \in Seq(Sent)
      PROVE  /\ answers(hs) \in Seq(Seq(Answer)) /\ Len(answers(hs)) = Len(hs)
             /\ calls(hs) \in Seq(Seq(Tool)) /\ Len(calls(hs)) = Len(hs)
             /\ units(hs) \in Seq(Seq(Unit)) /\ Len(units(hs)) = Len(hs)
  <2>1. DOMAIN hs = 1..Len(hs) /\ Len(hs) \in Nat /\ \A i \in 1..Len(hs) : hs[i] \in Sent
    OBVIOUS
  <2>2. answers(hs) \in Seq(Seq(Answer)) /\ Len(answers(hs)) = Len(hs)
    <3>1. \A i \in 1..Len(hs) : AnswerTo(hs[i]) \in Seq(Answer)
      BY <2>1, AnswersAre
    <3> QED BY <2>1, <3>1
  <2>3. calls(hs) \in Seq(Seq(Tool)) /\ Len(calls(hs)) = Len(hs)
    <3>1. \A i \in 1..Len(hs) : CallOf(hs[i]) \in Seq(Tool)
      BY <2>1, AnswersAre
    <3> QED BY <2>1, <3>1
  <2>4. units(hs) \in Seq(Seq(Unit)) /\ Len(units(hs)) = Len(hs)
    <3>1. \A i \in 1..Len(hs) : Units(hs[i]) \in Seq(Unit)
      BY <2>1, PartsAre
    <3> QED BY <2>1, <3>1
  <2> QED BY <2>2, <2>3, <2>4
<1>3. \A i \in 1..Len(fs) : /\ answers(fs)[i] = answers(gs)[i] /\ calls(fs)[i] = calls(gs)[i]
                            /\ units(fs)[i] = units(gs)[i]
  BY <1>1
<1>4. /\ AnswersTo(fs) = FlattenSeq(answers(fs)) /\ AnswersTo(gs) = FlattenSeq(answers(gs))
      /\ CallsOf(fs) = FlattenSeq(calls(fs)) /\ CallsOf(gs) = FlattenSeq(calls(gs))
      /\ UnitsOf(fs) = FlattenSeq(units(fs)) /\ UnitsOf(gs) = FlattenSeq(units(gs))
  BY DEF AnswersTo, CallsOf, UnitsOf
<1>5. /\ answers(fs) \in Seq(Seq(Answer)) /\ Len(answers(fs)) = Len(fs)
      /\ answers(gs) \in Seq(Seq(Answer)) /\ Len(answers(gs)) = Len(gs)
  BY <1>2
<1>6. /\ calls(fs) \in Seq(Seq(Tool)) /\ Len(calls(fs)) = Len(fs)
      /\ calls(gs) \in Seq(Seq(Tool)) /\ Len(calls(gs)) = Len(gs)
  BY <1>2
<1>7. /\ units(fs) \in Seq(Seq(Unit)) /\ Len(units(fs)) = Len(fs)
      /\ units(gs) \in Seq(Seq(Unit)) /\ Len(units(gs)) = Len(gs)
  BY <1>2
<1> HIDE DEF answers, calls, units
<1>8. IsPrefix(answers(fs), answers(gs))
  BY <1>1, <1>3, <1>5, Begins
<1>9. IsPrefix(calls(fs), calls(gs))
  BY <1>1, <1>3, <1>6, Begins
<1>10. IsPrefix(units(fs), units(gs))
  BY <1>1, <1>3, <1>7, Begins
<1> QED BY <1>4, <1>5, <1>6, <1>7, <1>8, <1>9, <1>10, FlattenPrefix

\* What a frame looks like.
Headed == {"typed", "framed", "empty"}
BodyAt(f) == IF f.kind = "typed" THEN 5 ELSE 3

LEMMA Shapes ==
  ASSUME NEW f \in Sent
  PROVE  LET u == Units(f)
             n == Len(Body(f))
             m == f.msg
         IN  /\ u \in Seq(Unit) /\ Body(f) \in Seq(Unit) /\ n \in Nat /\ m \in Message
             /\ f.kind = "line" => /\ Len(u) = m.parts + 1 /\ u[m.parts + 1] = NL
                                   /\ \A i \in 1..m.parts : u[i] = TextUnit(m, i)
             /\ f.kind = "junk" => Len(u) = 2 /\ u[1] = Junk /\ u[2] = NL
             /\ f.kind = "blank" => Len(u) = 1 /\ u[1] = NL
             /\ f.kind = "bad" => Len(u) = 2 /\ u[1] = BadLength /\ u[2] = NL
             /\ f.kind \in Headed => /\ Len(u) = BodyAt(f) + n /\ u[1] = ContentLength(n) /\ u[2] = NL
                                     /\ \A i \in 1..n : u[BodyAt(f) + i] = Body(f)[i]
             /\ f.kind = "typed" => u[3] = OtherHeader /\ u[4] = NL /\ u[5] = NL
             /\ f.kind \in {"framed", "empty"} => u[3] = NL
<1> DEFINE u == Units(f)
           b == Body(f)
           n == Len(b)
           m == f.msg
<1>1. u \in Seq(Unit) /\ b \in Seq(Unit) /\ n \in Nat /\ m \in Message /\ f.kind \in FrameKind
  BY PartsAre DEF Sent
<1>2. CASE f.kind = "line"
  <2>1. u = Append(Text(m), NL)
    BY <1>2 DEF Units
  <2>2. Text(m) \in Seq(Unit) /\ Len(Text(m)) = m.parts /\ \A i \in 1..m.parts : Text(m)[i] = TextUnit(m, i)
    BY <1>1, TextIs
  <2> HIDE DEF u, b, n, m
  <2>3. /\ Len(Append(Text(m), NL)) = m.parts + 1 /\ Append(Text(m), NL)[m.parts + 1] = NL
        /\ \A i \in 1..m.parts : Append(Text(m), NL)[i] = TextUnit(m, i)
    BY <2>2
  <2> QED BY <1>1, <1>2, <2>1, <2>3 DEF u, b, n, m, Headed
<1>3. CASE f.kind = "junk"
  BY <1>1, <1>3 DEF Units, Headed
<1>4. CASE f.kind = "blank"
  BY <1>1, <1>4 DEF Units, Headed
<1>5. CASE f.kind = "bad"
  BY <1>1, <1>5 DEF Units, Headed
<1>6. CASE f.kind \in Headed
  <2> DEFINE h == IF f.kind = "typed" THEN <<ContentLength(n), NL, OtherHeader, NL, NL>>
                  ELSE <<ContentLength(n), NL, NL>>
  <2>1. u = h \o b
    BY <1>6 DEF Units, Headed
  <2>2. /\ h \in Seq(Unit) /\ Len(h) = BodyAt(f) /\ h[1] = ContentLength(n) /\ h[2] = NL
        /\ f.kind = "typed" => h[3] = OtherHeader /\ h[4] = NL /\ h[5] = NL
        /\ f.kind # "typed" => h[3] = NL
    <3>1. ContentLength(n) \in Unit /\ NL \in Unit /\ OtherHeader \in Unit
      BY <1>1, KindsOfUnit
    <3> QED BY <3>1 DEF BodyAt
  <2>3. BodyAt(f) \in {3, 5} /\ (f.kind = "typed" => BodyAt(f) = 5)
    BY DEF BodyAt
  <2> HIDE DEF u, h, b, n, m
  <2>4. /\ Len(h \o b) = Len(h) + n
        /\ \A i \in 1..(Len(h) + n) : (h \o b)[i] = IF i <= Len(h) THEN h[i] ELSE b[i - Len(h)]
    BY <1>1, <2>2, ConcatProperties DEF n
  <2>5. Len(u) = BodyAt(f) + n /\ \A i \in 1..BodyAt(f) : u[i] = h[i]
    BY <1>1, <2>1, <2>2, <2>3, <2>4
  <2>6. \A i \in 1..n : u[BodyAt(f) + i] = b[i]
    <3>1. SUFFICES ASSUME NEW i \in 1..n PROVE u[BodyAt(f) + i] = b[i]
      OBVIOUS
    <3>2. BodyAt(f) + i \in 1..(Len(h) + n) /\ ~(BodyAt(f) + i <= Len(h)) /\ (BodyAt(f) + i) - Len(h) = i
      BY <1>1, <2>2, <2>3
    <3> QED BY <2>1, <2>4, <3>2
  <2>7. u[1] = ContentLength(n) /\ u[2] = NL
    BY <2>2, <2>3, <2>5
  <2>8. f.kind = "typed" => u[3] = OtherHeader /\ u[4] = NL /\ u[5] = NL
    BY <2>2, <2>3, <2>5
  <2>9. f.kind # "typed" => u[3] = NL
    BY <2>2, <2>3, <2>5
  <2>10. f.kind \notin {"line", "junk", "blank", "bad"}
    BY <1>6 DEF Headed
  <2> QED BY <1>1, <1>6, <2>5, <2>6, <2>7, <2>8, <2>9, <2>10 DEF u, b, n, m
<1>7. f.kind \in {"line", "junk", "blank", "bad"} \cup Headed
  BY <1>1 DEF FrameKind, Headed
<1> HIDE DEF u, b, n, m
<1> QED BY <1>2, <1>3, <1>4, <1>5, <1>6, <1>7 DEF u, b, n, m

\* Where frames begin in the stream.
At(fs, k) == Len(UnitsOf(SubSeq(fs, 1, k)))

LEMMA FirstFrames ==
  ASSUME NEW fs \in Seq(Sent), NEW k \in 0..Len(fs)
  PROVE  /\ SubSeq(fs, 1, k) \in Seq(Sent) /\ Len(SubSeq(fs, 1, k)) = k
         /\ \A i \in 1..k : SubSeq(fs, 1, k)[i] = fs[i]
         /\ IsPrefix(SubSeq(fs, 1, k), fs)
<1>1. Len(fs) \in Nat /\ \A i \in 1..k : fs[i] \in Sent
  OBVIOUS
<1> DEFINE ss == SubSeq(fs, 1, k)
<1>2. /\ ss \in Seq(Sent) /\ Len(ss) = (IF 1 <= k THEN k - 1 + 1 ELSE 0)
      /\ \A i \in 1..(k - 1 + 1) : ss[i] = fs[1 + i - 1]
  BY <1>1, SubSeqProperties
<1> HIDE DEF ss
<1>3. k - 1 + 1 = k /\ k \in Nat /\ \A i \in 1..k : 1 + i - 1 = i
  BY <1>1
<1>4. Len(ss) = k /\ \A i \in 1..k : ss[i] = fs[i]
  BY <1>2, <1>3
<1>5. IsPrefix(ss, fs)
  BY <1>1, <1>2, <1>4, Begins
<1> QED BY <1>2, <1>4, <1>5 DEF ss

LEMMA FirstAndNext ==
  ASSUME NEW fs \in Seq(Sent), NEW k \in 0..(Len(fs) - 1)
  PROVE  SubSeq(fs, 1, k + 1) = Append(SubSeq(fs, 1, k), fs[k + 1]) /\ fs[k + 1] \in Sent
<1>1. Len(fs) \in Nat /\ k \in 0..Len(fs) /\ k + 1 \in 0..Len(fs) /\ k + 1 \in 1..Len(fs) /\ fs[k + 1] \in Sent /\ k \in Nat
  OBVIOUS
<1> DEFINE ss == SubSeq(fs, 1, k)  tt == SubSeq(fs, 1, k + 1)
<1>2. ss \in Seq(Sent) /\ Len(ss) = k /\ \A i \in 1..k : ss[i] = fs[i]
  BY <1>1, FirstFrames
<1>3. tt \in Seq(Sent) /\ Len(tt) = k + 1 /\ \A i \in 1..(k + 1) : tt[i] = fs[i]
  BY <1>1, FirstFrames
<1> HIDE DEF ss, tt
<1>4. /\ Append(ss, fs[k + 1]) \in Seq(Sent) /\ Len(Append(ss, fs[k + 1])) = k + 1
      /\ Append(ss, fs[k + 1])[k + 1] = fs[k + 1] /\ \A i \in 1..k : Append(ss, fs[k + 1])[i] = ss[i]
  BY <1>1, <1>2
<1>5. \A i \in 1..(k + 1) : tt[i] = Append(ss, fs[k + 1])[i]
  BY <1>1, <1>2, <1>3, <1>4
<1>6. tt = Append(ss, fs[k + 1])
  BY <1>3, <1>4, <1>5, SeqEqual
<1> QED BY <1>1, <1>6 DEF ss, tt

LEMMA AllTyped ==
  /\ AnswersTo(<<>>) = <<>> /\ CallsOf(<<>>) = <<>> /\ UnitsOf(<<>>) = <<>>
  /\ \A fs \in Seq(Sent) : AnswersTo(fs) \in Seq(Answer) /\ CallsOf(fs) \in Seq(Tool) /\ UnitsOf(fs) \in Seq(Unit)
<1>1. AnswersTo(<<>>) = <<>> /\ CallsOf(<<>>) = <<>> /\ UnitsOf(<<>>) = <<>>
  <2>1. DOMAIN <<>> = {} /\ [i \in {} |-> AnswerTo(<<>>[i])] = <<>> /\ [i \in {} |-> CallOf(<<>>[i])] = <<>>
        /\ [i \in {} |-> Units(<<>>[i])] = <<>>
    OBVIOUS
  <2>2. FlattenSeq(<<>>) = <<>>
    BY DEF FlattenSeq
  <2> QED BY <2>1, <2>2 DEF AnswersTo, CallsOf, UnitsOf
<1>2. ASSUME NEW fs \in Seq(Sent)
      PROVE  AnswersTo(fs) \in Seq(Answer) /\ CallsOf(fs) \in Seq(Tool) /\ UnitsOf(fs) \in Seq(Unit)
  <2>1. CASE fs = <<>>
    <3>1. <<>> \in Seq(Answer) /\ <<>> \in Seq(Tool) /\ <<>> \in Seq(Unit)
      OBVIOUS
    <3> QED BY <1>1, <2>1, <3>1
  <2>2. CASE fs # <<>>
    <3>1. fs[1] \in Sent
      BY <2>2
    <3> QED BY <3>1, OneMore
  <2> QED BY <2>1, <2>2
<1> QED BY <1>1, <1>2

LEMMA AtIs ==
  ASSUME NEW fs \in Seq(Sent)
  PROVE  /\ UnitsOf(fs) \in Seq(Unit) /\ At(fs, 0) = 0 /\ At(fs, Len(fs)) = Len(UnitsOf(fs))
         /\ \A k \in 0..Len(fs) : At(fs, k) \in Nat /\ At(fs, k) <= Len(UnitsOf(fs))
         /\ \A j, k \in 0..Len(fs) : j <= k => At(fs, j) <= At(fs, k)
         /\ \A k \in 0..(Len(fs) - 1) :
              /\ At(fs, k + 1) = At(fs, k) + Len(Units(fs[k + 1]))
              /\ \A i \in 1..Len(Units(fs[k + 1])) : UnitsOf(fs)[At(fs, k) + i] = Units(fs[k + 1])[i]
<1> DEFINE w == UnitsOf(fs)
           n == Len(fs)
<1>1. w \in Seq(Unit) /\ Len(w) \in Nat /\ n \in Nat
  BY AllTyped
<1>2. ASSUME NEW k \in 0..n
      PROVE  /\ SubSeq(fs, 1, k) \in Seq(Sent) /\ UnitsOf(SubSeq(fs, 1, k)) \in Seq(Unit) /\ At(fs, k) \in Nat
             /\ IsPrefix(SubSeq(fs, 1, k), fs)
  <2>1. SubSeq(fs, 1, k) \in Seq(Sent) /\ IsPrefix(SubSeq(fs, 1, k), fs)
    BY FirstFrames
  <2>2. UnitsOf(SubSeq(fs, 1, k)) \in Seq(Unit)
    BY <2>1, AllTyped
  <2>3. Len(UnitsOf(SubSeq(fs, 1, k))) \in Nat
    BY <2>2
  <2> QED BY <2>1, <2>2, <2>3 DEF At
<1>3. At(fs, 0) = 0
  <2>1. SubSeq(fs, 1, 0) = <<>>
    <3>1. 0 \in 0..Len(fs)
      BY <1>1
    <3> DEFINE e == SubSeq(fs, 1, 0)
    <3>2. e \in Seq(Sent) /\ Len(e) = 0
      BY <3>1, FirstFrames
    <3> HIDE DEF e
    <3>3. e = <<>>
      BY <3>2, EmptySeq
    <3> QED BY <3>3 DEF e
  <2>2. UnitsOf(SubSeq(fs, 1, 0)) = <<>>
    BY <2>1, AllTyped
  <2>3. Len(<<>>) = 0
    OBVIOUS
  <2> QED BY <2>2, <2>3 DEF At
<1>4. At(fs, n) = Len(w)
  BY SubSeqFull DEF At
<1>5. ASSUME NEW j \in 0..n, NEW k \in 0..n, j <= k PROVE At(fs, j) <= At(fs, k)
  <2> DEFINE s == SubSeq(fs, 1, j)  t == SubSeq(fs, 1, k)
  <2>1. s \in Seq(Sent) /\ Len(s) = j /\ \A i \in 1..j : s[i] = fs[i]
    BY FirstFrames
  <2>2. t \in Seq(Sent) /\ Len(t) = k /\ \A i \in 1..k : t[i] = fs[i]
    BY FirstFrames
  <2> HIDE DEF s, t
  <2>3. IsPrefix(s, t)
    BY <1>5, <2>1, <2>2, Begins
  <2>4. IsPrefix(UnitsOf(s), UnitsOf(t)) /\ UnitsOf(s) \in Seq(Unit) /\ UnitsOf(t) \in Seq(Unit)
    BY <2>1, <2>2, <2>3, AllBegin, AllTyped
  <2>5. Len(UnitsOf(s)) <= Len(UnitsOf(t))
    BY <2>4, Begins
  <2> QED BY <2>5 DEF At, s, t
<1>6. \A k \in 0..n : At(fs, k) <= Len(w)
  BY <1>1, <1>4, <1>5
<1>7. ASSUME NEW k \in 0..(n - 1)
      PROVE  /\ At(fs, k + 1) = At(fs, k) + Len(Units(fs[k + 1]))
             /\ \A i \in 1..Len(Units(fs[k + 1])) : w[At(fs, k) + i] = Units(fs[k + 1])[i]
  <2> DEFINE s == UnitsOf(SubSeq(fs, 1, k))  u == Units(fs[k + 1])  t == UnitsOf(SubSeq(fs, 1, k + 1))
  <2>1. SubSeq(fs, 1, k + 1) = Append(SubSeq(fs, 1, k), fs[k + 1]) /\ fs[k + 1] \in Sent
    BY FirstAndNext
  <2>2. k \in 0..n /\ k + 1 \in 0..n
    BY <1>1
  <2>3. t = s \o u /\ s \in Seq(Unit) /\ u \in Seq(Unit)
    BY <1>2, <2>1, <2>2, OneMore, PartsAre
  <2>4. IsPrefix(t, w) /\ t \in Seq(Unit)
    BY <1>2, <2>2, AllBegin
  <2>5. At(fs, k) = Len(s) /\ At(fs, k + 1) = Len(t)
    BY DEF At
  <2> HIDE DEF s, t, u, w, n
  <2>6. /\ Len(t) = Len(s) + Len(u) /\ Len(s) \in Nat /\ Len(u) \in Nat
        /\ \A i \in 1..Len(u) : t[Len(s) + i] = u[i]
    <3>1. Len(s) \in Nat /\ Len(u) \in Nat
      BY <2>3
    <3>2. /\ Len(s \o u) = Len(s) + Len(u)
          /\ \A i \in 1..(Len(s) + Len(u)) : (s \o u)[i] = IF i <= Len(s) THEN s[i] ELSE u[i - Len(s)]
      BY <2>3, ConcatProperties
    <3>3. \A i \in 1..Len(u) : /\ Len(s) + i \in 1..(Len(s) + Len(u)) /\ ~(Len(s) + i <= Len(s))
                               /\ (Len(s) + i) - Len(s) = i
      BY <3>1
    <3> QED BY <2>3, <3>1, <3>2, <3>3
  <2>7. \A i \in 1..Len(t) : t[i] = w[i]
    BY <1>1, <2>4, Begins
  <2>8. \A i \in 1..Len(u) : Len(s) + i \in 1..Len(t)
    BY <2>6
  <2>9. \A i \in 1..Len(u) : w[Len(s) + i] = u[i]
    BY <2>6, <2>7, <2>8
  <2> QED BY <2>5, <2>6, <2>9 DEF u
<1> HIDE DEF w, n
<1> QED BY <1>1, <1>2, <1>3, <1>4, <1>5, <1>6, <1>7 DEF w, n

\* What the client wrote of its frames and the server has not read, and what the client
\* has not written, are the stream from p on; the client is within its last frame.
Held(fs, u, s, p) ==
  /\ u \in Seq(Unit) /\ s \in Seq(Unit) /\ p \in Nat
  /\ Len(UnitsOf(fs)) = p + Len(u) + Len(s)
  /\ \A i \in 1..Len(u) : u[i] = UnitsOf(fs)[p + i]
  /\ \A i \in 1..Len(s) : s[i] = UnitsOf(fs)[p + Len(u) + i]
  /\ IF fs = <<>> THEN s = <<>> ELSE Len(s) <= Len(Units(fs[Len(fs)]))

\* After o units of frame k + 1.
Stream(fs, u, s, k, o) ==
  /\ k \in 0..Len(fs)
  /\ IF k < Len(fs) THEN o \in 0..Len(Units(fs[k + 1])) ELSE o = 0
  /\ Held(fs, u, s, At(fs, k) + o)

LEMMA Ahead ==
  ASSUME NEW fs \in Seq(Sent), NEW u, NEW s, NEW k, NEW o, Stream(fs, u, s, k, o)
  PROVE  /\ u \in Seq(Unit) /\ s \in Seq(Unit) /\ k \in 0..Len(fs) /\ o \in Nat
         /\ k = Len(fs) => u = <<>> /\ s = <<>>
         /\ k < Len(fs) =>
              /\ \A i \in 1..Len(u) : o + i <= Len(Units(fs[k + 1])) => u[i] = Units(fs[k + 1])[o + i]
              /\ o + Len(u) < Len(Units(fs[k + 1])) =>
                   /\ k + 1 = Len(fs) /\ Len(s) = Len(Units(fs[k + 1])) - (o + Len(u)) /\ s # <<>>
                   /\ \A i \in 1..Len(s) : s[i] = Units(fs[k + 1])[o + Len(u) + i]
<1> DEFINE w == UnitsOf(fs)
           n == Len(fs)
           a == At(fs, k)
           f == Units(fs[k + 1])
<1>1. /\ w \in Seq(Unit) /\ Len(w) \in Nat /\ At(fs, n) = Len(w) /\ n \in Nat
      /\ \A j \in 0..n : At(fs, j) \in Nat
      /\ \A i, j \in 0..n : i <= j => At(fs, i) <= At(fs, j)
  BY AtIs
<1>2. /\ k \in 0..n /\ u \in Seq(Unit) /\ s \in Seq(Unit) /\ Len(u) \in Nat /\ Len(s) \in Nat
      /\ Len(w) = (a + o) + Len(u) + Len(s)
      /\ \A i \in 1..Len(u) : u[i] = w[(a + o) + i]
      /\ \A i \in 1..Len(s) : s[i] = w[(a + o) + Len(u) + i]
      /\ IF fs = <<>> THEN s = <<>> ELSE Len(s) <= Len(Units(fs[n]))
  BY DEF Stream, Held
<1>3. a \in Nat
  BY <1>1, <1>2
<1>4. CASE k = n
  <2>1. o = 0
    BY <1>1, <1>4 DEF Stream
  <2>2. Len(u) = 0 /\ Len(s) = 0
    BY <1>1, <1>2, <1>3, <1>4, <2>1
  <2>3. u = <<>> /\ s = <<>>
    BY <1>2, <2>2, EmptySeq
  <2> QED BY <1>1, <1>2, <1>4, <2>1, <2>3
<1>5. CASE k < n
  <2>1. k \in 0..(n - 1) /\ k + 1 \in 1..n /\ k + 1 \in 0..n
    BY <1>1, <1>2, <1>5
  <2>2. fs[k + 1] \in Sent
    BY <2>1
  <2>3. f \in Seq(Unit) /\ Len(f) \in Nat /\ o \in 0..Len(f) /\ o \in Nat
    BY <1>5, <2>2, PartsAre DEF Stream
  <2>4. At(fs, k + 1) = a + Len(f) /\ \A i \in 1..Len(f) : w[a + i] = f[i]
    BY <2>1, AtIs
  <2>5. ASSUME NEW i \in 1..Len(u), o + i <= Len(f) PROVE u[i] = f[o + i]
    <3>1. o + i \in 1..Len(f) /\ (a + o) + i = a + (o + i)
      <4> HIDE DEF w, n, a, f
      <4> QED BY <1>2, <1>3, <2>3, <2>5
    <3> QED BY <1>2, <2>4, <3>1
  <2>6. ASSUME o + Len(u) < Len(f)
        PROVE  /\ k + 1 = n /\ Len(s) = Len(f) - (o + Len(u)) /\ s # <<>>
               /\ \A i \in 1..Len(s) : s[i] = f[o + Len(u) + i]
    <3>1. ASSUME k + 1 # n PROVE FALSE
      <4>1. n - 1 \in 0..n /\ n - 1 \in 0..(n - 1) /\ k + 1 <= n - 1 /\ (n - 1) + 1 = n /\ fs # <<>>
        BY <1>1, <2>1, <3>1
      <4>2. At(fs, k + 1) <= At(fs, n - 1)
        BY <1>1, <2>1, <4>1
      <4>3. At(fs, n) = At(fs, n - 1) + Len(Units(fs[n]))
        BY <4>1, AtIs
      <4>4. Len(Units(fs[n])) \in Nat
        <5>1. fs[n] \in Sent
          BY <2>1
        <5>2. Units(fs[n]) \in Seq(Unit)
          BY <5>1, PartsAre
        <5> QED BY <5>2
      <4>5. Len(s) <= Len(Units(fs[n]))
        BY <1>2, <4>1
      <4>6. At(fs, n - 1) \in Nat
        BY <1>1, <4>1
      <4>7. At(fs, k + 1) = a + Len(f) /\ At(fs, n) = Len(w) /\ At(fs, n) \in Nat
        BY <1>1, <2>4
      <4>8. Len(w) = a + o + Len(u) + Len(s) /\ o + Len(u) < Len(f) /\ a \in Nat /\ o \in Nat /\ Len(f) \in Nat
            /\ Len(u) \in Nat /\ Len(s) \in Nat
        BY <1>2, <1>3, <2>3, <2>6
      <4> DEFINE x == At(fs, k + 1)  y == At(fs, n - 1)  z == At(fs, n)  d == Len(Units(fs[n]))
                 lf == Len(f)  lw == Len(w)  lu == Len(u)  ls == Len(s)
      <4>9. /\ x <= y /\ z = y + d /\ ls <= d /\ x = a + lf /\ z = lw /\ lw = a + o + lu + ls /\ o + lu < lf
            /\ a \in Nat /\ o \in Nat /\ lf \in Nat /\ lu \in Nat /\ ls \in Nat /\ d \in Nat /\ y \in Nat
        BY <4>2, <4>3, <4>4, <4>5, <4>6, <4>7, <4>8
      <4> HIDE DEF x, y, z, d, lf, lw, lu, ls, a
      <4> QED BY <4>9
    <3>2. At(fs, k + 1) = Len(w)
      BY <1>1, <3>1
    <3>3. Len(s) = Len(f) - (o + Len(u)) /\ Len(s) > 0
      <4> DEFINE lf == Len(f)  lu == Len(u)  ls == Len(s)
      <4>1. /\ a + lf = (a + o) + lu + ls /\ o + lu < lf
            /\ a \in Nat /\ o \in Nat /\ lf \in Nat /\ lu \in Nat /\ ls \in Nat
        BY <1>2, <1>3, <2>3, <2>4, <2>6, <3>2
      <4> HIDE DEF lf, lu, ls, a
      <4>2. ls = lf - (o + lu) /\ ls > 0
        BY <4>1
      <4> QED BY <4>2 DEF lf, lu, ls
    <3>4. s # <<>>
      BY <1>2, <3>3
    <3>5. ASSUME NEW i \in 1..Len(s) PROVE s[i] = f[o + Len(u) + i]
      <4>1. o + Len(u) + i \in 1..Len(f) /\ (a + o) + Len(u) + i = a + (o + Len(u) + i)
        <5> DEFINE lf == Len(f)  lu == Len(u)  ls == Len(s)
        <5>1. /\ i \in 1..ls /\ ls = lf - (o + lu) /\ a \in Nat /\ o \in Nat
              /\ lf \in Nat /\ lu \in Nat /\ ls \in Nat
          BY <1>2, <1>3, <2>3, <3>3
        <5> HIDE DEF lf, lu, ls, a
        <5>2. o + lu + i \in 1..lf /\ (a + o) + lu + i = a + (o + lu + i)
          BY <5>1
        <5> QED BY <5>2 DEF lf, lu
      <4> QED BY <1>2, <2>4, <4>1
    <3> QED BY <3>1, <3>3, <3>4, <3>5
  <2>7. ~(k = n)
    BY <1>1, <1>5
  <2> QED BY <1>2, <2>3, <2>5, <2>6, <2>7
<1> QED BY <1>1, <1>2, <1>4, <1>5

\* Frame k + 1 has not arrived whole.
LEMMA Partial ==
  ASSUME NEW fs \in Seq(Sent), NEW u, NEW s, NEW k, NEW o, Stream(fs, u, s, k, o), k < Len(fs),
         o + Len(u) < Len(Units(fs[k + 1]))
  PROVE  /\ k + 1 = Len(fs) /\ s # <<>> /\ fs # <<>> /\ Last(fs) = fs[k + 1] /\ Front(fs) = SubSeq(fs, 1, k)
         /\ Len(Units(fs[k + 1])) - Len(s) = o + Len(u)
<1>1. k + 1 = Len(fs) /\ Len(s) = Len(Units(fs[k + 1])) - (o + Len(u)) /\ s # <<>> /\ k \in 0..Len(fs)
      /\ o \in Nat /\ u \in Seq(Unit) /\ s \in Seq(Unit)
  BY Ahead
<1>2. Len(u) \in Nat /\ Len(fs) \in Nat /\ k + 1 \in 1..Len(fs) /\ Len(fs) - 1 = k
  BY <1>1
<1>3. fs[k + 1] \in Sent
  BY <1>2
<1>4. Units(fs[k + 1]) \in Seq(Unit)
  BY <1>3, PartsAre
<1>5. Len(Units(fs[k + 1])) \in Nat
  BY <1>4
<1>6. Len(Units(fs[k + 1])) - Len(s) = o + Len(u)
  <2> DEFINE x == Len(Units(fs[k + 1]))  y == Len(u)  z == Len(s)
  <2>1. x \in Nat /\ y \in Nat /\ z \in Nat /\ o \in Nat /\ z = x - (o + y)
    BY <1>1, <1>2, <1>5
  <2> HIDE DEF x, y, z
  <2>2. x - z = o + y
    BY <2>1
  <2> QED BY <2>2 DEF x, y, z
<1>7. Last(fs) = fs[k + 1] /\ Front(fs) = SubSeq(fs, 1, k)
  BY <1>1, <1>2 DEF Last, Front
<1>8. fs # <<>>
  BY <1>2
<1> QED BY <1>1, <1>6, <1>7, <1>8

\* The server reads n units.
LEMMA Moves ==
  ASSUME NEW fs \in Seq(Sent), NEW u, NEW s, NEW k, NEW o, Stream(fs, u, s, k, o), k < Len(fs),
         NEW n \in Nat, n <= Len(u), o + n <= Len(Units(fs[k + 1])), NEW v, v = SubSeq(u, n + 1, Len(u))
  PROVE  /\ Stream(fs, v, s, k, o + n)
         /\ o + n = Len(Units(fs[k + 1])) => Stream(fs, v, s, k + 1, 0)
<1> DEFINE p == At(fs, k) + o  q == At(fs, k) + (o + n)  w == UnitsOf(fs)
<1>1. k \in 0..(Len(fs) - 1) /\ k + 1 \in 0..Len(fs) /\ o \in Nat /\ u \in Seq(Unit) /\ s \in Seq(Unit) /\ Len(fs) \in Nat
      /\ k \in 0..Len(fs) /\ fs # <<>>
  BY Ahead
<1>2. /\ At(fs, k) \in Nat /\ At(fs, k + 1) = At(fs, k) + Len(Units(fs[k + 1]))
  BY <1>1, AtIs
<1>3. /\ Len(w) = p + Len(u) + Len(s) /\ \A i \in 1..Len(u) : u[i] = w[p + i]
      /\ \A i \in 1..Len(s) : s[i] = w[p + Len(u) + i]
      /\ Len(s) <= Len(Units(fs[Len(fs)]))
  BY <1>1 DEF Stream, Held
<1>4. q = p + n /\ q \in Nat /\ p \in Nat /\ Len(u) \in Nat /\ Len(s) \in Nat
  BY <1>1, <1>2
<1>5. /\ v \in Seq(Unit) /\ Len(v) = Len(u) - n /\ \A i \in 1..Len(v) : v[i] = u[n + i]
  <2>1. \A i \in (n + 1)..Len(u) : u[i] \in Unit
    BY <1>1, <1>4
  <2>2. n + 1 \in Int /\ Len(u) \in Int
    BY <1>4
  <2>3. /\ v \in Seq(Unit) /\ Len(v) = (IF n + 1 <= Len(u) THEN Len(u) - (n + 1) + 1 ELSE 0)
        /\ \A i \in 1..(Len(u) - (n + 1) + 1) : v[i] = u[(n + 1) + i - 1]
    BY <2>1, <2>2, SubSeqProperties
  <2>4. Len(u) - (n + 1) + 1 = Len(u) - n /\ (n + 1 <= Len(u) \/ Len(u) - n = 0)
    BY <1>4
  <2>5. \A i \in 1..(Len(u) - n) : (n + 1) + i - 1 = n + i
    BY <1>4
  <2>6. Len(v) = Len(u) - n
    BY <2>3, <2>4
  <2>7. \A i \in 1..(Len(u) - n) : v[i] = u[n + i]
    BY <2>3, <2>4, <2>5
  <2> QED BY <2>3, <2>6, <2>7
<1> HIDE DEF p, q, w
<1>6. Held(fs, v, s, q)
  <2>0. q + Len(v) = p + Len(u) /\ q + Len(v) \in Nat
    <3> DEFINE x == Len(u)  y == Len(v)
    <3>1. q = p + n /\ y = x - n /\ p \in Nat /\ x \in Nat /\ n <= x
      BY <1>4, <1>5
    <3> HIDE DEF x, y
    <3>2. q + y = p + x /\ q + y \in Nat
      BY <3>1
    <3> QED BY <3>2 DEF x, y
  <2>1. Len(w) = q + Len(v) + Len(s)
    BY <1>3, <2>0
  <2>2. ASSUME NEW i \in 1..Len(v) PROVE v[i] = w[q + i]
    <3>1. n + i \in 1..Len(u) /\ p + (n + i) = q + i
      BY <1>4, <1>5
    <3> QED BY <1>3, <1>5, <3>1
  <2>3. ASSUME NEW i \in 1..Len(s) PROVE s[i] = w[q + Len(v) + i]
    <3>1. p + Len(u) + i = q + Len(v) + i
      BY <2>0
    <3> QED BY <1>3, <3>1
  <2>4. Len(s) <= Len(Units(fs[Len(fs)]))
    BY <1>3
  <2> QED BY <1>1, <1>4, <1>5, <2>1, <2>2, <2>3, <2>4 DEF Held, w
<1>7. fs[k + 1] \in Sent
  BY <1>1
<1>8. Units(fs[k + 1]) \in Seq(Unit)
  BY <1>7, PartsAre
<1>9. Len(Units(fs[k + 1])) \in Nat
  BY <1>8
<1>10. Stream(fs, v, s, k, o + n)
  <2>1. o + n \in 0..Len(Units(fs[k + 1])) /\ k < Len(fs)
    BY <1>1, <1>9
  <2> QED BY <1>1, <1>6, <2>1 DEF Stream, q
<1>11. o + n = Len(Units(fs[k + 1])) => Stream(fs, v, s, k + 1, 0)
  <2>1. SUFFICES ASSUME o + n = Len(Units(fs[k + 1])) PROVE Stream(fs, v, s, k + 1, 0)
    OBVIOUS
  <2>2. q = At(fs, k + 1) + 0
    BY <1>2, <1>9, <2>1 DEF q
  <2>3. k + 1 < Len(fs) => 0 \in 0..Len(Units(fs[(k + 1) + 1]))
    <3>1. SUFFICES ASSUME k + 1 < Len(fs) PROVE 0 \in 0..Len(Units(fs[(k + 1) + 1]))
      OBVIOUS
    <3>2. fs[(k + 1) + 1] \in Sent
      BY <1>1, <3>1
    <3>3. Units(fs[(k + 1) + 1]) \in Seq(Unit)
      BY <3>2, PartsAre
    <3> QED BY <3>3
  <2> QED BY <1>1, <1>6, <2>2, <2>3 DEF Stream
<1> QED BY <1>10, <1>11

LEMMA Sends ==
  ASSUME NEW fs \in Seq(Sent), NEW u, NEW s, NEW k, NEW o, Stream(fs, u, s, k, o), s = <<>>, NEW f \in Sent
  PROVE  Stream(Append(fs, f), u, Units(f), k, o)
<1> DEFINE gs == Append(fs, f)  n == Len(fs)  w == UnitsOf(fs)  t == Units(f)  v == UnitsOf(gs)
<1>1. /\ gs \in Seq(Sent) /\ n \in Nat /\ Len(gs) = n + 1 /\ gs[n + 1] = f /\ \A i \in 1..n : gs[i] = fs[i]
      /\ gs # <<>>
  OBVIOUS
<1>2. v = w \o t /\ w \in Seq(Unit) /\ t \in Seq(Unit) /\ v \in Seq(Unit)
  BY <1>1, OneMore, PartsAre, AllTyped
<1>3. k \in 0..n /\ o \in Nat /\ u \in Seq(Unit)
  BY Ahead
<1>4. SubSeq(gs, 1, k) = SubSeq(fs, 1, k)
  <2> DEFINE a == SubSeq(fs, 1, k)  b == SubSeq(gs, 1, k)
  <2>1. a \in Seq(Sent) /\ Len(a) = k /\ \A i \in 1..k : a[i] = fs[i]
    BY <1>3, FirstFrames
  <2>2. k \in 0..Len(gs) /\ \A i \in 1..k : i \in 1..n
    BY <1>1, <1>3
  <2> HIDE DEF gs
  <2>3. b \in Seq(Sent) /\ Len(b) = k /\ \A i \in 1..k : b[i] = gs[i]
    BY <1>1, <2>2, FirstFrames
  <2> HIDE DEF a, b
  <2>4. \A i \in 1..k : a[i] = b[i]
    BY <1>1, <2>1, <2>2, <2>3
  <2>5. a = b
    BY <2>1, <2>3, <2>4, SeqEqual
  <2> QED BY <2>5 DEF a, b
<1>5. At(gs, k) = At(fs, k) /\ At(fs, k) \in Nat
  BY <1>3, <1>4, AtIs DEF At
<1> DEFINE p == At(fs, k) + o
<1>6. /\ Len(w) = p + Len(u) + Len(s) /\ \A i \in 1..Len(u) : u[i] = w[p + i]
  BY DEF Stream, Held
<1>7. p \in Nat /\ Len(u) \in Nat /\ Len(t) \in Nat /\ Len(w) = p + Len(u)
  <2>1. p \in Nat /\ Len(u) \in Nat /\ Len(t) \in Nat
    BY <1>2, <1>3, <1>5
  <2>2. Len(s) = 0
    OBVIOUS
  <2> HIDE DEF p, w
  <2> QED BY <1>6, <2>1, <2>2
<1> HIDE DEF w, t, p
<1>8. /\ Len(w \o t) = Len(w) + Len(t)
      /\ \A i \in 1..(Len(w) + Len(t)) : (w \o t)[i] = IF i <= Len(w) THEN w[i] ELSE t[i - Len(w)]
  BY <1>2, ConcatProperties
<1>9. ASSUME NEW i \in 1..Len(u) PROVE u[i] = v[p + i]
  <2>1. p + i \in 1..(Len(w) + Len(t)) /\ p + i <= Len(w)
    BY <1>7
  <2> QED BY <1>2, <1>6, <1>8, <2>1
<1>10. ASSUME NEW i \in 1..Len(t) PROVE t[i] = v[p + Len(u) + i]
  <2>1. p + Len(u) + i \in 1..(Len(w) + Len(t)) /\ ~(p + Len(u) + i <= Len(w)) /\ (p + Len(u) + i) - Len(w) = i
    BY <1>7
  <2> QED BY <1>2, <1>8, <2>1
<1>11. Len(v) = p + Len(u) + Len(t)
  BY <1>2, <1>7, <1>8
<1>12. Len(t) <= Len(Units(gs[Len(gs)]))
  <2>1. gs[Len(gs)] = f
    BY <1>1
  <2> QED BY <1>7, <2>1 DEF t
<1>13. Held(gs, u, t, At(gs, k) + o)
  <2> HIDE DEF gs, v
  <2>1. Held(gs, u, t, p)
    BY <1>1, <1>2, <1>3, <1>7, <1>9, <1>10, <1>11, <1>12 DEF Held, v
  <2> QED BY <1>5, <2>1 DEF p
<1>14. k \in 0..Len(gs) /\ k < Len(gs) /\ o \in 0..Len(Units(gs[k + 1]))
  <2>1. k \in 0..Len(gs) /\ k < Len(gs)
    BY <1>1, <1>3
  <2>2. CASE k < n
    <3>1. o \in 0..Len(Units(fs[k + 1])) /\ gs[k + 1] = fs[k + 1]
      BY <1>1, <1>3, <2>2 DEF Stream
    <3> QED BY <2>1, <3>1
  <2>3. CASE ~(k < n)
    <3>1. k = n /\ o = 0
      BY <1>3, <2>3 DEF Stream
    <3>2. gs[k + 1] = f
      BY <1>1, <3>1
    <3> QED BY <1>7, <2>1, <3>1, <3>2 DEF t
  <2> QED BY <2>2, <2>3
<1> HIDE DEF gs
<1>15. Stream(gs, u, t, k, o)
  BY <1>13, <1>14 DEF Stream
<1> QED BY <1>15 DEF gs, t

LEMMA Writes ==
  ASSUME NEW fs \in Seq(Sent), NEW u, NEW s, NEW k, NEW o, Stream(fs, u, s, k, o), s # <<>>
  PROVE  Stream(fs, Append(u, Head(s)), Tail(s), k, o)
<1> DEFINE v == Append(u, Head(s))  t == Tail(s)  p == At(fs, k) + o  w == UnitsOf(fs)
<1>1. u \in Seq(Unit) /\ s \in Seq(Unit)
  BY Ahead
<1>2. /\ v \in Seq(Unit) /\ Len(v) = Len(u) + 1 /\ v[Len(u) + 1] = s[1] /\ \A i \in 1..Len(u) : v[i] = u[i]
      /\ t \in Seq(Unit) /\ Len(t) = Len(s) - 1 /\ \A i \in 1..Len(t) : t[i] = s[i + 1]
      /\ Len(u) \in Nat /\ Len(s) \in Nat /\ Len(s) > 0 /\ 1 \in 1..Len(s)
  BY <1>1
<1>3. /\ p \in Nat /\ Len(w) = p + Len(u) + Len(s)
      /\ \A i \in 1..Len(u) : u[i] = w[p + i]
      /\ \A i \in 1..Len(s) : s[i] = w[p + Len(u) + i]
      /\ IF fs = <<>> THEN s = <<>> ELSE Len(s) <= Len(Units(fs[Len(fs)]))
  BY DEF Stream, Held
<1> HIDE DEF v, t, p, w
<1>4. Len(w) = p + Len(v) + Len(t)
  BY <1>2, <1>3
<1>5. ASSUME NEW i \in 1..Len(v) PROVE v[i] = w[p + i]
  <2>1. CASE i \in 1..Len(u)
    BY <1>2, <1>3, <2>1
  <2>2. CASE i = Len(u) + 1
    <3>1. p + Len(u) + 1 = p + i
      BY <1>2, <1>3, <2>2
    <3> QED BY <1>2, <1>3, <2>2, <3>1
  <2> QED BY <1>2, <2>1, <2>2
<1>6. ASSUME NEW i \in 1..Len(t) PROVE t[i] = w[p + Len(v) + i]
  <2>1. i + 1 \in 1..Len(s) /\ p + Len(u) + (i + 1) = p + Len(v) + i
    BY <1>2, <1>3
  <2> QED BY <1>2, <1>3, <2>1
<1>7. fs # <<>> /\ Len(t) <= Len(Units(fs[Len(fs)]))
  <2>1. fs # <<>>
    BY <1>3
  <2>2. fs[Len(fs)] \in Sent
    BY <2>1
  <2>3. Units(fs[Len(fs)]) \in Seq(Unit)
    BY <2>2, PartsAre
  <2>4. Len(Units(fs[Len(fs)])) \in Nat
    BY <2>3
  <2> QED BY <1>2, <1>3, <2>1, <2>4
<1>8. Held(fs, v, t, p)
  BY <1>2, <1>3, <1>4, <1>5, <1>6, <1>7 DEF Held, w
<1>9. Stream(fs, v, t, k, o)
  BY <1>8 DEF Stream, p
<1> QED BY <1>9 DEF v, t

\* A line is what comes before the first newline, or everything if the input is closed.
LEMMA LineRead ==
  ASSUME unread \in Seq(Unit), NEW e \in 1..Len(unread), unread[e] = NL, \A j \in 1..(e - 1) : unread[j] # NL
  PROVE  /\ HasLine /\ Line \in Seq(Unit) /\ Len(Line) = e - 1 /\ \A i \in 1..(e - 1) : Line[i] = unread[i]
         /\ AfterLine = SubSeq(unread, e + 1, Len(unread))
<1>1. Len(unread) \in Nat /\ DOMAIN unread = 1..Len(unread) /\ e \in Nat /\ e - 1 \in Nat
  OBVIOUS
<1>2. HasLine
  BY <1>1 DEF HasLine
<1>3. LineEnd = e
  <2>1. ASSUME NEW i \in DOMAIN unread, unread[i] = NL, \A j \in 1..(i - 1) : unread[j] # NL PROVE i = e
    <3>1. ~(i < e)
      BY <1>1, <2>1
    <3>2. ~(e < i)
      BY <1>1, <2>1
    <3> QED BY <1>1, <3>1, <3>2
  <2> QED BY <1>1, <2>1 DEF LineEnd
<1> DEFINE l == SubSeq(unread, 1, e - 1)
<1>4. \A i \in 1..(e - 1) : unread[i] \in Unit
  BY <1>1
<1>5. l \in Seq(Unit) /\ Len(l) = e - 1 /\ \A i \in 1..(e - 1) : l[i] = unread[i]
  <2>1. /\ l \in Seq(Unit) /\ Len(l) = (IF 1 <= e - 1 THEN (e - 1) - 1 + 1 ELSE 0)
        /\ \A i \in 1..((e - 1) - 1 + 1) : l[i] = unread[1 + i - 1]
    BY <1>1, <1>4, SubSeqProperties
  <2>2. (e - 1) - 1 + 1 = e - 1 /\ (1 <= e - 1 \/ e - 1 = 0) /\ \A i \in 1..(e - 1) : 1 + i - 1 = i
    BY <1>1
  <2> QED BY <2>1, <2>2
<1>6. Line = l /\ AfterLine = SubSeq(unread, e + 1, Len(unread))
  BY <1>2, <1>3 DEF Line, AfterLine
<1> HIDE DEF l
<1> QED BY <1>2, <1>5, <1>6

LEMMA NoLine ==
  ASSUME unread \in Seq(Unit), \A i \in 1..Len(unread) : unread[i] # NL
  PROVE  ~HasLine /\ Line = unread /\ AfterLine = <<>>
<1>1. ~HasLine
  BY DEF HasLine
<1> QED BY <1>1 DEF Line, AfterLine

\* The frames before the first that ends the session.
Clean(fs, k) == \A i \in 1..k : fs[i].kind # "bad"

LEMMA BeforeBadIs ==
  ASSUME NEW fs \in Seq(Sent), NEW k \in 0..Len(fs), Clean(fs, k)
  PROVE  /\ \E n \in k..Len(fs) : BeforeBad(fs) = SubSeq(fs, 1, n) /\ Clean(fs, n)
         /\ k = Len(fs) => BeforeBad(fs) = fs
         /\ k < Len(fs) /\ fs[k + 1].kind = "bad" => BeforeBad(fs) = SubSeq(fs, 1, k)
<1> DEFINE bad == {i \in DOMAIN fs : fs[i].kind = "bad"}
           first == CHOOSE i \in bad : \A j \in bad : i <= j
<1>1. Len(fs) \in Nat /\ DOMAIN fs = 1..Len(fs) /\ k \in Nat
  OBVIOUS
<1>2. BeforeBad(fs) = SubSeq(fs, 1, IF bad = {} THEN Len(fs) ELSE first - 1)
  BY DEF BeforeBad
<1>3. CASE bad = {}
  <2>1. BeforeBad(fs) = SubSeq(fs, 1, Len(fs))
    BY <1>2, <1>3
  <2>2. Clean(fs, Len(fs)) /\ Len(fs) \in k..Len(fs)
    BY <1>1, <1>3 DEF Clean
  <2>3. SubSeq(fs, 1, Len(fs)) = fs
    BY SubSeqFull
  <2>4. k < Len(fs) => k + 1 \in 1..Len(fs)
    BY <1>1
  <2>5. k < Len(fs) => fs[k + 1].kind # "bad"
    BY <1>1, <1>3, <2>4
  <2> QED BY <2>1, <2>2, <2>3, <2>5
<1>4. CASE bad # {}
  <2>1. bad \subseteq Nat /\ bad \subseteq 1..Len(fs)
    BY <1>1
  <2>2. PICK b \in bad : \A j \in bad : b <= j
    <3> HIDE DEF bad
    <3> QED BY <1>4, <2>1, LeastNumber
  <2>3. first = b
    <3>1. \A i \in bad : (\A j \in bad : i <= j) => i = b
      BY <2>1, <2>2
    <3> HIDE DEF bad
    <3> QED BY <2>2, <3>1
  <2>4. b \in 1..Len(fs) /\ fs[b].kind = "bad" /\ \A i \in 1..(b - 1) : fs[i].kind # "bad"
    <3>1. b \in 1..Len(fs) /\ fs[b].kind = "bad"
      BY <1>1, <2>2
    <3>2. ASSUME NEW i \in 1..(b - 1), fs[i].kind = "bad" PROVE FALSE
      <4>1. i \in bad
        BY <1>1, <3>1, <3>2
      <4> QED BY <2>1, <2>2, <4>1
    <3> QED BY <3>1, <3>2
  <2>5. b > k
    BY <1>1, <2>4 DEF Clean
  <2>6. BeforeBad(fs) = SubSeq(fs, 1, b - 1)
    BY <1>2, <1>4, <2>3
  <2>7. b - 1 \in k..Len(fs) /\ Clean(fs, b - 1) /\ k # Len(fs)
    <3> HIDE DEF bad, first
    <3> DEFINE l == Len(fs)
    <3>0. b \in 1..l /\ k \in 0..l /\ l \in Nat /\ b > k
      BY <1>1, <2>4, <2>5
    <3> HIDE DEF l
    <3>1. b - 1 \in k..l /\ k # l
      BY <3>0
    <3>2. Clean(fs, b - 1)
      BY <2>4 DEF Clean
    <3> QED BY <3>1, <3>2 DEF l
  <2>8. ASSUME k < Len(fs), fs[k + 1].kind = "bad" PROVE b - 1 = k
    <3>1. k + 1 \in bad
      BY <1>1, <2>8
    <3> QED BY <1>1, <2>1, <2>2, <2>5, <3>1
  <2> QED BY <2>6, <2>7, <2>8
<1> QED BY <1>3, <1>4

Answered(fs) == replies = AnswersTo(fs) /\ ran = CallsOf(fs)

\* The server is o units into frame k + 1, and has answered those before it.
Reading(k, o) ==
  /\ Stream(frames, unread, unsent, k, o) /\ Clean(frames, k) /\ Answered(SubSeq(frames, 1, k))
  /\ \/ mode = "line" /\ o = 0
     \/ /\ k < Len(frames) /\ frames[k + 1].kind \in Headed
        /\ length = Len(Body(frames[k + 1])) /\ newline = FALSE
        /\ \/ mode = "headers" /\ (o = 2 \/ (o = 4 /\ frames[k + 1].kind = "typed"))
           \/ mode = "body" /\ o = BodyAt(frames[k + 1])

\* It has stopped: at a bad frame, or as the input is closed.
AtBad ==
  /\ mode = "ended"
  /\ \E b \in 1..Len(frames) : /\ frames[b].kind = "bad" /\ Clean(frames, b - 1)
                               /\ Answered(SubSeq(frames, 1, b - 1))
                               /\ b = Len(frames) => unsent = <<>>
AtClose ==
  /\ ~open /\ (mode = "ended" \/ (mode = "headers" /\ unread = <<>>))
  /\ Answered(BeforeBad(Arrived))

ProtocolInv ==
  /\ frames \in Seq(Sent) /\ unread \in Seq(Unit) /\ unsent \in Seq(Unit)
  /\ open \in BOOLEAN /\ newline \in BOOLEAN /\ (unsent # <<>> => frames # <<>>)
  /\ AtBad \/ AtClose \/ \E k \in 0..Len(frames), o \in Nat : Reading(k, o)

\* What follows is about a server that reads frame k + 1.
LEMMA ReadingTyped ==
  ASSUME ProtocolInv, NEW k, NEW o, Reading(k, o)
  PROVE  /\ frames \in Seq(Sent) /\ Len(frames) \in Nat /\ k \in 0..Len(frames) /\ o \in Nat
         /\ unread \in Seq(Unit) /\ unsent \in Seq(Unit)
         /\ SubSeq(frames, 1, k) \in Seq(Sent) /\ Len(SubSeq(frames, 1, k)) = k
         /\ Clean(SubSeq(frames, 1, k), k)
         /\ BeforeBad(SubSeq(frames, 1, k)) = SubSeq(frames, 1, k)
         /\ replies \in Seq(Answer) /\ ran \in Seq(Tool)
         /\ k < Len(frames) => /\ k \in 0..(Len(frames) - 1) /\ frames[k + 1] \in Sent
                               /\ SubSeq(frames, 1, k + 1) = Append(SubSeq(frames, 1, k), frames[k + 1])
<1>1. frames \in Seq(Sent) /\ unread \in Seq(Unit) /\ unsent \in Seq(Unit)
  BY DEF ProtocolInv
<1>2. Stream(frames, unread, unsent, k, o) /\ Clean(frames, k) /\ Answered(SubSeq(frames, 1, k))
  BY DEF Reading
<1>3. Len(frames) \in Nat /\ k \in 0..Len(frames) /\ o \in Nat
  BY <1>1, <1>2, Ahead
<1> DEFINE ss == SubSeq(frames, 1, k)
<1>4. ss \in Seq(Sent) /\ Len(ss) = k /\ \A i \in 1..k : ss[i] = frames[i]
  BY <1>1, <1>3, FirstFrames
<1> HIDE DEF ss
<1>5. Clean(ss, k)
  BY <1>2, <1>4 DEF Clean
<1>6. BeforeBad(ss) = ss
  <2>1. k \in 0..Len(ss) /\ k = Len(ss)
    BY <1>3, <1>4
  <2> QED BY <1>4, <1>5, <2>1, BeforeBadIs
<1>7. replies \in Seq(Answer) /\ ran \in Seq(Tool)
  BY <1>2, <1>4, AllTyped DEF Answered, ss
<1>8. k < Len(frames) => /\ k \in 0..(Len(frames) - 1) /\ frames[k + 1] \in Sent
                         /\ SubSeq(frames, 1, k + 1) = Append(ss, frames[k + 1])
  <2>1. SUFFICES ASSUME k < Len(frames)
                 PROVE  /\ k \in 0..(Len(frames) - 1) /\ frames[k + 1] \in Sent
                        /\ SubSeq(frames, 1, k + 1) = Append(ss, frames[k + 1])
    OBVIOUS
  <2>2. k \in 0..(Len(frames) - 1)
    BY <1>3, <2>1
  <2> QED BY <1>1, <2>2, FirstAndNext DEF ss
<1> QED BY <1>1, <1>3, <1>4, <1>5, <1>6, <1>7, <1>8 DEF ss

\* The answer to what is read is that to one more frame.
LEMMA Took ==
  ASSUME NEW fs \in Seq(Sent), NEW g \in Sent, Answered(fs), NEW payload, NEW lines \in BOOLEAN,
         TakenAs(g, payload, lines), dispatch(payload, lines)
  PROVE  replies' = AnswersTo(Append(fs, g)) /\ ran' = CallsOf(Append(fs, g))
<1>1. replies = AnswersTo(fs) /\ ran = CallsOf(fs) /\ replies \in Seq(Answer) /\ ran \in Seq(Tool)
  BY AllTyped DEF Answered
<1>2. replies' = replies \o AnswerTo(g) /\ ran' = ran \o CallOf(g)
  BY <1>1, Dispatched
<1> QED BY <1>1, <1>2, OneMore

\* Nothing more comes, and the frame that is being read is no line.
LEMMA GivesUp ==
  ASSUME ProtocolInv, NEW k, NEW o, Reading(k, o), k < Len(frames), o + Len(unread) < Len(Units(frames[k + 1])),
         ~open, frames[k + 1].kind \notin {"line", "junk"} \/ o + Len(unread) = 0,
         UNCHANGED <<unsent, frames, open, replies, ran>>, unread' = <<>>, mode' \in {"ended", "headers"},
         newline' \in BOOLEAN
  PROVE  ProtocolInv'
<1> DEFINE ss == SubSeq(frames, 1, k)
<1>1. BeforeBad(ss) = ss /\ Answered(ss) /\ frames \in Seq(Sent) /\ unsent \in Seq(Unit)
  BY ReadingTyped DEF Reading
<1>2. /\ k + 1 = Len(frames) /\ unsent # <<>> /\ Last(frames) = frames[k + 1] /\ Front(frames) = ss
      /\ Len(Units(frames[k + 1])) - Len(unsent) = o + Len(unread)
  <2>1. Stream(frames, unread, unsent, k, o)
    BY DEF Reading
  <2>2. frames \in Seq(Sent)
    BY <1>1
  <2>3. /\ k + 1 = Len(frames) /\ unsent # <<>> /\ frames # <<>> /\ Last(frames) = frames[k + 1]
        /\ Front(frames) = SubSeq(frames, 1, k) /\ Len(Units(frames[k + 1])) - Len(unsent) = o + Len(unread)
    BY ONLY <2>1, <2>2, k < Len(frames), o + Len(unread) < Len(Units(frames[k + 1])), Partial
  <2> QED BY <2>3
<1>3. Arrived = ss
  BY <1>2 DEF Arrived, Written
<1>4. Arrived' = ss
  BY <1>3 DEF Arrived, Written
<1>5. AtClose'
  <2>1. replies' = AnswersTo(ss) /\ ran' = CallsOf(ss)
    BY <1>1 DEF Answered
  <2>2. BeforeBad(Arrived)' = ss
    BY <1>1, <1>4
  <2> HIDE DEF ss
  <2>3. Answered(BeforeBad(Arrived))'
    BY <2>1, <2>2 DEF Answered
  <2> QED BY <2>3 DEF AtClose
<1>6. <<>> \in Seq(Unit) /\ open \in BOOLEAN
  BY DEF ProtocolInv
<1> QED BY <1>1, <1>5, <1>6 DEF ProtocolInv

LEMMA FirstOfMore ==
  ASSUME NEW fs \in Seq(Sent), NEW f \in Sent, NEW k \in 0..Len(fs)
  PROVE  SubSeq(Append(fs, f), 1, k) = SubSeq(fs, 1, k) /\ (Clean(fs, k) => Clean(Append(fs, f), k))
<1> DEFINE gs == Append(fs, f)  n == Len(fs)
<1>1. /\ gs \in Seq(Sent) /\ n \in Nat /\ Len(gs) = n + 1 /\ \A i \in 1..n : gs[i] = fs[i]
  OBVIOUS
<1> DEFINE a == SubSeq(fs, 1, k)  b == SubSeq(gs, 1, k)
<1>2. a \in Seq(Sent) /\ Len(a) = k /\ \A i \in 1..k : a[i] = fs[i]
  BY FirstFrames
<1>3. k \in 0..Len(gs) /\ \A i \in 1..k : i \in 1..n
  BY <1>1
<1> HIDE DEF gs
<1>4. b \in Seq(Sent) /\ Len(b) = k /\ \A i \in 1..k : b[i] = gs[i]
  BY <1>1, <1>3, FirstFrames
<1> HIDE DEF a, b
<1>5. \A i \in 1..k : a[i] = b[i]
  BY <1>1, <1>2, <1>3, <1>4
<1>6. a = b
  BY <1>2, <1>4, <1>5, SeqEqual
<1>7. Clean(fs, k) => Clean(gs, k)
  BY <1>1, <1>3 DEF Clean
<1> QED BY <1>6, <1>7 DEF a, b, gs

LEMMA ClientKeepsInv ==
  ASSUME ProtocolInv,
         \/ \E f \in Frame : SendFrame(f)
         \/ WriteUnit \/ Close
  PROVE  ProtocolInv'
<1>1. /\ frames \in Seq(Sent) /\ unread \in Seq(Unit) /\ unsent \in Seq(Unit) /\ open \in BOOLEAN /\ newline \in BOOLEAN
      /\ UNCHANGED <<mode, length, newline, replies, ran>> /\ open = TRUE /\ Len(frames) \in Nat
  BY DEF ProtocolInv, SendFrame, WriteUnit, Close, ClientKeeps
<1>2. CASE \E f \in Frame : SendFrame(f)
  <2>1. PICK f \in Frame : SendFrame(f)
    BY <1>2
  <2>2. f \in Sent
    BY ProtocolAssumption DEF Sent
  <2>3. /\ frames' = Append(frames, f) /\ unsent = <<>> /\ unsent' = Units(f) /\ UNCHANGED <<unread, open>>
    BY <2>1 DEF SendFrame
  <2>4. frames' \in Seq(Sent) /\ unread' \in Seq(Unit) /\ unsent' \in Seq(Unit) /\ Len(frames') = Len(frames) + 1
        /\ \A i \in 1..Len(frames) : frames'[i] = frames[i]
    BY <1>1, <2>2, <2>3, PartsAre
  <2>5. ASSUME NEW k \in 0..Len(frames), Answered(SubSeq(frames, 1, k)), Clean(frames, k)
        PROVE  Answered(SubSeq(frames, 1, k))' /\ Clean(frames', k)
    <3>1. SubSeq(frames', 1, k) = SubSeq(frames, 1, k) /\ Clean(frames', k)
      BY <1>1, <2>2, <2>3, <2>5, FirstOfMore
    <3>2. replies' = AnswersTo(SubSeq(frames', 1, k)) /\ ran' = CallsOf(SubSeq(frames', 1, k))
      BY <1>1, <2>5, <3>1 DEF Answered
    <3> QED BY <3>1, <3>2 DEF Answered
  <2>6. CASE AtBad
    <3>1. PICK b \in 1..Len(frames) : /\ frames[b].kind = "bad" /\ Clean(frames, b - 1)
                                      /\ Answered(SubSeq(frames, 1, b - 1))
      BY <2>6 DEF AtBad
    <3>2. b - 1 \in 0..Len(frames) /\ b \in 1..Len(frames') /\ b # Len(frames') /\ frames'[b].kind = "bad"
      BY <1>1, <2>4, <3>1
    <3>3. Answered(SubSeq(frames, 1, b - 1))' /\ Clean(frames', b - 1)
      BY <2>5, <3>1, <3>2
    <3>4. mode' = "ended"
      BY <1>1, <2>6 DEF AtBad
    <3>5. AtBad'
      BY <3>2, <3>3, <3>4 DEF AtBad
    <3>6. /\ frames' \in Seq(Sent) /\ unread' \in Seq(Unit) /\ unsent' \in Seq(Unit)
          /\ open' \in BOOLEAN /\ newline' \in BOOLEAN
      BY <1>1, <2>3, <2>4
    <3>7. frames' # <<>>
      BY <1>1, <2>4
    <3> QED BY ONLY <3>5, <3>6, <3>7 DEF ProtocolInv
  <2>7. CASE \E k \in 0..Len(frames), o \in Nat : Reading(k, o)
    <3>1. PICK k \in 0..Len(frames), o \in Nat : Reading(k, o)
      BY <2>7
    <3>2. Stream(frames, unread, unsent, k, o) /\ Clean(frames, k) /\ Answered(SubSeq(frames, 1, k))
      BY <3>1 DEF Reading
    <3>3. Stream(frames', unread', unsent', k, o)
      BY <1>1, <2>2, <2>3, <3>2, Sends
    <3>4. Answered(SubSeq(frames, 1, k))' /\ Clean(frames', k)
      BY <2>5, <3>2
    <3>5. k < Len(frames) => k < Len(frames') /\ frames'[k + 1] = frames[k + 1]
      <4>1. k < Len(frames) => k + 1 \in 1..Len(frames) /\ k < Len(frames) + 1
        BY <1>1
      <4> QED BY <2>4, <4>1
    <3>6. Reading(k, o)'
      BY <1>1, <3>1, <3>3, <3>4, <3>5 DEF Reading
    <3>7. k \in 0..Len(frames')
      BY <1>1, <2>4
    <3>8. /\ frames' \in Seq(Sent) /\ unread' \in Seq(Unit) /\ unsent' \in Seq(Unit)
          /\ open' \in BOOLEAN /\ newline' \in BOOLEAN /\ o \in Nat
      BY <1>1, <2>3, <2>4
    <3>9. frames' # <<>>
      BY <1>1, <2>4
    <3> QED BY ONLY <3>6, <3>7, <3>8, <3>9 DEF ProtocolInv
  <2> QED BY <1>1, <2>6, <2>7 DEF ProtocolInv, AtClose
<1>3. CASE WriteUnit
  <2>1. /\ unsent # <<>> /\ unread' = Append(unread, Head(unsent)) /\ unsent' = Tail(unsent) /\ UNCHANGED <<frames, open>>
    BY <1>3 DEF WriteUnit
  <2>2. frames' \in Seq(Sent) /\ unread' \in Seq(Unit) /\ unsent' \in Seq(Unit)
    BY <1>1, <2>1
  <2>3. CASE AtBad
    <3>1. AtBad'
      BY <1>1, <2>1, <2>3 DEF AtBad, Answered
    <3> QED BY <1>1, <2>1, <2>2, <3>1 DEF ProtocolInv
  <2>4. CASE \E k \in 0..Len(frames), o \in Nat : Reading(k, o)
    <3>1. PICK k \in 0..Len(frames), o \in Nat : Reading(k, o)
      BY <2>4
    <3>2. Stream(frames, unread, unsent, k, o)
      BY <3>1 DEF Reading
    <3>3. Stream(frames', unread', unsent', k, o)
      BY <1>1, <2>1, <3>2, Writes
    <3>4. Reading(k, o)'
      BY <1>1, <2>1, <3>1, <3>3 DEF Reading, Answered
    <3> QED BY <1>1, <2>1, <2>2, <3>4 DEF ProtocolInv
  <2> QED BY <1>1, <2>3, <2>4 DEF ProtocolInv, AtClose
<1>4. CASE Close
  <2>1. open' = FALSE /\ UNCHANGED <<frames, unread, unsent>>
    BY <1>4 DEF Close
  <2>2. AtBad => AtBad'
    BY <1>1, <2>1 DEF AtBad, Answered
  <2>3. \A k \in 0..Len(frames), o \in Nat : Reading(k, o) => Reading(k, o)'
    BY <1>1, <2>1 DEF Reading, Answered
  <2> QED BY <1>1, <2>1, <2>2, <2>3 DEF ProtocolInv, AtClose
<1> QED BY <1>2, <1>3, <1>4

\* The first line of a frame ends at its first newline.
LineEndOf(f) == IF f.kind = "line" THEN f.msg.parts + 1 ELSE IF f.kind = "blank" THEN 1 ELSE 2

LEMMA FirstLine ==
  ASSUME NEW f \in Sent
  PROVE  /\ LineEndOf(f) \in 1..Len(Units(f)) /\ Len(Units(f)) \in Nat /\ Units(f)[LineEndOf(f)] = NL
         /\ \A j \in 1..(LineEndOf(f) - 1) : Units(f)[j] # NL
         /\ f.kind \notin Headed => LineEndOf(f) = Len(Units(f))
         /\ f.kind \in Headed => LineEndOf(f) = 2 /\ Len(Units(f)) > 2
<1> DEFINE u == Units(f)
<1>1. f.kind \in FrameKind
  BY DEF Sent
<1>2. u \in Seq(Unit) /\ Len(Body(f)) \in Nat /\ f.msg \in Message
  BY Shapes
<1>3. Len(u) \in Nat
  BY <1>2
<1>4. CASE f.kind = "line"
  <2>1. Len(u) = f.msg.parts + 1 /\ u[f.msg.parts + 1] = NL /\ \A i \in 1..f.msg.parts : u[i] = TextUnit(f.msg, i)
    BY <1>4, Shapes
  <2>2. f.msg.parts \in Nat \ {0}
    BY <1>2, ProtocolAssumption
  <2>3. \A j \in 1..f.msg.parts : u[j] # NL
    BY <1>2, <2>1, <2>2, KindsOfUnit
  <2>4. LineEndOf(f) = f.msg.parts + 1 /\ f.kind \notin Headed
    BY <1>4 DEF LineEndOf, Headed
  <2> HIDE DEF u
  <2>5. LineEndOf(f) \in 1..Len(u) /\ LineEndOf(f) - 1 = f.msg.parts
    BY <2>1, <2>2, <2>4
  <2> QED BY <1>3, <2>1, <2>3, <2>4, <2>5 DEF u
<1>5. CASE f.kind = "junk"
  <2>1. Len(u) = 2 /\ u[1] = Junk /\ u[2] = NL
    BY <1>5, Shapes
  <2>2. LineEndOf(f) = 2 /\ f.kind \notin Headed
    BY <1>5 DEF LineEndOf, Headed
  <2> QED BY <2>1, <2>2, KindsOfUnit
<1>6. CASE f.kind = "blank"
  <2>1. Len(u) = 1 /\ u[1] = NL
    BY <1>6, Shapes
  <2>2. LineEndOf(f) = 1 /\ f.kind \notin Headed
    BY <1>6 DEF LineEndOf, Headed
  <2> QED BY <2>1, <2>2
<1>7. CASE f.kind = "bad"
  <2>1. Len(u) = 2 /\ u[1] = BadLength /\ u[2] = NL
    BY <1>7, Shapes
  <2>2. LineEndOf(f) = 2 /\ f.kind \notin Headed
    BY <1>7 DEF LineEndOf, Headed
  <2> QED BY <2>1, <2>2, KindsOfUnit
<1>8. CASE f.kind \in Headed
  <2>1. Len(u) = BodyAt(f) + Len(Body(f)) /\ u[1] = ContentLength(Len(Body(f))) /\ u[2] = NL
    BY <1>8, Shapes
  <2>2. LineEndOf(f) = 2 /\ BodyAt(f) \in {3, 5}
    BY <1>8 DEF LineEndOf, Headed, BodyAt
  <2>3. Len(u) > 2
    BY <1>2, <2>1, <2>2
  <2>4. u[1] # NL
    BY <1>2, <2>1, KindsOfUnit
  <2> HIDE DEF u
  <2> QED BY <1>3, <1>8, <2>1, <2>2, <2>3, <2>4 DEF u
<1> QED BY <1>1, <1>4, <1>5, <1>6, <1>7, <1>8 DEF FrameKind, Headed

\* The first line of a frame is there.
LEMMA FirstLineRead ==
  ASSUME ProtocolInv, NEW k, Reading(k, 0), mode = "line", k < Len(frames),
         NEW f, f = frames[k + 1], NEW e, e = LineEndOf(f), e <= Len(unread)
  PROVE  /\ f \in Sent /\ e \in 1..Len(unread) /\ HasLine /\ Line \in Seq(Unit) /\ Len(Line) = e - 1
         /\ \A i \in 1..(e - 1) : Line[i] = Units(f)[i]
         /\ AfterLine \in Seq(Unit) /\ Stream(frames, AfterLine, unsent, k, e)
         /\ f.kind \notin Headed => Stream(frames, AfterLine, unsent, k + 1, 0)
<1>1. /\ frames \in Seq(Sent) /\ k \in 0..Len(frames) /\ unread \in Seq(Unit) /\ f \in Sent
      /\ Stream(frames, unread, unsent, k, 0) /\ Len(unread) \in Nat
  BY ReadingTyped DEF Reading
<1>2. /\ e \in 1..Len(Units(f)) /\ Len(Units(f)) \in Nat /\ Units(f)[e] = NL
      /\ \A j \in 1..(e - 1) : Units(f)[j] # NL
      /\ f.kind \notin Headed => e = Len(Units(f))
  BY <1>1, FirstLine
<1>3. \A i \in 1..Len(unread) : 0 + i <= Len(Units(f)) => unread[i] = Units(f)[0 + i]
  <2>1. frames \in Seq(Sent) /\ Stream(frames, unread, unsent, k, 0)
    BY <1>1
  <2>2. \A i \in 1..Len(unread) :
          0 + i <= Len(Units(frames[k + 1])) => unread[i] = Units(frames[k + 1])[0 + i]
    BY ONLY <2>1, k < Len(frames), Ahead
  <2> QED BY <2>2
<1>4. e \in 1..Len(unread) /\ e \in Nat
  BY <1>1, <1>2
<1>5. \A i \in 1..e : unread[i] = Units(f)[i]
  <2>1. \A i \in 1..e : i \in 1..Len(unread) /\ 0 + i = i /\ i <= Len(Units(f))
    BY <1>1, <1>2, <1>4
  <2> QED BY <1>3, <2>1
<1>6. unread[e] = NL /\ \A j \in 1..(e - 1) : unread[j] # NL /\ unread[j] = Units(f)[j]
  <2>1. e \in 1..e /\ \A j \in 1..(e - 1) : j \in 1..e
    BY <1>4
  <2> QED BY <1>2, <1>5, <2>1
<1>7. /\ HasLine /\ Line \in Seq(Unit) /\ Len(Line) = e - 1 /\ \A i \in 1..(e - 1) : Line[i] = unread[i]
      /\ AfterLine = SubSeq(unread, e + 1, Len(unread))
  BY <1>1, <1>4, <1>6, LineRead
<1>8. 0 + e <= Len(Units(f)) /\ 0 + e = e
  BY <1>2, <1>4
<1>9. /\ Stream(frames, AfterLine, unsent, k, e)
      /\ e = Len(Units(f)) => Stream(frames, AfterLine, unsent, k + 1, 0)
  <2>1. frames \in Seq(Sent) /\ Stream(frames, unread, unsent, k, 0)
    BY <1>1
  <2>2. e \in Nat /\ e <= Len(unread) /\ 0 + e <= Len(Units(frames[k + 1]))
    BY <1>4, <1>8
  <2>3. AfterLine = SubSeq(unread, e + 1, Len(unread))
    BY <1>7
  <2>4. /\ Stream(frames, AfterLine, unsent, k, 0 + e)
        /\ 0 + e = Len(Units(frames[k + 1])) => Stream(frames, AfterLine, unsent, k + 1, 0)
    BY ONLY <2>1, <2>2, <2>3, k < Len(frames), Moves
  <2> QED BY <1>8, <2>4
<1>10. AfterLine \in Seq(Unit)
  BY <1>1, <1>9, Ahead
<1> QED BY <1>1, <1>2, <1>4, <1>6, <1>7, <1>9, <1>10

\* Frame k + 1 was read and answered.
LEMMA FrameRead ==
  ASSUME ProtocolInv, NEW k, NEW o, Reading(k, o), k < Len(frames), frames[k + 1].kind # "bad",
         Stream(frames, unread', unsent, k + 1, 0), unread' \in Seq(Unit), mode' = "line", newline' \in BOOLEAN,
         UNCHANGED <<unsent, frames, open>>,
         replies' = AnswersTo(Append(SubSeq(frames, 1, k), frames[k + 1])),
         ran' = CallsOf(Append(SubSeq(frames, 1, k), frames[k + 1]))
  PROVE  ProtocolInv'
<1>1. /\ frames \in Seq(Sent) /\ Len(frames) \in Nat /\ k \in 0..Len(frames)
      /\ SubSeq(frames, 1, k + 1) = Append(SubSeq(frames, 1, k), frames[k + 1])
  BY ReadingTyped
<1>2. Clean(frames, k + 1)
  <2>1. \A i \in 1..(k + 1) : i \in 1..k \/ i = k + 1
    BY <1>1
  <2> QED BY <2>1 DEF Clean, Reading
<1>3. Answered(SubSeq(frames, 1, k + 1))'
  BY <1>1 DEF Answered
<1>4. Reading(k + 1, 0)'
  BY <1>2, <1>3 DEF Reading, Clean
<1>5. k + 1 \in 0..Len(frames') /\ 0 \in Nat
  BY <1>1
<1>6. unsent \in Seq(Unit) /\ open \in BOOLEAN
  BY DEF ProtocolInv
<1> QED BY <1>1, <1>4, <1>5, <1>6 DEF ProtocolInv

\* What the server sees first in a line.
First == IF Line = <<>> THEN NL ELSE Head(Line)

LEMMA LineIsRead ==
  ASSUME ReadLine
  PROVE  /\ mode = "line" /\ LineReady /\ unread' = AfterLine /\ UNCHANGED <<unsent, frames, open>>
         /\ First = NL => mode' = OrEnd /\ UNCHANGED <<length, newline, replies, ran>>
         /\ First = BadLength => mode' = "ended" /\ newline' = FALSE /\ UNCHANGED <<length, replies, ran>>
         /\ First # NL /\ First # BadLength /\ First.unit = "length" =>
              mode' = "headers" /\ length' = First.n /\ newline' = FALSE /\ UNCHANGED <<replies, ran>>
         /\ First # NL /\ First # BadLength /\ First.unit # "length" =>
              mode' = OrEnd /\ newline' = TRUE /\ dispatch(Line, TRUE) /\ UNCHANGED length
<1> DEFINE first == IF Line = <<>> THEN NL ELSE Head(Line)
<1>1. /\ mode = "line" /\ LineReady
      /\ CASE first = NL -> /\ Continue(AfterLine, OrEnd)
                            /\ Silent /\ UNCHANGED <<length, newline>>
           [] first = BadLength -> /\ Continue(AfterLine, "ended")
                                   /\ newline' = FALSE
                                   /\ Silent /\ UNCHANGED length
           [] first.unit = "length" -> /\ Continue(AfterLine, "headers")
                                   /\ length' = first.n /\ newline' = FALSE
                                   /\ Silent
           [] OTHER -> /\ Continue(AfterLine, OrEnd)
                       /\ newline' = TRUE
                       /\ dispatch(Line, TRUE)
                       /\ UNCHANGED length
  BY DEF ReadLine
<1>2. first = First
  BY DEF First
<1>3. BadLength # NL /\ BadLength.unit # "length" /\ NL.unit # "length"
  BY DEF BadLength, NL
<1> HIDE DEF first
<1>4. CASE first = NL
  <2>1. Continue(AfterLine, OrEnd) /\ Silent /\ UNCHANGED <<length, newline>>
    BY <1>1, <1>3, <1>4
  <2> QED BY <1>1, <1>2, <1>3, <1>4, <2>1 DEF Continue, Silent
<1>5. CASE first = BadLength
  <2>1. Continue(AfterLine, "ended") /\ newline' = FALSE /\ Silent /\ UNCHANGED length
    BY <1>1, <1>3, <1>5
  <2> QED BY <1>1, <1>2, <1>3, <1>5, <2>1 DEF Continue, Silent
<1>6. CASE first # NL /\ first # BadLength /\ first.unit = "length"
  <2>1. Continue(AfterLine, "headers") /\ length' = first.n /\ newline' = FALSE /\ Silent
    BY <1>1, <1>6
  <2> QED BY <1>1, <1>2, <1>6, <2>1 DEF Continue, Silent
<1>7. CASE first # NL /\ first # BadLength /\ first.unit # "length"
  <2>1. Continue(AfterLine, OrEnd) /\ newline' = TRUE /\ dispatch(Line, TRUE) /\ UNCHANGED length
    BY <1>1, <1>7
  <2> QED BY <1>1, <1>2, <1>7, <2>1 DEF Continue
<1> QED BY <1>4, <1>5, <1>6, <1>7

LEMMA WholeLine ==
  ASSUME ProtocolInv, NEW k, Reading(k, 0), ReadLine, k < Len(frames),
         LineEndOf(frames[k + 1]) <= Len(unread)
  PROVE  ProtocolInv'
<1> DEFINE f == frames[k + 1]
           e == LineEndOf(f)
           ss == SubSeq(frames, 1, k)
<1>1. /\ mode = "line" /\ unread' = AfterLine /\ UNCHANGED <<unsent, frames, open>>
  BY LineIsRead
<1>2. /\ f \in Sent /\ HasLine /\ Line \in Seq(Unit) /\ Len(Line) = e - 1
      /\ \A i \in 1..(e - 1) : Line[i] = Units(f)[i]
      /\ unread' \in Seq(Unit) /\ Stream(frames, unread', unsent, k, e)
      /\ f.kind \notin Headed => Stream(frames, unread', unsent, k + 1, 0)
  BY <1>1, FirstLineRead
<1>3. OrEnd = "line"
  BY <1>2 DEF OrEnd
<1>4. /\ frames \in Seq(Sent) /\ Len(frames) \in Nat /\ k \in 0..Len(frames) /\ k + 1 \in 1..Len(frames)
      /\ ss \in Seq(Sent) /\ Answered(ss) /\ newline \in BOOLEAN /\ unsent \in Seq(Unit) /\ open \in BOOLEAN
      /\ replies \in Seq(Answer) /\ ran \in Seq(Tool)
  <2>1. newline \in BOOLEAN /\ unsent \in Seq(Unit) /\ open \in BOOLEAN
    BY DEF ProtocolInv
  <2>2. Answered(ss)
    BY DEF Reading
  <2>3. /\ frames \in Seq(Sent) /\ Len(frames) \in Nat /\ k \in 0..Len(frames)
        /\ ss \in Seq(Sent) /\ replies \in Seq(Answer) /\ ran \in Seq(Tool)
    BY ReadingTyped
  <2>4. k + 1 \in 1..Len(frames)
    BY <2>3
  <2> QED BY <2>1, <2>2, <2>3, <2>4
<1>0. \A q \in Seq(Unit) : Len(q) >= 1 => q # <<>> /\ Head(q) = q[1]
  OBVIOUS
<1> HIDE DEF ss
<1>5. e \in 1..Len(Units(f)) /\ f.msg \in Message /\ f.kind \in FrameKind /\ Len(Units(f)) \in Nat
  BY <1>2, FirstLine DEF Sent
<1> HIDE DEF f
<1>6. CASE f.kind = "line"
  <2>1. e - 1 = f.msg.parts /\ f.msg.parts \in 1..f.msg.parts /\ f.msg.parts \in Nat /\ 1 \in 1..f.msg.parts
    BY <1>5, <1>6, ProtocolAssumption DEF LineEndOf
  <2>2. \A i \in 1..f.msg.parts : Line[i] = TextUnit(f.msg, i)
    BY <1>2, <1>6, <2>1, Shapes
  <2>3. Parsed(Line) = {f.msg}
    BY <1>2, <1>5, <2>1, <2>2, ParsedText
  <2>4. First = TextUnit(f.msg, 1)
    <3>1. Line # <<>> /\ Head(Line) = Line[1]
      BY <1>2, <2>1
    <3> QED BY <2>1, <2>2, <3>1 DEF First
  <2>5. mode' = "line" /\ newline' = TRUE /\ dispatch(Line, TRUE)
    BY <1>3, <1>5, <2>4, LineIsRead, KindsOfUnit
  <2>6. TakenAs(f, Line, TRUE)
    BY <1>6, <2>3 DEF TakenAs
  <2>7. replies' = AnswersTo(Append(ss, f)) /\ ran' = CallsOf(Append(ss, f))
    BY <1>2, <1>4, <2>5, <2>6, Took
  <2>8. f.kind # "bad" /\ f.kind \notin Headed
    BY <1>6 DEF Headed
  <2> QED BY <1>1, <1>2, <2>5, <2>7, <2>8, FrameRead DEF f, ss
<1>7. CASE f.kind = "junk"
  <2>1. e = 2
    BY <1>7 DEF LineEndOf
  <2>2. Len(Line) = 1 /\ Line[1] = Junk
    BY <1>2, <1>7, <2>1, Shapes
  <2>3. Parsed(Line) = {}
    BY <1>2, <2>2, ParsedNone
  <2>4. First = Junk
    <3>0. Line \in Seq(Unit) /\ Len(Line) >= 1
      <4>1. Len(Line) >= 1
        BY <2>2
      <4> QED BY <1>2, <4>1
    <3>1. Line # <<>> /\ Head(Line) = Line[1]
      BY <1>0, <3>0
    <3> QED BY <2>2, <3>1 DEF First
  <2>5. mode' = "line" /\ newline' = TRUE /\ dispatch(Line, TRUE)
    BY <1>3, <2>4, LineIsRead, KindsOfUnit
  <2>6. TakenAs(f, Line, TRUE)
    BY <1>7, <2>3 DEF TakenAs
  <2>7. replies' = AnswersTo(Append(ss, f)) /\ ran' = CallsOf(Append(ss, f))
    BY <1>2, <1>4, <2>5, <2>6, Took
  <2>8. f.kind # "bad" /\ f.kind \notin Headed
    BY <1>7 DEF Headed
  <2> QED BY <1>1, <1>2, <2>5, <2>7, <2>8, FrameRead DEF f, ss
<1>8. CASE f.kind = "blank"
  <2>1. e = 1
    BY <1>8 DEF LineEndOf
  <2>2. Line = <<>>
    BY <1>2, <2>1, EmptySeq
  <2>3. First = NL
    BY <2>2 DEF First
  <2>4. mode' = "line" /\ UNCHANGED <<newline, replies, ran>>
    BY <1>3, <2>3, LineIsRead
  <2>5. replies' = AnswersTo(Append(ss, f)) /\ ran' = CallsOf(Append(ss, f))
    <3>1. AnswerTo(f) = <<>> /\ CallOf(f) = <<>>
      BY <1>8 DEF AnswerTo, CallOf
    <3>2. AnswersTo(Append(ss, f)) = replies \o <<>> /\ CallsOf(Append(ss, f)) = ran \o <<>>
      BY <1>2, <1>4, <3>1, OneMore DEF Answered
    <3>3. replies \o <<>> = replies /\ ran \o <<>> = ran
      BY <1>4, ConcatEmptySeq
    <3> QED BY <2>4, <3>2, <3>3
  <2>6. f.kind # "bad" /\ f.kind \notin Headed
    BY <1>8 DEF Headed
  <2> QED BY <1>1, <1>2, <1>4, <2>4, <2>5, <2>6, FrameRead DEF f, ss
<1>9. CASE f.kind = "bad"
  <2>1. e = 2 /\ f.kind \notin Headed
    BY <1>9 DEF LineEndOf, Headed
  <2>2. Len(Line) = 1 /\ Line[1] = BadLength
    BY <1>2, <1>9, <2>1, Shapes
  <2>3. First = BadLength
    <3>0. Line \in Seq(Unit) /\ Len(Line) >= 1
      <4>1. Len(Line) >= 1
        BY <2>2
      <4> QED BY <1>2, <4>1
    <3>1. Line # <<>> /\ Head(Line) = Line[1]
      BY <1>0, <3>0
    <3> QED BY <2>2, <3>1 DEF First
  <2>4. mode' = "ended" /\ newline' = FALSE /\ UNCHANGED <<replies, ran>>
    BY <2>3, LineIsRead
  <2>5. k + 1 = Len(frames) => unsent = <<>>
    <3>1. Stream(frames, unread', unsent, k + 1, 0)
      BY <1>2, <2>1
    <3> QED BY <1>4, <3>1, Ahead
  <2>6. /\ k + 1 \in 1..Len(frames') /\ frames'[k + 1].kind = "bad" /\ Clean(frames', (k + 1) - 1)
        /\ Answered(SubSeq(frames, 1, (k + 1) - 1))'
        /\ k + 1 = Len(frames') => unsent' = <<>>
    <3>1. (k + 1) - 1 = k
      BY <1>4
    <3>2. Clean(frames, k)
      BY DEF Reading
    <3>3. replies' = AnswersTo(SubSeq(frames, 1, k)) /\ ran' = CallsOf(SubSeq(frames, 1, k))
      BY <1>4, <2>4 DEF Answered, ss
    <3>4. Answered(SubSeq(frames, 1, (k + 1) - 1))'
      BY <1>1, <3>1, <3>3 DEF Answered
    <3> QED BY <1>1, <1>4, <1>9, <2>5, <3>1, <3>2, <3>4 DEF f
  <2>7. AtBad'
    BY <2>4, <2>6 DEF AtBad
  <2> QED BY <1>1, <1>2, <1>4, <2>4, <2>7 DEF ProtocolInv
<1>10. CASE f.kind \in Headed
  <2> DEFINE n == Len(Body(f))
  <2>1. e = 2 /\ n \in Nat
    BY <1>2, <1>10, Shapes DEF LineEndOf, Headed
  <2>2. Len(Line) = 1 /\ Line[1] = ContentLength(n)
    BY <1>2, <1>10, <2>1, Shapes
  <2> HIDE DEF n
  <2>3. First = ContentLength(n)
    <3>0. Line \in Seq(Unit) /\ Len(Line) >= 1
      <4>1. Len(Line) >= 1
        BY <2>2
      <4> QED BY <1>2, <4>1
    <3>1. Line # <<>> /\ Head(Line) = Line[1]
      BY <1>0, <3>0
    <3> QED BY <2>2, <3>1 DEF First
  <2>4. mode' = "headers" /\ length' = n /\ newline' = FALSE /\ UNCHANGED <<replies, ran>>
    <3>1. First # NL /\ First # BadLength /\ First.unit = "length" /\ First.n = n
      BY <2>1, <2>3, KindsOfUnit
    <3> QED BY <3>1, LineIsRead
  <2>5. Reading(k, 2)'
    <3>1. Stream(frames', unread', unsent', k, 2)
      BY <1>1, <1>2, <2>1
    <3>2. Clean(frames', k) /\ Answered(SubSeq(frames, 1, k))'
      BY <1>1, <1>4, <2>4 DEF Reading, Answered, ss
    <3>3. k < Len(frames') /\ frames'[k + 1].kind \in Headed /\ length' = Len(Body(frames'[k + 1])) /\ newline' = FALSE
      BY <1>1, <1>10, <2>4 DEF f, n
    <3> QED BY <2>4, <3>1, <3>2, <3>3 DEF Reading
  <2>6. k \in 0..Len(frames') /\ 2 \in Nat
    BY <1>1, <1>4
  <2> QED BY <1>1, <1>2, <1>4, <2>4, <2>5, <2>6 DEF ProtocolInv
<1> QED BY <1>5, <1>6, <1>7, <1>8, <1>9, <1>10 DEF FrameKind, Headed

\* The input is closed and everything has been read.
LEMMA NothingLeft ==
  ASSUME ProtocolInv, NEW k, Reading(k, 0), ReadLine, k = Len(frames)
  PROVE  ProtocolInv'
<1>1. /\ frames \in Seq(Sent) /\ k \in 0..Len(frames) /\ Stream(frames, unread, unsent, k, 0)
      /\ Clean(frames, k) /\ Answered(SubSeq(frames, 1, k))
  BY ReadingTyped DEF Reading
<1>2. unread = <<>> /\ unsent = <<>>
  BY <1>1, Ahead
<1>3. ~HasLine /\ Line = <<>> /\ AfterLine = <<>>
  <2>1. unread \in Seq(Unit) /\ \A i \in 1..Len(unread) : unread[i] # NL
    BY <1>2
  <2> QED BY <1>2, <2>1, NoLine
<1>4. First = NL
  BY <1>3 DEF First
<1>5. /\ ~open /\ unread' = <<>> /\ mode' = "ended"
      /\ UNCHANGED <<unsent, frames, open, newline, replies, ran>>
  BY <1>3, <1>4, LineIsRead DEF LineReady, OrEnd
<1>6. Arrived' = frames /\ BeforeBad(frames) = frames
  <2>1. BeforeBad(frames) = frames
    BY <1>1, BeforeBadIs
  <2> QED BY <1>2, <1>5, <2>1 DEF Arrived
<1>7. SubSeq(frames, 1, k) = frames
  BY <1>1, SubSeqFull
<1>8. AtClose'
  <2>1. BeforeBad(Arrived)' = frames
    BY <1>5, <1>6
  <2>2. replies' = AnswersTo(frames) /\ ran' = CallsOf(frames)
    BY <1>1, <1>5, <1>7 DEF Answered
  <2>3. Answered(BeforeBad(Arrived))'
    BY <2>1, <2>2 DEF Answered
  <2> QED BY <1>5, <2>3 DEF AtClose
<1>9. <<>> \in Seq(Unit)
  OBVIOUS
<1> QED BY <1>5, <1>8, <1>9 DEF ProtocolInv

\* A closed input that breaks off in a line: it is answered as the message it says, or as junk.
LEMMA LastLine ==
  ASSUME ProtocolInv, NEW k, Reading(k, 0), k < Len(frames), 0 + Len(unread) < Len(Units(frames[k + 1])), unread # <<>>,
         ~open, UNCHANGED <<unsent, frames, open>>, unread' = <<>>, mode' = "ended", newline' = TRUE,
         frames[k + 1].kind \in {"line", "junk"}, dispatch(unread, TRUE)
  PROVE  ProtocolInv'
<1> DEFINE f == frames[k + 1]
           ss == SubSeq(frames, 1, k)
           g == IF Len(unsent) = 1 THEN f ELSE [f EXCEPT !.kind = "junk"]
           w == Len(unread)
<1>1. /\ frames \in Seq(Sent) /\ k \in 0..Len(frames) /\ Len(frames) \in Nat /\ unread \in Seq(Unit) /\ unsent \in Seq(Unit)
      /\ ss \in Seq(Sent) /\ Len(ss) = k /\ f \in Sent /\ k \in Nat
  BY ReadingTyped
<1>2. Clean(ss, k) /\ SubSeq(frames, 1, k + 1) = Append(ss, f)
  BY ReadingTyped
<1>3. Answered(ss) /\ Stream(frames, unread, unsent, k, 0)
  BY DEF Reading
<1>4. f.msg \in Message /\ Units(f) \in Seq(Unit) /\ Len(Units(f)) \in Nat /\ w \in Nat \ {0}
  <2>1. f.msg \in Message /\ Units(f) \in Seq(Unit)
    BY <1>1, Shapes
  <2> QED BY <1>1, <2>1
<1>5. /\ k + 1 = Len(frames) /\ unsent # <<>> /\ Last(frames) = f /\ Front(frames) = ss
  <2>1. frames \in Seq(Sent) /\ Stream(frames, unread, unsent, k, 0)
    BY <1>1, <1>3
  <2> QED BY ONLY <2>1, k < Len(frames), 0 + Len(unread) < Len(Units(frames[k + 1])), Partial
<1>6. /\ \A i \in 1..w : 0 + i <= Len(Units(f)) => unread[i] = Units(f)[0 + i]
      /\ Len(unsent) = Len(Units(f)) - (0 + w)
  <2>1. frames \in Seq(Sent)
    BY <1>1
  <2>2. Stream(frames, unread, unsent, k, 0)
    BY <1>3
  <2>3. ASSUME NEW i \in 1..Len(unread), 0 + i <= Len(Units(frames[k + 1]))
        PROVE  unread[i] = Units(frames[k + 1])[0 + i]
    BY ONLY <2>1, <2>2, <2>3, k < Len(frames), Ahead
  <2>4. Len(unsent) = Len(Units(frames[k + 1])) - (0 + Len(unread))
    BY ONLY <2>1, <2>2, k < Len(frames), 0 + Len(unread) < Len(Units(frames[k + 1])), Ahead
  <2> QED BY <2>3, <2>4
<1>7. w < Len(Units(f)) /\ Len(unsent) = Len(Units(f)) - w /\ Len(Units(f)) - Len(unsent) = w
  <2> DEFINE x == Len(Units(f))  y == Len(unsent)
  <2>1. x \in Nat /\ w \in Nat /\ y = x - (0 + w) /\ 0 + w < x
    BY <1>4, <1>6
  <2> HIDE DEF x, w, y
  <2>2. w < x /\ y = x - w /\ x - y = w
    BY <2>1
  <2> QED BY <2>2 DEF x, y
<1>8. \A i \in 1..w : unread[i] = Units(f)[i]
  <2>1. \A i \in 1..w : 0 + i = i /\ i <= Len(Units(f))
    BY <1>4, <1>7
  <2> QED BY <1>6, <2>1
<1>9. Written(f) # 0
  BY <1>4, <1>7 DEF Written
<1>10. frames = Append(ss, f)
  BY <1>1, <1>2, <1>5, SubSeqFull
<1>11. Arrived = Append(ss, g)
  <2>1. ~(open \/ f.kind \notin {"line", "junk"} \/ Written(f) = 0)
    BY <1>9
  <2>2. Arrived = IF Len(unsent) = 1 THEN frames ELSE Append(Front(frames), [Last(frames) EXCEPT !.kind = "junk"])
    BY <1>5, <2>1 DEF Arrived
  <2> QED BY <1>5, <1>10, <2>2
<1>12. g \in Sent /\ g.kind \in {"line", "junk"} /\ g.msg = f.msg
  <2>1. f = [kind |-> f.kind, msg |-> f.msg] /\ "junk" \in FrameKind
    BY <1>1 DEF Sent, FrameKind
  <2>2. [f EXCEPT !.kind = "junk"] = [kind |-> "junk", msg |-> f.msg]
    BY <2>1
  <2>3. [kind |-> "junk", msg |-> f.msg] \in Sent
    BY <1>4, <2>1 DEF Sent
  <2>4. CASE Len(unsent) = 1
    BY <1>1, <2>4
  <2>5. CASE Len(unsent) # 1
    <3>1. g = [kind |-> "junk", msg |-> f.msg]
      BY <2>2, <2>5
    <3> QED BY <2>3, <3>1
  <2> QED BY <2>4, <2>5
<1>13. TakenAs(g, unread, TRUE)
  <2>1. CASE f.kind = "line"
    <3>1. Len(Units(f)) = f.msg.parts + 1 /\ \A i \in 1..f.msg.parts : Units(f)[i] = TextUnit(f.msg, i)
      BY <1>1, <2>1, Shapes
    <3>2. f.msg.parts \in Nat \ {0}
      BY <1>4, ProtocolAssumption
    <3> DEFINE p == f.msg.parts
    <3>3. w \in 1..p /\ (Len(unsent) = 1 <=> w = p)
      <4> DEFINE x == Len(Units(f))  y == Len(unsent)
      <4>1. x = p + 1 /\ w < x /\ y = x - w /\ p \in Nat /\ w \in Nat \ {0}
        BY <1>4, <1>7, <3>1, <3>2
      <4> HIDE DEF x, y, w, p
      <4>2. w \in 1..p /\ (y = 1 <=> w = p)
        BY <4>1
      <4> QED BY <4>2 DEF y
    <3>4. \A i \in 1..w : unread[i] = TextUnit(f.msg, i)
      <4>1. \A i \in 1..w : i \in 1..p
        BY <3>2, <3>3
      <4> QED BY <1>8, <3>1, <4>1
    <3>5. Parsed(unread) = IF w = p THEN {f.msg} ELSE {}
      BY <1>1, <1>4, <3>3, <3>4, ParsedText
    <3>6. CASE w = p
      <4>1. g = f /\ Parsed(unread) = {f.msg}
        BY <3>3, <3>5, <3>6
      <4> QED BY <2>1, <4>1 DEF TakenAs
    <3>7. CASE w # p
      <4>1. g.kind = "junk"
        <5>1. g = [f EXCEPT !.kind = "junk"]
          BY <3>3, <3>7
        <5>2. f \in [kind : FrameKind, msg : Message]
          BY <1>1 DEF Sent
        <5> QED BY <5>1, <5>2
      <4>2. Parsed(unread) = {}
        BY <3>5, <3>7
      <4> QED BY <4>1, <4>2 DEF TakenAs
    <3> QED BY <3>6, <3>7
  <2>2. CASE f.kind = "junk"
    <3>1. Len(Units(f)) = 2 /\ Units(f)[1] = Junk
      BY <1>1, <2>2, Shapes
    <3>2. w = 1 /\ Len(unsent) = 1
      <4> DEFINE x == Len(Units(f))  y == Len(unsent)
      <4>1. x = 2 /\ w < x /\ y = x - w /\ w \in Nat \ {0}
        BY <1>4, <1>7, <3>1
      <4> HIDE DEF x, y, w
      <4>2. w = 1 /\ y = 1
        BY <4>1
      <4> QED BY <4>2 DEF y
    <3>3. unread[1] = Junk
      BY <1>8, <3>1, <3>2
    <3>4. Parsed(unread) = {}
      BY <1>1, <3>2, <3>3, ParsedNone
    <3> QED BY <2>2, <3>2, <3>4 DEF TakenAs
  <2> QED BY <2>1, <2>2
<1>14. replies' = AnswersTo(Append(ss, g)) /\ ran' = CallsOf(Append(ss, g))
  <2> HIDE DEF g, ss
  <2> QED BY <1>1, <1>3, <1>12, <1>13, Took
<1>15. BeforeBad(Append(ss, g)) = Append(ss, g)
  <2> HIDE DEF g, ss
  <2> DEFINE gs == Append(ss, g)
  <2>1. /\ gs \in Seq(Sent) /\ Len(gs) = k + 1 /\ gs[k + 1] = g /\ \A i \in 1..k : gs[i] = ss[i]
    BY <1>1, <1>12
  <2>2. \A i \in 1..(k + 1) : i \in 1..k \/ i = k + 1
    BY <1>1
  <2>3. k + 1 \in 0..Len(gs) /\ k + 1 = Len(gs)
    BY <1>1, <2>1
  <2> HIDE DEF gs
  <2>4. Clean(gs, k + 1)
    BY <1>2, <1>12, <2>1, <2>2 DEF Clean
  <2>5. BeforeBad(gs) = gs
    BY <2>1, <2>3, <2>4, BeforeBadIs
  <2> QED BY <2>5 DEF gs
<1>16. AtClose'
  <2>1. Arrived' = Arrived
    BY DEF Arrived, Written
  <2>2. BeforeBad(Arrived)' = Append(ss, g)
    BY <1>11, <1>15, <2>1
  <2>3. Answered(BeforeBad(Arrived))'
    BY <1>14, <2>2 DEF Answered
  <2> QED BY <2>3 DEF AtClose
<1>17. <<>> \in Seq(Unit) /\ open \in BOOLEAN
  BY DEF ProtocolInv
<1> QED BY <1>1, <1>16, <1>17 DEF ProtocolInv

\* A line that is not there whole has no newline.
LEMMA BrokenLine ==
  ASSUME ProtocolInv, NEW k, Reading(k, 0), ReadLine, k < Len(frames),
         ~(LineEndOf(frames[k + 1]) <= Len(unread))
  PROVE  ProtocolInv'
<1> DEFINE f == frames[k + 1]
           e == LineEndOf(f)
<1>1. /\ frames \in Seq(Sent) /\ unread \in Seq(Unit) /\ f \in Sent /\ Len(unread) \in Nat
      /\ Stream(frames, unread, unsent, k, 0)
  <2>1. Stream(frames, unread, unsent, k, 0)
    BY DEF Reading
  <2>2. frames \in Seq(Sent) /\ unread \in Seq(Unit) /\ f \in Sent
    BY ReadingTyped
  <2> QED BY <2>1, <2>2
<1>2. /\ e \in 1..Len(Units(f)) /\ Len(Units(f)) \in Nat /\ \A j \in 1..(e - 1) : Units(f)[j] # NL
  BY <1>1, FirstLine
<1>3. Len(unread) < e /\ 0 + Len(unread) < Len(Units(f)) /\ f.kind \in FrameKind /\ f.msg \in Message
  <2>1. Len(unread) < e /\ 0 + Len(unread) < Len(Units(f))
    <3> DEFINE x == Len(unread)  y == Len(Units(f))
    <3>1. x \in Nat /\ y \in Nat /\ e \in 1..y /\ ~(e <= x)
      BY <1>1, <1>2
    <3> HIDE DEF x, y, e
    <3>2. x < e /\ 0 + x < y
      BY <3>1
    <3> QED BY <3>2 DEF x, y
  <2> QED BY <1>1, <2>1 DEF Sent
<1>4. \A i \in 1..Len(unread) : 0 + i <= Len(Units(f)) => unread[i] = Units(f)[0 + i]
  <2>1. frames \in Seq(Sent) /\ Stream(frames, unread, unsent, k, 0)
    BY <1>1
  <2> QED BY ONLY <2>1, k < Len(frames), Ahead
<1>5. \A i \in 1..Len(unread) : i \in 1..(e - 1) /\ unread[i] = Units(f)[i]
  <2>1. \A i \in 1..Len(unread) : i \in 1..(e - 1) /\ 0 + i = i /\ i <= Len(Units(f))
    <3> DEFINE x == Len(unread)  y == Len(Units(f))
    <3>1. x \in Nat /\ y \in Nat /\ e \in 1..y /\ x < e
      BY <1>1, <1>2, <1>3
    <3> HIDE DEF x, y, e
    <3>2. \A i \in 1..x : i \in 1..(e - 1) /\ 0 + i = i /\ i <= y
      BY <3>1
    <3> QED BY <3>2 DEF x, y
  <2> QED BY <1>4, <2>1
<1>6. ~HasLine /\ Line = unread /\ AfterLine = <<>>
  <2>1. \A i \in 1..Len(unread) : unread[i] # NL
    BY <1>2, <1>5
  <2> QED BY <1>1, <2>1, NoLine
<1>7. ~open /\ unread' = <<>> /\ UNCHANGED <<unsent, frames, open>> /\ OrEnd = "ended" /\ newline \in BOOLEAN
  BY <1>6, LineIsRead DEF LineReady, OrEnd, ProtocolInv
<1>8. CASE unread = <<>>
  <2>1. First = NL
    BY <1>6, <1>8 DEF First
  <2>2. mode' = "ended" /\ UNCHANGED <<newline, replies, ran>>
    BY <1>7, <2>1, LineIsRead
  <2>3. 0 + Len(unread) = 0
    BY <1>8
  <2> QED BY <1>3, <1>7, <2>2, <2>3, GivesUp
<1>9. CASE unread # <<>>
  <2>1. First = unread[1] /\ First = Units(f)[1] /\ First # NL
    <3>1. Line # <<>> /\ Head(unread) = unread[1] /\ 1 \in 1..Len(unread)
      BY <1>1, <1>6, <1>9
    <3>2. First = unread[1]
      BY <1>6, <3>1 DEF First
    <3> QED BY <1>2, <1>5, <3>1, <3>2
  <2>2. CASE f.kind \in {"line", "junk"}
    <3>1. First # BadLength /\ First.unit # "length"
      <4>1. CASE f.kind = "line"
        <5>1. 1 \in 1..f.msg.parts
          BY <1>3, ProtocolAssumption
        <5>2. Units(f)[1] = TextUnit(f.msg, 1)
          BY <1>1, <4>1, <5>1, Shapes
        <5> QED BY <1>3, <2>1, <5>2, KindsOfUnit
      <4>2. CASE f.kind = "junk"
        <5>1. Units(f)[1] = Junk
          BY <1>1, <4>2, Shapes
        <5> QED BY <2>1, <5>1, KindsOfUnit
      <4> QED BY <2>2, <4>1, <4>2
    <3>2. mode' = "ended" /\ newline' = TRUE /\ dispatch(unread, TRUE)
      BY <1>6, <1>7, <2>1, <3>1, LineIsRead
    <3> QED BY <1>3, <1>7, <1>9, <2>2, <3>2, LastLine
  <2>3. CASE f.kind = "blank"
    <3>1. e = 1
      BY <2>3 DEF LineEndOf
    <3>2. Len(unread) = 0
      BY <1>1, <1>3, <3>1
    <3> QED BY <1>1, <1>9, <3>2, EmptySeq
  <2>4. CASE f.kind = "bad"
    <3>1. First = BadLength
      BY <1>1, <2>1, <2>4, Shapes
    <3>2. mode' = "ended" /\ newline' = FALSE /\ UNCHANGED <<replies, ran>>
      BY <3>1, LineIsRead
    <3>3. f.kind \notin {"line", "junk"}
      BY <2>4
    <3> QED BY <1>3, <1>7, <3>2, <3>3, GivesUp
  <2>5. CASE f.kind \in Headed
    <3> DEFINE n == Len(Body(f))
    <3>1. First = ContentLength(n) /\ n \in Nat
      BY <1>1, <2>1, <2>5, Shapes
    <3> HIDE DEF n
    <3>2. First # BadLength /\ First.unit = "length"
      BY <3>1, KindsOfUnit
    <3>3. mode' = "headers" /\ newline' = FALSE /\ UNCHANGED <<replies, ran>>
      BY <2>1, <3>2, LineIsRead
    <3>4. f.kind \notin {"line", "junk"}
      BY <2>5 DEF Headed
    <3> QED BY <1>3, <1>7, <3>3, <3>4, GivesUp
  <2> QED BY <1>3, <2>2, <2>3, <2>4, <2>5 DEF FrameKind, Headed
<1> QED BY <1>8, <1>9

\* In the headers of a frame: where the next line ends, and what comes after it.
LEMMA HeaderRead ==
  ASSUME ProtocolInv, NEW k, NEW o, Reading(k, o), ReadHeader, mode = "headers"
  PROVE  ProtocolInv'
<1> DEFINE f == frames[k + 1]
           e == IF o = 2 /\ f.kind = "typed" THEN 2 ELSE 1
           u == Units(f)
           n == Len(Body(f))
<1>1. /\ frames \in Seq(Sent) /\ k \in 0..Len(frames) /\ Len(frames) \in Nat /\ unread \in Seq(Unit)
      /\ Stream(frames, unread, unsent, k, o) /\ k < Len(frames) /\ f.kind \in Headed
      /\ o = 2 \/ (o = 4 /\ f.kind = "typed")
      /\ length = n /\ newline = FALSE
  BY ReadingTyped DEF Reading
<1>2. f \in Sent /\ Len(unread) \in Nat /\ o \in Nat /\ unsent \in Seq(Unit) /\ open \in BOOLEAN
  BY <1>1, ReadingTyped DEF ProtocolInv
<1>3. /\ Len(u) = BodyAt(f) + n /\ n \in Nat /\ u \in Seq(Unit)
      /\ f.kind = "typed" => u[3] = OtherHeader /\ u[4] = NL /\ u[5] = NL
      /\ f.kind # "typed" => u[3] = NL
  <2>1. f.kind # "typed" => f.kind \in {"framed", "empty"}
    BY <1>1 DEF Headed
  <2> QED BY <1>1, <1>2, <2>1, Shapes
<1>4. /\ e \in {1, 2} /\ o + e <= BodyAt(f) /\ o + e <= Len(u) /\ u[o + e] = NL
      /\ e = 2 => u[o + 1] # NL
      /\ e = 1 => o + e = BodyAt(f)
      /\ e = 2 => o + e = 4 /\ f.kind = "typed"
  <2>1. CASE f.kind = "typed"
    <3>1. BodyAt(f) = 5
      BY <2>1 DEF BodyAt
    <3>2. CASE o = 2
      <4>1. e = 2 /\ o + e = 4 /\ o + 1 = 3
        BY <2>1, <3>2
      <4>2. 4 <= Len(u)
        BY <1>3, <3>1
      <4> QED BY <1>3, <2>1, <3>1, <4>1, <4>2, KindsOfUnit
    <3>3. CASE o = 4
      <4>1. e = 1 /\ o + e = 5
        BY <2>1, <3>3
      <4>2. 5 <= Len(u)
        BY <1>3, <3>1
      <4> QED BY <1>3, <2>1, <3>1, <4>1, <4>2
    <3> QED BY <1>1, <3>2, <3>3
  <2>2. CASE f.kind # "typed"
    <3>1. BodyAt(f) = 3 /\ o = 2 /\ e = 1 /\ o + e = 3
      BY <1>1, <2>2 DEF BodyAt
    <3>2. 3 <= Len(u)
      BY <1>3, <3>1
    <3> QED BY <1>3, <2>2, <3>1, <3>2
  <2> QED BY <2>1, <2>2
<1>5. LineReady /\ UNCHANGED <<unsent, frames, open, replies, ran, length, newline>> /\ unread' = AfterLine
      /\ mode' = IF ~HasLine THEN "ended" ELSE IF Line = <<>> THEN "body" ELSE "headers"
  BY DEF ReadHeader, Continue, Silent
<1>6. \A i \in 1..Len(unread) : o + i <= Len(u) => unread[i] = u[o + i]
  <2>1. frames \in Seq(Sent) /\ Stream(frames, unread, unsent, k, o) /\ k < Len(frames)
    BY <1>1
  <2> QED BY ONLY <2>1, Ahead
<1> HIDE DEF e, u, n
<1>7. CASE e <= Len(unread)
  <2>1. unread[e] = NL /\ (e = 2 => unread[1] # NL)
    <3>1. e \in 1..Len(unread) /\ (e = 2 => 1 \in 1..Len(unread) /\ o + 1 <= Len(u))
      <4>1. Len(u) \in Nat
        BY <1>3
      <4> QED BY <1>2, <1>4, <1>7, <4>1
    <3> QED BY <1>4, <1>6, <3>1
  <2>2. \A j \in 1..(e - 1) : unread[j] # NL
    <3>1. \A j \in 1..(e - 1) : e = 2 /\ j = 1
      BY <1>4
    <3> QED BY <2>1, <3>1
  <2>3. e \in 1..Len(unread)
    BY <1>2, <1>4, <1>7
  <2>4. HasLine /\ Line \in Seq(Unit) /\ Len(Line) = e - 1 /\ AfterLine = SubSeq(unread, e + 1, Len(unread))
    BY <1>1, <2>1, <2>2, <2>3, LineRead
  <2>5. Stream(frames, AfterLine, unsent, k, o + e)
    <3>1. e \in Nat
      BY <1>4
    <3>2. frames \in Seq(Sent) /\ Stream(frames, unread, unsent, k, o) /\ k < Len(frames)
      BY <1>1
    <3>3. /\ e <= Len(unread) /\ o + e <= Len(Units(frames[k + 1]))
          /\ AfterLine = SubSeq(unread, e + 1, Len(unread))
      BY <1>4, <1>7, <2>4 DEF u
    <3> HIDE DEF e
    <3> QED BY ONLY <3>1, <3>2, <3>3, Moves
  <2>6. AfterLine \in Seq(Unit)
    BY <1>1, <2>5, Ahead
  <2>7. CASE e = 1
    <3>1. Line = <<>>
      BY <2>4, <2>7, EmptySeq
    <3>2. mode' = "body"
      BY <1>5, <2>4, <3>1
    <3>3. PICK q \in Nat : q = o + e
      BY <1>2, <1>4
    <3>4. Reading(k, q)'
      <4>1. Stream(frames', unread', unsent', k, q)
        BY <1>5, <2>5, <3>3
      <4>2. Clean(frames', k) /\ Answered(SubSeq(frames, 1, k))'
        BY <1>5 DEF Reading, Answered
      <4>3. q = BodyAt(frames'[k + 1])
        BY <1>4, <1>5, <2>7, <3>3
      <4>4. k < Len(frames') /\ frames'[k + 1].kind \in Headed /\ length' = Len(Body(frames'[k + 1])) /\ newline' = FALSE
        BY <1>1, <1>5 DEF n
      <4> QED BY <3>2, <4>1, <4>2, <4>3, <4>4 DEF Reading
    <3>5. k \in 0..Len(frames')
      BY <1>1, <1>5
    <3>6. /\ frames' \in Seq(Sent) /\ unread' \in Seq(Unit) /\ unsent' \in Seq(Unit)
          /\ open' \in BOOLEAN /\ newline' \in BOOLEAN /\ q \in Nat
      BY <1>1, <1>2, <1>5, <2>6 DEF ProtocolInv
    <3>7. frames' # <<>>
      BY <1>1, <1>5
    <3>8. \E i \in 0..Len(frames'), j \in Nat : Reading(i, j)'
      BY ONLY <3>4, <3>5, <3>6
    <3> QED BY ONLY <3>6, <3>7, <3>8 DEF ProtocolInv
  <2>8. CASE e = 2
    <3>1. Line # <<>>
      <4>1. Len(Line) = 2 - 1
        BY <2>4, <2>8
      <4>2. Len(Line) # 0
        BY <4>1
      <4> QED BY <4>2
    <3>2. mode' = "headers"
      BY <1>5, <2>4, <3>1
    <3>3. Reading(k, 4)'
      <4>1. Stream(frames', unread', unsent', k, 4)
        BY <1>4, <1>5, <2>5, <2>8
      <4>2. Clean(frames', k) /\ Answered(SubSeq(frames, 1, k))'
        BY <1>5 DEF Reading, Answered
      <4>3. frames'[k + 1].kind = "typed"
        BY <1>4, <1>5, <2>8
      <4>4. k < Len(frames') /\ frames'[k + 1].kind \in Headed /\ length' = Len(Body(frames'[k + 1])) /\ newline' = FALSE
        BY <1>1, <1>5 DEF n
      <4> QED BY <3>2, <4>1, <4>2, <4>3, <4>4 DEF Reading
    <3>4. k \in 0..Len(frames') /\ 4 \in Nat
      BY <1>1, <1>5
    <3> QED BY <1>1, <1>2, <1>5, <2>6, <3>3, <3>4 DEF ProtocolInv
  <2> QED BY <1>4, <2>7, <2>8
<1>8. CASE ~(e <= Len(unread))
  <2>1. \A i \in 1..Len(unread) : e = 2 /\ i = 1
    BY <1>2, <1>4, <1>8
  <2>2. \A i \in 1..Len(unread) : unread[i] # NL
    <3>1. SUFFICES ASSUME NEW i \in 1..Len(unread) PROVE unread[i] # NL
      OBVIOUS
    <3>2. e = 2 /\ i = 1
      BY <2>1
    <3>3. o + i <= Len(u)
      <4>1. Len(u) \in Nat
        BY <1>3
      <4> QED BY <1>2, <1>4, <3>2, <4>1
    <3> QED BY <1>4, <1>6, <3>2, <3>3
  <2>3. ~HasLine /\ AfterLine = <<>>
    BY <1>1, <2>2, NoLine
  <2>4. ~open /\ mode' = "ended" /\ unread' = <<>> /\ newline' \in BOOLEAN
    BY <1>1, <1>5, <2>3 DEF LineReady
  <2>5. o + Len(unread) < Len(u)
    <3>1. Len(u) \in Nat
      BY <1>3
    <3> DEFINE x == Len(unread)  y == Len(u)
    <3>2. x \in Nat /\ y \in Nat /\ o \in Nat /\ e \in {1, 2} /\ ~(e <= x) /\ o + e <= y
      BY <1>2, <1>4, <1>8, <3>1
    <3> HIDE DEF x, y
    <3>3. o + x < y
      BY <3>2
    <3> QED BY <3>3 DEF x, y
  <2>6. f.kind \notin {"line", "junk"}
    BY <1>1 DEF Headed
  <2> QED BY <1>1, <1>5, <2>4, <2>5, <2>6, GivesUp DEF u
<1> QED BY <1>7, <1>8

\* Before the body of a frame.
LEMMA BodyStream ==
  ASSUME ProtocolInv, NEW k, NEW o, Reading(k, o), mode = "body",
         NEW f, f = frames[k + 1], NEW n, n = length
  PROVE  /\ frames \in Seq(Sent) /\ k \in 0..Len(frames) /\ k < Len(frames) /\ f \in Sent /\ f.kind \in Headed
         /\ Stream(frames, unread, unsent, k, o) /\ newline = FALSE /\ unread \in Seq(Unit)
         /\ n = Len(Body(f)) /\ n \in Nat /\ o \in Nat /\ Len(unread) \in Nat /\ Len(Units(f)) = o + n
         /\ Body(f) \in Seq(Unit) /\ \A i \in 1..n : i <= Len(unread) => unread[i] = Body(f)[i]
<1>1. /\ frames \in Seq(Sent) /\ k \in 0..Len(frames) /\ unread \in Seq(Unit) /\ o \in Nat
      /\ k < Len(frames) => f \in Sent
  BY ReadingTyped
<1>2. /\ Stream(frames, unread, unsent, k, o) /\ k < Len(frames) /\ f.kind \in Headed
      /\ n = Len(Body(f)) /\ newline = FALSE /\ o = BodyAt(f)
  BY DEF Reading
<1>3. /\ f \in Sent /\ n \in Nat /\ Len(unread) \in Nat /\ Body(f) \in Seq(Unit)
      /\ Len(Units(f)) = o + n /\ \A i \in 1..n : Units(f)[o + i] = Body(f)[i]
  <2>1. f \in Sent /\ Len(unread) \in Nat
    BY <1>1, <1>2
  <2> QED BY <1>2, <2>1, Shapes
<1>4. \A i \in 1..Len(unread) : o + i <= Len(Units(f)) => unread[i] = Units(f)[o + i]
  BY <1>1, <1>2, Ahead
<1>5. ASSUME NEW i \in 1..n, i <= Len(unread) PROVE unread[i] = Body(f)[i]
  <2>1. i \in 1..Len(unread) /\ o + i <= Len(Units(f))
    BY <1>1, <1>3, <1>5
  <2> QED BY <1>3, <1>4, <2>1
<1> QED BY <1>1, <1>2, <1>3, <1>5

LEMMA BodyIsRead ==
  ASSUME ProtocolInv, NEW k, NEW o, Reading(k, o), ReadBody
  PROVE  ProtocolInv'
<1> DEFINE f == frames[k + 1]
           n == length
           ss == SubSeq(frames, 1, k)
           b == SubSeq(unread, 1, n)
<1>1. /\ mode = "body" /\ Len(unread) >= n /\ unread' = SubSeq(unread, n + 1, Len(unread)) /\ mode' = "line"
      /\ UNCHANGED <<unsent, frames, open, length, newline>> /\ dispatch(b, newline)
  BY DEF ReadBody, Continue
<1>2. /\ frames \in Seq(Sent) /\ k \in 0..Len(frames) /\ k < Len(frames) /\ f \in Sent /\ f.kind \in Headed
      /\ Stream(frames, unread, unsent, k, o) /\ newline = FALSE /\ unread \in Seq(Unit)
      /\ n = Len(Body(f)) /\ n \in Nat /\ o \in Nat /\ Len(unread) \in Nat /\ Len(Units(f)) = o + n
      /\ Body(f) \in Seq(Unit) /\ \A i \in 1..n : i <= Len(unread) => unread[i] = Body(f)[i]
  <2>1. mode = "body"
    BY <1>1
  <2> QED BY ONLY ProtocolInv, Reading(k, o), <2>1, BodyStream
<1>3. b = Body(f)
  <2>0. \A i \in 1..n : i \in 1..Len(unread) /\ i <= Len(unread)
    <3> DEFINE x == Len(unread)
    <3>1. x \in Nat /\ n \in Nat /\ x >= n
      BY <1>1, <1>2
    <3> HIDE DEF x, n
    <3>2. \A i \in 1..n : i \in 1..x /\ i <= x
      BY <3>1
    <3> QED BY <3>2 DEF x
  <2>1. \A i \in 1..n : unread[i] \in Unit /\ unread[i] = Body(f)[i]
    BY <1>2, <2>0
  <2>2. /\ b \in Seq(Unit) /\ Len(b) = (IF 1 <= n THEN n - 1 + 1 ELSE 0)
        /\ \A i \in 1..(n - 1 + 1) : b[i] = unread[1 + i - 1]
    BY <1>2, <2>1, SubSeqProperties
  <2>3. n - 1 + 1 = n /\ (1 <= n \/ n = 0) /\ \A i \in 1..n : 1 + i - 1 = i
    BY <1>2
  <2> HIDE DEF b
  <2>4. Len(b) = n /\ \A i \in 1..n : b[i] = Body(f)[i]
    BY <2>1, <2>2, <2>3
  <2> QED BY <1>2, <2>2, <2>4, SeqEqual
<1>4. TakenAs(f, b, FALSE)
  <2>1. CASE f.kind = "empty"
    <3>1. b = <<>>
      BY <1>3, <2>1 DEF Body
    <3> QED BY <2>1, <3>1, ParsedNone DEF TakenAs
  <2>2. CASE f.kind # "empty"
    <3>1. b = Spread(Text(f.msg)) /\ f.msg \in Message
      BY <1>2, <1>3, <2>2, Shapes DEF Body
    <3>2. Parsed(b) = {f.msg}
      BY <3>1, ParsedBody
    <3>3. f.kind \in {"typed", "framed"}
      BY <1>2, <2>2 DEF Headed
    <3> QED BY <3>2, <3>3 DEF TakenAs
  <2> QED BY <2>1, <2>2
<1>5. ss \in Seq(Sent) /\ Answered(ss)
  BY ReadingTyped DEF Reading
<1>6. replies' = AnswersTo(Append(ss, f)) /\ ran' = CallsOf(Append(ss, f))
  <2> HIDE DEF ss, b, f
  <2> QED BY <1>1, <1>2, <1>4, <1>5, Took
<1>7. Stream(frames, unread', unsent, k + 1, 0)
  <2>1. o + n <= Len(Units(f)) /\ o + n = Len(Units(f))
    <3> DEFINE x == Len(Units(f))
    <3>1. x = o + n /\ o \in Nat /\ n \in Nat
      BY <1>2
    <3> HIDE DEF x, n
    <3>2. o + n <= x /\ o + n = x
      BY <3>1
    <3> QED BY <3>2 DEF x
  <2>2. frames \in Seq(Sent) /\ Stream(frames, unread, unsent, k, o) /\ k < Len(frames)
    BY <1>2
  <2>3. n \in Nat /\ n <= Len(unread) /\ unread' = SubSeq(unread, n + 1, Len(unread))
    BY <1>1, <1>2
  <2> HIDE DEF n
  <2> QED BY ONLY <2>1, <2>2, <2>3, Moves DEF f
<1>8. unread' \in Seq(Unit)
  BY <1>2, <1>7, Ahead
<1>9. f.kind # "bad"
  BY <1>2 DEF Headed
<1> QED BY <1>1, <1>2, <1>6, <1>7, <1>8, <1>9, FrameRead

LEMMA BodyBreaksOff ==
  ASSUME ProtocolInv, NEW k, NEW o, Reading(k, o), BodyEnds
  PROVE  ProtocolInv'
<1> DEFINE f == frames[k + 1]
           n == length
<1>1. /\ mode = "body" /\ Len(unread) < n /\ ~open /\ unread' = <<>> /\ mode' = "ended"
      /\ UNCHANGED <<unsent, frames, open, newline, replies, ran>>
  BY DEF BodyEnds, Continue, Silent
<1>2. /\ frames \in Seq(Sent) /\ k \in 0..Len(frames) /\ k < Len(frames) /\ f \in Sent /\ f.kind \in Headed
      /\ Stream(frames, unread, unsent, k, o) /\ newline = FALSE /\ unread \in Seq(Unit)
      /\ n = Len(Body(f)) /\ n \in Nat /\ o \in Nat /\ Len(unread) \in Nat /\ Len(Units(f)) = o + n
      /\ Body(f) \in Seq(Unit) /\ \A i \in 1..n : i <= Len(unread) => unread[i] = Body(f)[i]
  <2>1. mode = "body"
    BY <1>1
  <2> QED BY ONLY ProtocolInv, Reading(k, o), <2>1, BodyStream
<1>3. o + Len(unread) < Len(Units(f))
  <2> DEFINE x == Len(Units(f))  y == Len(unread)
  <2>1. x = o + n /\ y < n /\ o \in Nat /\ n \in Nat /\ y \in Nat
    BY <1>1, <1>2
  <2> HIDE DEF x, y, n
  <2>2. o + y < x
    BY <2>1
  <2> QED BY <2>2 DEF x, y
<1>4. f.kind \notin {"line", "junk"}
  BY <1>2 DEF Headed
<1> QED BY <1>1, <1>2, <1>3, <1>4, GivesUp

\* Where the server is and what it has answered is as ProtocolInv says in every reachable
\* state (server.go: Run, readPayload, dispatch).
THEOREM ProtocolInvariance == ProtocolSpec => []ProtocolInv
<1>1. ProtocolInit => ProtocolInv
  <2>1. SUFFICES ASSUME ProtocolInit PROVE ProtocolInv
    OBVIOUS
  <2>2. /\ unread = <<>> /\ unsent = <<>> /\ frames = <<>> /\ open = TRUE /\ mode = "line" /\ newline = FALSE
        /\ replies = <<>> /\ ran = <<>>
    BY <2>1 DEF ProtocolInit
  <2>3. <<>> \in Seq(Unit) /\ <<>> \in Seq(Sent) /\ Len(<<>>) = 0
    OBVIOUS
  <2>4. At(<<>>, 0) = 0
    BY <2>3, AtIs
  <2>5. Stream(<<>>, <<>>, <<>>, 0, 0)
    <3>1. UnitsOf(<<>>) = <<>>
      BY AllTyped
    <3>2. Held(<<>>, <<>>, <<>>, 0)
      BY <2>3, <3>1 DEF Held
    <3>3. At(<<>>, 0) + 0 = 0 /\ 0 \in 0..Len(<<>>) /\ ~(0 < Len(<<>>))
      BY <2>3, <2>4
    <3> QED BY <3>2, <3>3 DEF Stream
  <2>6. Answered(SubSeq(frames, 1, 0))
    <3>1. SubSeq(<<>>, 1, 0) = <<>>
      <4> DEFINE e == SubSeq(<<>>, 1, 0)
      <4>1. 0 \in 0..Len(<<>>)
        BY <2>3
      <4>2. e \in Seq(Sent) /\ Len(e) = 0
        BY <2>3, <4>1, FirstFrames
      <4> HIDE DEF e
      <4>3. e = <<>>
        BY <4>2, EmptySeq
      <4> QED BY <4>3 DEF e
    <3> QED BY <2>2, <3>1, AllTyped DEF Answered
  <2>7. Reading(0, 0)
    BY <2>2, <2>5, <2>6 DEF Reading, Clean
  <2>8. 0 \in 0..Len(frames) /\ 0 \in Nat
    BY <2>2
  <2> QED BY <2>2, <2>3, <2>7, <2>8 DEF ProtocolInv
<1>2. ProtocolInv /\ [ProtocolNext]_protocolVars => ProtocolInv'
  <2>1. SUFFICES ASSUME ProtocolInv, [ProtocolNext]_protocolVars PROVE ProtocolInv'
    OBVIOUS
  <2>2. CASE (\E f \in Frame : SendFrame(f)) \/ WriteUnit \/ Close
    BY <2>1, <2>2, ClientKeepsInv
  <2>3. ASSUME ReadLine \/ ReadHeader \/ ReadBody \/ BodyEnds, AtBad \/ AtClose PROVE ProtocolInv'
    <3>1. /\ ReadHeader /\ ~open /\ mode = "headers" /\ unread = <<>> /\ Answered(BeforeBad(Arrived))
      BY <2>3 DEF AtBad, AtClose, ReadLine, ReadHeader, ReadBody, BodyEnds
    <3>2. ~HasLine /\ AfterLine = <<>>
      <4>1. unread \in Seq(Unit) /\ \A i \in 1..Len(unread) : unread[i] # NL
        BY <3>1
      <4> QED BY <4>1, NoLine
    <3>3. /\ unread' = <<>> /\ mode' = "ended" /\ UNCHANGED <<unsent, frames, open, newline, replies, ran>>
      BY <3>1, <3>2 DEF ReadHeader, Continue, Silent
    <3>4. BeforeBad(Arrived)' = BeforeBad(Arrived)
      BY <3>3 DEF Arrived, Written
    <3>5. AtClose'
      <4>1. Answered(BeforeBad(Arrived))'
        BY <3>1, <3>3, <3>4 DEF Answered
      <4> QED BY <3>1, <3>3, <4>1 DEF AtClose
    <3>6. <<>> \in Seq(Unit)
      OBVIOUS
    <3> QED BY <2>1, <3>3, <3>5, <3>6 DEF ProtocolInv
  <2>4. ASSUME ReadLine \/ ReadHeader \/ ReadBody \/ BodyEnds, \E k \in 0..Len(frames), o \in Nat : Reading(k, o)
        PROVE  ProtocolInv'
    <3>1. PICK k \in 0..Len(frames), o \in Nat : Reading(k, o)
      BY <2>4
    <3>2. CASE ReadLine
      <4>1. mode = "line" /\ o = 0
        BY <3>1, <3>2 DEF Reading, ReadLine
      <4>2. Reading(k, 0)
        BY <3>1, <4>1
      <4>3. k = Len(frames) \/ k < Len(frames)
        BY <2>1 DEF ProtocolInv
      <4> QED BY <2>1, <3>2, <4>2, <4>3, NothingLeft, WholeLine, BrokenLine
    <3>3. CASE ReadHeader
      <4>1. mode = "headers"
        BY <3>3 DEF ReadHeader
      <4> QED BY <2>1, <3>1, <3>3, <4>1, HeaderRead
    <3>4. CASE ReadBody
      BY <2>1, <3>1, <3>4, BodyIsRead
    <3>5. CASE BodyEnds
      BY <2>1, <3>1, <3>5, BodyBreaksOff
    <3> QED BY <2>4, <3>2, <3>3, <3>4, <3>5
  <2>5. CASE UNCHANGED protocolVars
    <3>1. UNCHANGED <<unread, unsent, frames, open, mode, length, newline, replies, ran>>
      BY <2>5 DEF protocolVars
    <3>2. AtBad => AtBad'
      BY <3>1 DEF AtBad, Answered
    <3>3. AtClose => AtClose'
      <4>1. BeforeBad(Arrived)' = BeforeBad(Arrived)
        BY <3>1 DEF Arrived, Written
      <4> QED BY <3>1, <4>1 DEF AtClose, Answered
    <3>4. \A k \in 0..Len(frames), o \in Nat : Reading(k, o) => Reading(k, o)'
      BY <3>1 DEF Reading, Answered
    <3> QED BY <2>1, <3>1, <3>2, <3>3, <3>4 DEF ProtocolInv
  <2>6. (AtBad \/ AtClose) \/ \E k \in 0..Len(frames), o \in Nat : Reading(k, o)
    BY <2>1 DEF ProtocolInv
  <2> QED BY <2>1, <2>2, <2>3, <2>4, <2>5, <2>6 DEF ProtocolNext
<1> QED BY <1>1, <1>2, PTL DEF ProtocolSpec

\* The last frame apart, the frames that arrived are those that were sent.
LEMMA ArrivedIs ==
  ASSUME frames \in Seq(Sent), unsent # <<>> => frames # <<>>
  PROVE  /\ Arrived \in Seq(Sent) /\ Len(Arrived) \in Nat
         /\ unsent = <<>> => Arrived = frames
         /\ \A i \in 1..(Len(frames) - 1) : i \in 1..Len(Arrived) /\ Arrived[i] = frames[i]
<1> DEFINE n == Len(frames)
<1>1. n \in Nat
  OBVIOUS
<1>2. CASE unsent = <<>>
  <2>1. Arrived = frames
    BY <1>2 DEF Arrived
  <2> QED BY <1>1, <1>2, <2>1
<1>3. CASE unsent # <<>>
  <2> DEFINE f == Last(frames)  h == SubSeq(frames, 1, n - 1)  j == [f EXCEPT !.kind = "junk"]
  <2>1. n - 1 \in 0..(n - 1) /\ n - 1 \in 0..n /\ n \in 1..n /\ (n - 1) + 1 = n
    BY <1>1, <1>3
  <2>2. f = frames[n] /\ Front(frames) = h
    BY DEF Last, Front
  <2>3. h \in Seq(Sent) /\ Len(h) = n - 1 /\ \A i \in 1..(n - 1) : h[i] = frames[i]
    BY <2>1, FirstFrames
  <2>4. f \in Sent
    BY <2>1, <2>2
  <2>5. j \in Sent
    <3>1. f = [kind |-> f.kind, msg |-> f.msg] /\ f.msg \in Message /\ "junk" \in FrameKind
      BY <2>4 DEF Sent, FrameKind
    <3>2. j = [kind |-> "junk", msg |-> f.msg]
      BY <3>1
    <3> QED BY <3>1, <3>2 DEF Sent
  <2>6. Arrived = h \/ Arrived = frames \/ Arrived = Append(h, j)
    BY <1>3, <2>2 DEF Arrived
  <2> HIDE DEF h, j
  <2>7. CASE Arrived = h
    BY <1>1, <1>3, <2>1, <2>3, <2>7
  <2>8. CASE Arrived = frames
    BY <1>1, <1>3, <2>8
  <2>9. CASE Arrived = Append(h, j)
    <3>1. /\ Append(h, j) \in Seq(Sent) /\ Len(Append(h, j)) = (n - 1) + 1
          /\ \A i \in 1..(n - 1) : Append(h, j)[i] = h[i]
      BY <2>3, <2>5
    <3>2. Len(Arrived) = n /\ \A i \in 1..(n - 1) : Arrived[i] = frames[i] /\ i \in 1..n
      BY <1>1, <2>1, <2>3, <2>9, <3>1
    <3> QED BY <1>1, <1>3, <2>9, <3>1, <3>2
  <2> QED BY <2>6, <2>7, <2>8, <2>9
<1> QED BY <1>2, <1>3

LEMMA SameFrames ==
  ASSUME NEW fs \in Seq(Sent), NEW gs \in Seq(Sent), NEW k \in 0..Len(fs), NEW n \in k..Len(gs),
         \A i \in 1..k : gs[i] = fs[i]
  PROVE  /\ SubSeq(fs, 1, k) \in Seq(Sent) /\ SubSeq(gs, 1, n) \in Seq(Sent)
         /\ IsPrefix(SubSeq(fs, 1, k), SubSeq(gs, 1, n))
         /\ k = n => SubSeq(fs, 1, k) = SubSeq(gs, 1, n)
<1> DEFINE a == SubSeq(fs, 1, k)  b == SubSeq(gs, 1, n)
<1>1. a \in Seq(Sent) /\ Len(a) = k /\ \A i \in 1..k : a[i] = fs[i]
  BY FirstFrames
<1>2. n \in 0..Len(gs) /\ k \in Nat /\ k <= n
  OBVIOUS
<1>3. b \in Seq(Sent) /\ Len(b) = n /\ \A i \in 1..n : b[i] = gs[i]
  BY <1>2, FirstFrames
<1> HIDE DEF a, b
<1>4. \A i \in 1..k : i \in 1..n
  BY <1>2
<1>5. \A i \in 1..k : a[i] = b[i]
  BY <1>1, <1>3, <1>4
<1>6. IsPrefix(a, b)
  BY <1>1, <1>2, <1>3, <1>5, Begins
<1>7. k = n => a = b
  BY <1>1, <1>3, <1>5, SeqEqual
<1> QED BY <1>1, <1>3, <1>6, <1>7 DEF a, b

\* A server that waits for the client has read every frame that arrived whole.
LEMMA WaitsForFrame ==
  ASSUME ProtocolInv, NEW k, NEW o, Reading(k, o), Waiting, k < Len(frames)
  PROVE  open /\ o + Len(unread) < Len(Units(frames[k + 1]))
<1> DEFINE f == frames[k + 1]
           u == Units(f)
<1>1. frames \in Seq(Sent) /\ f \in Sent /\ unread \in Seq(Unit) /\ o \in Nat
  BY ReadingTyped
<1>2. Stream(frames, unread, unsent, k, o)
  BY DEF Reading
<1>3. u \in Seq(Unit) /\ Len(Body(f)) \in Nat
  BY <1>1, PartsAre
<1>4. Len(u) \in Nat /\ Len(unread) \in Nat
  BY <1>1, <1>3
<1>5. \A i \in 1..Len(unread) : o + i <= Len(u) => unread[i] = u[o + i]
  <2>1. frames \in Seq(Sent)
    BY <1>1
  <2> QED BY ONLY <2>1, <1>2, k < Len(frames), Ahead
<1>6. mode \in {"line", "headers", "body"}
  BY DEF Reading
<1>7. CASE mode = "body"
  <2>1. open /\ Len(unread) < length
    BY <1>7 DEF Waiting
  <2>2. length = Len(Body(f)) /\ o = BodyAt(f) /\ f.kind \in Headed
    BY <1>7 DEF Reading
  <2>3. Len(u) = o + length
    BY <1>1, <2>2, Shapes
  <2> HIDE DEF u
  <2> QED BY <1>1, <1>3, <1>4, <2>1, <2>2, <2>3 DEF u
<1>8. CASE mode \in {"line", "headers"}
  <2>1. open /\ \A i \in 1..Len(unread) : unread[i] # NL
    <3>1. ~HasLine /\ open
      BY <1>8 DEF Waiting, LineReady, ProtocolInv
    <3> QED BY <1>1, <3>1 DEF HasLine
  <2>2. ASSUME NEW e \in Nat \ {0}, o + e <= Len(u), u[o + e] = NL PROVE o + Len(unread) < Len(u)
    <3> DEFINE x == Len(unread)  y == Len(u)
    <3>1. x < e
      <4>1. SUFFICES ASSUME e <= x PROVE FALSE
        BY <1>4
      <4>2. e \in 1..Len(unread)
        BY <1>4, <4>1
      <4> QED BY <1>5, <2>1, <2>2, <4>2
    <3>2. x \in Nat /\ y \in Nat /\ o \in Nat /\ o + e <= y
      BY <1>1, <1>4, <2>2
    <3> HIDE DEF x, y
    <3>3. o + x < y
      BY <3>1, <3>2
    <3> QED BY <3>3 DEF x, y
  <2>3. \E e \in Nat \ {0} : o + e <= Len(u) /\ u[o + e] = NL
    <3>1. CASE mode = "line"
      <4> DEFINE e == LineEndOf(f)
      <4>1. o = 0
        BY <3>1 DEF Reading
      <4>2. e \in 1..Len(u) /\ u[e] = NL
        BY <1>1, FirstLine
      <4> HIDE DEF e, u
      <4>3. e \in Nat \ {0} /\ o + e = e /\ e <= Len(u)
        BY <1>4, <4>1, <4>2
      <4> QED BY <4>2, <4>3
    <3>2. CASE mode = "headers"
      <4>1. f.kind \in Headed /\ (o = 2 \/ (o = 4 /\ f.kind = "typed"))
        BY <3>2 DEF Reading
      <4>2. Len(u) = BodyAt(f) + Len(Body(f))
        BY <1>1, <4>1, Shapes
      <4>3. CASE f.kind = "typed"
        <5>1. u[4] = NL /\ u[5] = NL
          BY <1>1, <4>3, Shapes
        <5>2. Len(u) >= 5
          BY <1>3, <4>2, <4>3 DEF BodyAt
        <5>3. CASE o = 2
          <6>1. o + 2 = 4 /\ 4 <= Len(u) /\ 2 \in Nat \ {0}
            BY <1>4, <5>2, <5>3
          <6> QED BY <5>1, <6>1
        <5>4. CASE o = 4
          <6>1. o + 1 = 5 /\ 5 <= Len(u) /\ 1 \in Nat \ {0}
            BY <1>4, <5>2, <5>4
          <6> QED BY <5>1, <6>1
        <5> QED BY <4>1, <5>3, <5>4
      <4>4. CASE f.kind # "typed"
        <5>1. f.kind \in {"framed", "empty"}
          BY <4>1, <4>4 DEF Headed
        <5>2. u[3] = NL
          BY <1>1, <5>1, Shapes
        <5>3. Len(u) >= 3
          BY <1>3, <4>2, <4>4 DEF BodyAt
        <5>4. o + 1 = 3 /\ 3 <= Len(u) /\ 1 \in Nat \ {0}
          BY <1>4, <4>1, <4>4, <5>3
        <5> QED BY <5>2, <5>4
      <4> QED BY <4>3, <4>4
    <3> QED BY <1>8, <3>1, <3>2
  <2> QED BY <2>1, <2>2, <2>3
<1> QED BY <1>6, <1>7, <1>8

LEMMA InvAnswers == ASSUME ProtocolInv PROVE RequestsAnswered
<1> DEFINE due == BeforeBad(Arrived)
<1>1. frames \in Seq(Sent) /\ Len(frames) \in Nat
  BY DEF ProtocolInv
<1>2. ASSUME Answered(due), due \in Seq(Sent) PROVE RequestsAnswered
  <2>1. /\ replies = AnswersTo(due) /\ ran = CallsOf(due)
        /\ AnswersTo(due) \in Seq(Answer) /\ CallsOf(due) \in Seq(Tool)
    BY <1>2, AllTyped DEF Answered
  <2> HIDE DEF due
  <2>2. IsPrefix(AnswersTo(due), AnswersTo(due)) /\ IsPrefix(CallsOf(due), CallsOf(due))
    BY <2>1, Begins
  <2> QED BY <2>1, <2>2 DEF RequestsAnswered, due
<1>3. CASE AtBad
  <2>1. PICK b \in 1..Len(frames) : /\ frames[b].kind = "bad" /\ Clean(frames, b - 1)
                                    /\ Answered(SubSeq(frames, 1, b - 1))
                                    /\ b = Len(frames) => unsent = <<>>
    BY <1>3 DEF AtBad
  <2> DEFINE k == b - 1
  <2>2. k \in 0..Len(frames) /\ k + 1 = b /\ frames # <<>>
    BY <1>1
  <2> HIDE DEF k
  <2>3. /\ Arrived \in Seq(Sent) /\ Len(Arrived) \in Nat
        /\ unsent = <<>> => Arrived = frames
        /\ \A i \in 1..(Len(frames) - 1) : i \in 1..Len(Arrived) /\ Arrived[i] = frames[i]
    BY <1>1, <2>2, ArrivedIs
  <2>4. \A i \in 1..b : i \in 1..Len(Arrived) /\ Arrived[i] = frames[i]
    <3>1. CASE unsent = <<>>
      BY <1>1, <2>3, <3>1
    <3>2. CASE unsent # <<>>
      <4>1. b <= Len(frames) - 1
        BY <1>1, <2>1, <3>2
      <4>2. \A i \in 1..b : i \in 1..(Len(frames) - 1)
        BY <1>1, <4>1
      <4> QED BY <2>3, <4>2
    <3> QED BY <3>1, <3>2
  <2>5. /\ k \in 0..Len(Arrived) /\ k < Len(Arrived) /\ Arrived[k + 1].kind = "bad" /\ Clean(Arrived, k)
        /\ \A i \in 1..k : Arrived[i] = frames[i]
    <3>1. b \in 1..b /\ \A i \in 1..k : i \in 1..b
      BY <2>2
    <3>2. b \in 1..Len(Arrived) /\ Arrived[b] = frames[b]
      BY <2>4, <3>1
    <3>3. \A i \in 1..k : Arrived[i] = frames[i]
      BY <2>4, <3>1
    <3>4. Clean(frames, k)
      BY <2>1 DEF k
    <3> QED BY <2>1, <2>2, <2>3, <3>2, <3>3, <3>4 DEF Clean
  <2>6. due = SubSeq(Arrived, 1, k)
    BY <2>3, <2>5, BeforeBadIs
  <2>7. SubSeq(frames, 1, k) = SubSeq(Arrived, 1, k) /\ SubSeq(Arrived, 1, k) \in Seq(Sent)
    <3>1. k \in k..Len(Arrived)
      BY <2>3, <2>5
    <3> QED BY <1>1, <2>2, <2>3, <2>5, <3>1, SameFrames
  <2>8. Answered(due) /\ due \in Seq(Sent)
    BY <2>1, <2>6, <2>7 DEF k
  <2> QED BY <1>2, <2>8
<1>4. CASE AtClose
  <2>1. Answered(due)
    BY <1>4 DEF AtClose
  <2>2. Arrived \in Seq(Sent)
    BY <1>1, ArrivedIs DEF ProtocolInv
  <2>3. due \in Seq(Sent)
    <3>1. 0 \in 0..Len(Arrived) /\ Clean(Arrived, 0)
      BY <2>2 DEF Clean
    <3>2. PICK n \in 0..Len(Arrived) : due = SubSeq(Arrived, 1, n)
      BY <2>2, <3>1, BeforeBadIs
    <3> QED BY <2>2, <3>2, FirstFrames
  <2> QED BY <1>2, <2>1, <2>3
<1>5. ASSUME NEW k \in 0..Len(frames), NEW o \in Nat, Reading(k, o) PROVE RequestsAnswered
  <2> DEFINE ss == SubSeq(frames, 1, k)
  <2>1. /\ Stream(frames, unread, unsent, k, o) /\ Clean(frames, k) /\ Answered(ss)
    BY <1>5 DEF Reading
  <2>2. ss \in Seq(Sent) /\ BeforeBad(ss) = ss
    BY <1>5, ReadingTyped
  <2>3. /\ Arrived \in Seq(Sent) /\ Len(Arrived) \in Nat
        /\ unsent = <<>> => Arrived = frames
        /\ \A i \in 1..(Len(frames) - 1) : i \in 1..Len(Arrived) /\ Arrived[i] = frames[i]
    BY <1>1, ArrivedIs DEF ProtocolInv
  <2>4. k = Len(frames) => unsent = <<>>
    BY <1>1, <2>1, Ahead
  <2>5. \A i \in 1..k : i \in 1..Len(Arrived) /\ Arrived[i] = frames[i]
    <3>1. CASE k = Len(frames)
      BY <1>1, <2>3, <2>4, <3>1
    <3>2. CASE k # Len(frames)
      <4>1. \A i \in 1..k : i \in 1..(Len(frames) - 1)
        BY <1>1, <3>2
      <4> QED BY <2>3, <4>1
    <3> QED BY <3>1, <3>2
  <2>6. k \in 0..Len(Arrived) /\ Clean(Arrived, k)
    <3>1. k \in Nat /\ (k # 0 => k \in 1..k)
      BY <1>1
    <3>2. k \in 0..Len(Arrived)
      BY <2>3, <2>5, <3>1
    <3> QED BY <2>1, <2>5, <3>2 DEF Clean
  <2>7. PICK n \in k..Len(Arrived) : due = SubSeq(Arrived, 1, n)
    BY <2>3, <2>6, BeforeBadIs
  <2>8. IsPrefix(ss, due) /\ due \in Seq(Sent)
    <3>1. \A i \in 1..k : Arrived[i] = frames[i]
      BY <2>5
    <3>2. frames \in Seq(Sent) /\ Arrived \in Seq(Sent) /\ k \in 0..Len(frames) /\ n \in k..Len(Arrived)
      BY <1>1, <2>3
    <3> QED BY ONLY <3>1, <3>2, <2>7, SameFrames
  <2>9. IsPrefix(AnswersTo(ss), AnswersTo(due)) /\ IsPrefix(CallsOf(ss), CallsOf(due))
    <3> HIDE DEF ss, due
    <3> QED BY <2>2, <2>8, AllBegin
  <2>10. ASSUME Waiting PROVE due = ss
    <3>1. CASE k = Len(frames)
      <4>1. Arrived = frames /\ ss = frames
        BY <1>1, <2>3, <2>4, <3>1, SubSeqFull
      <4> QED BY <2>2, <4>1
    <3>2. CASE k < Len(frames)
      <4>1. open /\ o + Len(unread) < Len(Units(frames[k + 1]))
        BY <1>5, <2>10, <3>2, WaitsForFrame
      <4>2. unread \in Seq(Unit) /\ unsent \in Seq(Unit) /\ k \in Nat
        BY <1>1 DEF ProtocolInv
      <4>3. unsent # <<>> /\ Front(frames) = ss
        <5>1. frames \in Seq(Sent) /\ Stream(frames, unread, unsent, k, o)
          BY <1>1, <2>1
        <5>2. o + Len(unread) < Len(Units(frames[k + 1])) /\ k < Len(frames)
          BY <3>2, <4>1
        <5> QED BY ONLY <5>1, <5>2, Partial
      <4>4. Arrived = ss
        BY <4>1, <4>3 DEF Arrived
      <4> QED BY <2>2, <4>4
    <3> QED BY <1>1, <3>1, <3>2
  <2>11. replies = AnswersTo(ss) /\ ran = CallsOf(ss)
    BY <2>1 DEF Answered
  <2> HIDE DEF ss, due
  <2> QED BY <2>9, <2>10, <2>11 DEF RequestsAnswered, due
<1> QED BY <1>3, <1>4, <1>5 DEF ProtocolInv

\* Every request that arrived is answered once, in order, in its framing and with its id, and
\* nothing else is written, for any messages and frames and however they arrive
\* (RequestsAnswered; server.go: Run).
THEOREM AnswersFollowRequests == ProtocolSpec => []RequestsAnswered
BY ProtocolInvariance, InvAnswers, PTL
=============================================================================
