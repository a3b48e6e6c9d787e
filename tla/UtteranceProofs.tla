---------------------------- MODULE UtteranceProofs ----------------------------
(***************************************************************************)
(* phonemize_text(), for every dictionary and every text: the windows of   *)
(* flag words are open as long as the words before say, and every word is  *)
(* heard whole, once and in its place, numbers with their value, but for   *)
(* what has no sound and the second word of a pair that a form replaces.   *)
(***************************************************************************)
EXTENDS Utterance, Numbers, SequenceTheorems, FiniteSetTheorems

-----------------------------------------------------------------------------
(* Recursive functions on 0 .. n: Walk() and FlattenSeq() are such.        *)

Recurs(g, n, D, base, step) ==
  /\ g \in [0 .. n -> D]
  /\ g[0] = base
  /\ \A k \in 1 .. n : g[k] = step[<<g[k - 1], k>>]

(* What holds at 0 and is handed on from each number to the next holds at  *)
(* all of them.                                                            *)
LEMMA Climbs ==
  ASSUME NEW n \in Nat, NEW g, NEW T, g[0] \in T[0],
         \A k \in 1 .. n : g[k - 1] \in T[k - 1] => g[k] \in T[k]
  PROVE  \A k \in 0 .. n : g[k] \in T[k]
<1> DEFINE Bad == {k \in 0 .. n : g[k] \notin T[k]}
<1>1. SUFFICES ASSUME Bad # {} PROVE FALSE
  OBVIOUS
<1>2. PICK k \in Bad : \A j \in Bad : k <= j
  <2>1. Bad \subseteq Nat
    OBVIOUS
  <2> QED
    BY <1>1, <2>1, LeastNumber
<1>3. k \in 1 .. n /\ k - 1 \in 0 .. n /\ k - 1 < k
  BY <1>2
<1> QED
  BY <1>2, <1>3

(* A function that a step makes from its value before is there.            *)
LEMMA RecursExists ==
  ASSUME NEW n \in Nat, NEW D, NEW base \in D, NEW step \in [D \X (1 .. n) -> D]
  PROVE  \E g : Recurs(g, n, D, base, step)
<1> DEFINE Found(k) == \E g \in [0 .. k -> D] :
                          g[0] = base /\ \A j \in 1 .. k : g[j] = step[<<g[j - 1], j>>]
           Bad == {k \in 0 .. n : ~Found(k)}
<1>1. SUFFICES ASSUME Bad # {} PROVE FALSE
  <2>1. Bad = {} => Found(n)
    <3> HIDE DEF Found
    <3> QED
      OBVIOUS
  <2> QED
    BY <2>1 DEF Recurs
<1>2. PICK k \in Bad : \A j \in Bad : k <= j
  <2>1. Bad \subseteq Nat
    OBVIOUS
  <2> QED
    BY <1>1, <2>1, LeastNumber
<1>3. k # 0
  <2>1. Found(0)
    <3>1. PICK g \in [0 .. 0 -> D] : g = [j \in 0 .. 0 |-> base]
      OBVIOUS
    <3>2. g[0] = base /\ 1 .. 0 = {}
      BY <3>1
    <3> QED
      BY <3>2
  <2> HIDE DEF Found
  <2> QED
    BY <1>2, <2>1
<1>4. k \in 1 .. n /\ k - 1 \in 0 .. n /\ k - 1 < k
  BY <1>2, <1>3
<1>5. PICK g \in [0 .. k - 1 -> D] :
        g[0] = base /\ \A j \in 1 .. k - 1 : g[j] = step[<<g[j - 1], j>>]
  <2>1. Found(k - 1)
    <3> HIDE DEF Found
    <3> QED
      BY <1>2, <1>4
  <2> QED
    BY <2>1
<1> DEFINE h == [j \in 0 .. k |-> IF j = k THEN step[<<g[k - 1], k>>] ELSE g[j]]
<1>6. h \in [0 .. k -> D]
  <2>1. SUFFICES ASSUME NEW j \in 0 .. k PROVE h[j] \in D
    OBVIOUS
  <2>2. CASE j = k
    BY <1>4, <1>5, <2>2
  <2>3. CASE j # k
    BY <1>4, <1>5, <2>3
  <2> QED
    BY <2>2, <2>3
<1>7. h[0] = base /\ \A j \in 1 .. k : h[j] = step[<<h[j - 1], j>>]
  <2>1. h[0] = base
    BY <1>4, <1>5
  <2>2. ASSUME NEW j \in 1 .. k PROVE h[j] = step[<<h[j - 1], j>>]
    <3>1. j - 1 \in 0 .. k /\ j \in 0 .. k /\ j - 1 # k
      BY <1>4
    <3>2. h[j - 1] = g[j - 1]
      BY <3>1
    <3>3. CASE j = k
      BY <3>1, <3>2, <3>3
    <3>4. CASE j # k
      <4>1. j \in 1 .. k - 1
        BY <1>4, <3>4
      <4> QED
        BY <1>5, <3>1, <3>2, <3>4, <4>1
    <3> QED
      BY <3>3, <3>4
  <2> QED
    BY <2>1, <2>2
<1>8. Found(k)
  <2> HIDE DEF h
  <2> QED
    BY <1>6, <1>7
<1> QED
  BY <1>2, <1>8

(* And there is one only.                                                  *)
LEMMA RecursOnce ==
  ASSUME NEW n \in Nat, NEW g, NEW h, g[0] = h[0],
         \A k \in 1 .. n : g[k - 1] = h[k - 1] => g[k] = h[k]
  PROVE  \A k \in 0 .. n : g[k] = h[k]
<1> DEFINE T == [k \in 0 .. n |-> {h[k]}]
<1>1. g[0] \in T[0] /\ \A k \in 1 .. n : g[k - 1] \in T[k - 1] => g[k] \in T[k]
  OBVIOUS
<1>2. \A k \in 0 .. n : g[k] \in T[k]
  <2> HIDE DEF T
  <2> QED
    BY <1>1, Climbs
<1> QED
  BY <1>2

Follows(g, h, n) ==
  g[0] = h[0] /\ \A k \in 1 .. n : g[k - 1] = h[k - 1] => g[k] = h[k]

Alike(g, h, n) == \A k \in 0 .. n : g[k] = h[k]

(* What follows another from the same start is like it.                    *)
LEMMA FollowsOnce ==
  ASSUME NEW n \in Nat, NEW g, NEW h, Follows(g, h, n)
  PROVE  Alike(g, h, n)
BY RecursOnce DEF Follows, Alike

(* What is put behind a sequence keeps its kind.                           *)
LEMMA AppendKept ==
  ASSUME NEW S, NEW seq \in Seq(S), NEW elt \in S
  PROVE  Append(seq, elt) \in Seq(S) /\ Append(seq, elt) # <<>>
BY AppendProperties

(* It is all one which of three are put together first.                    *)
Regroup(x, y, z) == (x \o y) \o z = x \o (y \o z)

LEMMA Regrouped ==
  ASSUME NEW S, NEW x \in Seq(S), NEW y \in Seq(S), NEW z \in Seq(S)
  PROVE  Regroup(x, y, z)
BY ConcatAssociative DEF Regroup

-----------------------------------------------------------------------------
(* A sequence of sequences, one behind the other.                          *)

(* FlattenSeq() puts them behind one another from the first on.            *)
LEMMA Flattened ==
  ASSUME NEW S, NEW ss \in Seq(Seq(S))
  PROVE  \E g \in [0 .. Len(ss) -> Seq(S)] :
           /\ g[0] = <<>>
           /\ \A k \in 1 .. Len(ss) : g[k] = g[k - 1] \o ss[k]
           /\ FlattenSeq(ss) = g[Len(ss)]
<1> DEFINE n == Len(ss)
           D == Seq(S)
           step == [p \in D \X (1 .. n) |-> p[1] \o ss[p[2]]]
           Rule(f) == f = [i \in 1 .. n |-> IF i = 1 THEN ss[i] ELSE f[i - 1] \o ss[i]]
<1>1. n \in Nat /\ <<>> \in D /\ \A k \in 1 .. n : ss[k] \in D
  OBVIOUS
<1>2. step \in [D \X (1 .. n) -> D]
  BY <1>1
<1>3. PICK g : Recurs(g, n, D, <<>>, step)
  <2> HIDE DEF n, D, step
  <2> QED
    BY <1>1, <1>2, RecursExists
<1>4. g \in [0 .. n -> D] /\ g[0] = <<>> /\ \A k \in 1 .. n : g[k] = g[k - 1] \o ss[k]
  <2>1. g \in [0 .. n -> D] /\ g[0] = <<>> /\ \A k \in 1 .. n : g[k] = step[<<g[k - 1], k>>]
    <3> HIDE DEF n, D, step
    <3> QED
      BY <1>3 DEF Recurs
  <2>2. \A k \in 1 .. n : k - 1 \in 0 .. n
    BY <1>1
  <2>3. \A k \in 1 .. n : g[k - 1] \in D
    <3> HIDE DEF n, D, step
    <3> QED
      BY <2>1, <2>2
  <2>4. \A k \in 1 .. n : step[<<g[k - 1], k>>] = g[k - 1] \o ss[k]
    <3> HIDE DEF n, D
    <3> QED
      BY <2>3
  <2> QED
    BY <2>1, <2>4
<1>5. FlattenSeq(ss) = g[n]
  <2>1. CASE n = 0
    <3>1. ss = <<>>
      BY <2>1
    <3> QED
      BY <1>4, <2>1, <3>1 DEF FlattenSeq
  <2>2. CASE n # 0
    <3> DEFINE f == [i \in 1 .. n |-> g[i]]
    <3>1. Rule(f)
      <4>1. SUFFICES ASSUME NEW i \in 1 .. n
                     PROVE  g[i] = IF i = 1 THEN ss[i] ELSE f[i - 1] \o ss[i]
        OBVIOUS
      <4>2. CASE i = 1
        <5>1. \A s \in D : <<>> \o s = s
          OBVIOUS
        <5>2. g[1] = g[1 - 1] \o ss[1] /\ ss[1] \in D
          BY <1>1, <1>4, <4>2
        <5>3. 1 - 1 = 0
          OBVIOUS
        <5> QED
          BY <1>4, <4>2, <5>1, <5>2, <5>3
      <4>3. CASE i # 1
        <5>1. i - 1 \in 1 .. n
          BY <1>1, <4>3
        <5> QED
          BY <1>4, <4>3, <5>1
      <4> QED
        BY <4>2, <4>3
    <3>2. PICK h : h = (CHOOSE q : Rule(q)) /\ Rule(h)
      BY <3>1
    <3>3. FlattenSeq(ss) = h[n]
      BY <2>2, <3>2 DEF FlattenSeq
    <3>4. h[1] = g[1] /\ \A i \in 2 .. n : h[i] = h[i - 1] \o ss[i]
      <4>1. 1 \in 1 .. n /\ \A i \in 2 .. n : i \in 1 .. n /\ i # 1
        BY <1>1, <2>2
      <4>2. h[1] = ss[1] /\ g[1] = ss[1]
        BY <3>1, <3>2, <4>1
      <4> QED
        BY <3>2, <4>1, <4>2
    <3> DEFINE e == [k \in 0 .. n |-> IF k = 0 THEN <<>> ELSE h[k]]
    <3>5. e[0] = g[0] /\ \A k \in 1 .. n : e[k - 1] = g[k - 1] => e[k] = g[k]
      <4>1. ASSUME NEW k \in 1 .. n, e[k - 1] = g[k - 1] PROVE e[k] = g[k]
        <5>1. CASE k = 1
          BY <3>4, <5>1
        <5>2. CASE k # 1
          <6>1. k \in 2 .. n /\ k - 1 \in 1 .. n /\ k - 1 # 0 /\ k # 0
            BY <1>1, <5>2
          <6>2. e[k] = h[k] /\ e[k - 1] = h[k - 1]
            BY <1>1, <6>1
          <6> QED
            BY <1>4, <3>4, <4>1, <6>1, <6>2
        <5> QED
          BY <5>1, <5>2
      <4>2. e[0] = g[0]
        BY <1>1, <1>4
      <4> QED
        BY <4>1, <4>2
    <3>6. \A k \in 0 .. n : e[k] = g[k]
      <4>1. n \in Nat
        BY <1>1
      <4> HIDE DEF e, n
      <4>2. Follows(e, g, n)
        BY <3>5, Zenon DEF Follows
      <4>3. Alike(e, g, n)
        BY <4>1, <4>2, FollowsOnce, Zenon
      <4> QED
        BY <4>3, Zenon DEF Alike
    <3> QED
      BY <1>1, <2>2, <3>3, <3>6
  <2> QED
    BY <2>1, <2>2
<1> QED
  BY <1>4, <1>5

(* What holds of nothing, and still holds with each one put behind, holds  *)
(* of the whole.                                                           *)
LEMMA FlattenClimbs ==
  ASSUME NEW S, NEW ss \in Seq(Seq(S)), NEW T, <<>> \in T[0],
         \A k \in 1 .. Len(ss) : \A s \in Seq(S) : s \in T[k - 1] => s \o ss[k] \in T[k]
  PROVE  FlattenSeq(ss) \in Seq(S) /\ FlattenSeq(ss) \in T[Len(ss)]
<1>1. PICK g \in [0 .. Len(ss) -> Seq(S)] :
        /\ g[0] = <<>>
        /\ \A k \in 1 .. Len(ss) : g[k] = g[k - 1] \o ss[k]
        /\ FlattenSeq(ss) = g[Len(ss)]
  BY Flattened
<1>2. PICK n \in Nat : n = Len(ss)
  OBVIOUS
<1>3. \A k \in 1 .. n : g[k - 1] \in T[k - 1] => g[k] \in T[k]
  <2>1. \A k \in 1 .. n : k - 1 \in 0 .. n
    OBVIOUS
  <2> QED
    BY <1>1, <1>2, <2>1
<1>4. \A k \in 0 .. n : g[k] \in T[k]
  BY <1>1, <1>3, Climbs
<1> QED
  BY <1>1, <1>2, <1>4

(* Nothing flattens to nothing.                                            *)
LEMMA FlattenNothing == FlattenSeq(<<>>) = <<>>
  BY DEF FlattenSeq

Runs(g, n, S, ss) ==
  /\ g \in [0 .. n -> Seq(S)]
  /\ g[0] = <<>>
  /\ \A k \in 1 .. n : g[k] = g[k - 1] \o ss[k]
Behind(S, m, n, l, a, b, c) ==
  /\ m \in Nat /\ n \in Nat /\ l = m + n
  /\ \A k \in 1 .. n : b[k] \in Seq(S)
  /\ \A k \in 1 .. m : c[k] = a[k]
  /\ \A k \in 1 .. n : c[m + k] = b[k]
Join(S, m, n, l, a, b, c, f, g, h) ==
  /\ Behind(S, m, n, l, a, b, c)
  /\ Runs(f, m, S, a) /\ Runs(g, n, S, b) /\ Runs(h, l, S, c)

OneBehindOther(x, y, z) == x = y \o z

(* What is put together from two runs of parts is put together from what   *)
(* each of them makes.                                                     *)
LEMMA RunsJoin ==
  ASSUME NEW S, NEW m, NEW n, NEW l, NEW a, NEW b, NEW c, NEW f, NEW g, NEW h,
         Join(S, m, n, l, a, b, c, f, g, h)
  PROVE  OneBehindOther(h[l], f[m], g[n])
<1>1. m \in Nat /\ n \in Nat /\ l = m + n
  BY DEF Join, Behind
<1>2. /\ \A k \in 1 .. n : b[k] \in Seq(S)
      /\ \A k \in 1 .. m : c[k] = a[k]
      /\ \A k \in 1 .. n : c[m + k] = b[k]
  BY DEF Join, Behind
<1>3. h[0] = <<>> /\ \A k \in 1 .. m + n : h[k] = h[k - 1] \o c[k]
  BY <1>1 DEF Join, Runs
<1>4. f \in [0 .. m -> Seq(S)] /\ f[0] = <<>> /\ \A k \in 1 .. m : f[k] = f[k - 1] \o a[k]
  BY <1>1 DEF Join, Runs
<1>5. g \in [0 .. n -> Seq(S)] /\ g[0] = <<>> /\ \A k \in 1 .. n : g[k] = g[k - 1] \o b[k]
  BY <1>1 DEF Join, Runs
<1>6. \A k \in 0 .. m : h[k] = f[k]
  <2>1. ASSUME NEW k \in 1 .. m, h[k - 1] = f[k - 1] PROVE h[k] = f[k]
    <3>1. k \in 1 .. m + n
      BY <1>1
    <3>2. h[k] = h[k - 1] \o c[k]
      BY <1>3, <3>1
    <3>3. f[k] = f[k - 1] \o a[k] /\ c[k] = a[k]
      BY <1>2, <1>4
    <3> QED
      BY <2>1, <3>2, <3>3
  <2>2. h[0] = f[0]
    BY <1>3, <1>4
  <2> QED
    BY <1>1, <2>1, <2>2, RecursOnce
<1>7. f[m] \in Seq(S)
  BY <1>1, <1>4
<1> DEFINE far == [k \in 0 .. n |-> h[m + k]]
           joined == [k \in 0 .. n |-> f[m] \o g[k]]
<1>8. far[0] = joined[0]
  <2>1. f[m] \o <<>> = f[m] /\ h[m] = f[m] /\ m + 0 = m
    BY <1>1, <1>6, <1>7, ConcatEmptySeq
  <2>2. far[0] = h[m + 0] /\ joined[0] = f[m] \o g[0]
    <3>1. 0 \in 0 .. n
      BY <1>1
    <3> QED
      BY <3>1, Zenon
  <2> HIDE DEF far, joined
  <2> QED
    BY <1>5, <2>1, <2>2, Zenon
<1>9. ASSUME NEW k \in 1 .. n, far[k - 1] = joined[k - 1] PROVE far[k] = joined[k]
  <2>1. PICK j \in 0 .. n : j = k - 1 /\ m + k \in 1 .. m + n /\ (m + k) - 1 = m + j
    BY <1>1
  <2>2. h[m + j] = f[m] \o g[j]
    BY <1>9, <2>1
  <2>3. h[m + k] = (f[m] \o g[j]) \o b[k]
    <3>1. h[m + k] = h[(m + k) - 1] \o c[m + k]
      BY <1>3, <2>1
    <3>2. c[m + k] = b[k]
      BY <1>2
    <3> QED
      BY <2>1, <2>2, <3>1, <3>2
  <2>4. (f[m] \o g[j]) \o b[k] = f[m] \o (g[j] \o b[k])
    <3>1. f[m] \in Seq(S) /\ g[j] \in Seq(S) /\ b[k] \in Seq(S)
      BY <1>2, <1>5, <1>7
    <3>2. Regroup(f[m], g[j], b[k])
      BY <3>1, Regrouped, Zenon
    <3> HIDE DEF far, joined
    <3> QED
      BY <3>2, Zenon DEF Regroup
  <2>5. g[k] = g[j] \o b[k]
    BY <1>5, <2>1
  <2>6. far[k] = h[m + k] /\ joined[k] = f[m] \o g[k]
    <3>1. k \in 0 .. n
      BY <1>1
    <3> QED
      BY <3>1, Zenon
  <2> HIDE DEF far, joined
  <2> QED
    BY <2>3, <2>4, <2>5, <2>6, Zenon
<1>10. \A k \in 0 .. n : far[k] = joined[k]
  <2> HIDE DEF far, joined
  <2> QED
    BY <1>1, <1>8, <1>9, RecursOnce
<1>11. far[n] = h[m + n] /\ joined[n] = f[m] \o g[n] /\ n \in 0 .. n
  <2>1. n \in 0 .. n
    BY <1>1
  <2> QED
    BY <2>1, Zenon
<1> HIDE DEF far, joined
<1> QED
  BY <1>1, <1>10, <1>11 DEF OneBehindOther

(* Two sequences of sequences, one behind the other.                       *)
LEMMA FlattenConcat ==
  ASSUME NEW S, NEW a \in Seq(Seq(S)), NEW b \in Seq(Seq(S))
  PROVE  FlattenSeq(a \o b) = FlattenSeq(a) \o FlattenSeq(b)
<1>1. PICK m \in Nat, n \in Nat : m = Len(a) /\ n = Len(b)
  OBVIOUS
<1>2. PICK c \in Seq(Seq(S)) :
        /\ c = a \o b /\ Len(c) = m + n
        /\ \A k \in 1 .. m : c[k] = a[k]
        /\ \A k \in 1 .. n : c[m + k] = b[k]
  <2> DEFINE D == Seq(S)
             c == a \o b
  <2>1. a \in Seq(D) /\ b \in Seq(D)
    OBVIOUS
  <2> HIDE DEF D
  <2>2. /\ c \in Seq(D) /\ Len(c) = m + n
        /\ \A i \in 1 .. m + n : c[i] = IF i <= m THEN a[i] ELSE b[i - m]
    BY <1>1, <2>1, ConcatProperties
  <2>3. \A k \in 1 .. m : k \in 1 .. m + n /\ k <= m
    OBVIOUS
  <2>4. \A k \in 1 .. n : m + k \in 1 .. m + n /\ ~(m + k <= m) /\ (m + k) - m = k
    OBVIOUS
  <2>5. (\A k \in 1 .. m : c[k] = a[k]) /\ \A k \in 1 .. n : c[m + k] = b[k]
    <3> HIDE DEF c
    <3> QED
      BY <2>2, <2>3, <2>4
  <2>6. c \in Seq(Seq(S))
    BY <2>2 DEF D
  <2> HIDE DEF c
  <2>7. c = a \o b
    BY DEF c
  <2> QED
    BY <2>2, <2>5, <2>6, <2>7
<1>3. PICK f : Runs(f, m, S, a) /\ FlattenSeq(a) = f[m]
  BY <1>1, Flattened DEF Runs
<1>4. PICK g : Runs(g, n, S, b) /\ FlattenSeq(b) = g[n]
  BY <1>1, Flattened DEF Runs
<1>5. PICK h : Runs(h, m + n, S, c) /\ FlattenSeq(c) = h[m + n]
  <2>1. \E h \in [0 .. Len(c) -> Seq(S)] :
           /\ h[0] = <<>>
           /\ \A k \in 1 .. Len(c) : h[k] = h[k - 1] \o c[k]
           /\ FlattenSeq(c) = h[Len(c)]
    BY Flattened
  <2> QED
    BY <1>2, <2>1 DEF Runs
<1>6. \A k \in 1 .. n : b[k] \in Seq(S)
  BY <1>1
<1>7. h[m + n] = f[m] \o g[n]
  <2>1. PICK l : l = m + n
    OBVIOUS
  <2>2. Behind(S, m, n, l, a, b, c)
    BY <1>2, <1>6, <2>1 DEF Behind
  <2>3. Join(S, m, n, l, a, b, c, f, g, h)
    BY <1>3, <1>4, <1>5, <2>1, <2>2 DEF Join
  <2>4. OneBehindOther(h[l], f[m], g[n])
    BY <2>3, RunsJoin
  <2> QED
    BY <2>1, <2>4 DEF OneBehindOther
<1> QED
  BY <1>2, <1>3, <1>4, <1>5, <1>7

(* One sequence alone.                                                     *)
LEMMA FlattenOne ==
  ASSUME NEW s
  PROVE  FlattenSeq(<<s>>) = s
<1> DEFINE Rule(f) == f = [i \in 1 .. 1 |-> IF i = 1 THEN <<s>>[i] ELSE f[i - 1] \o <<s>>[i]]
<1>1. Len(<<s>>) = 1 /\ <<s>>[1] = s
  OBVIOUS
<1>2. Rule([i \in 1 .. 1 |-> s])
  BY <1>1
<1>3. PICK h : h = (CHOOSE q : Rule(q)) /\ Rule(h)
  BY <1>2
<1>4. FlattenSeq(<<s>>) = h[1]
  BY <1>1, <1>3 DEF FlattenSeq
<1> QED
  BY <1>1, <1>3, <1>4

(* Sequences of one element, or of none, are as many places.               *)
LEMMA FlattenSingles ==
  ASSUME NEW S, NEW n \in Nat, NEW e \in [1 .. n -> S]
  PROVE  FlattenSeq([k \in 1 .. n |-> <<e[k]>>]) = e
<1> DEFINE ss == [k \in 1 .. n |-> <<e[k]>>]
           T == [k \in 0 .. n |-> {s \in Seq(S) : Len(s) = k /\ \A j \in 1 .. k : s[j] = e[j]}]
<1>1. ss \in Seq(Seq(S)) /\ Len(ss) = n
  OBVIOUS
<1>2. <<>> \in T[0]
  OBVIOUS
<1>3. ASSUME NEW k \in 1 .. n, NEW s \in Seq(S), s \in T[k - 1] PROVE s \o ss[k] \in T[k]
  <2>1. k - 1 \in 0 .. n /\ Len(s) = k - 1 /\ \A j \in 1 .. k - 1 : s[j] = e[j]
    <3>1. k - 1 \in 0 .. n
      OBVIOUS
    <3>2. T[k - 1] = {q \in Seq(S) : Len(q) = k - 1 /\ \A j \in 1 .. k - 1 : q[j] = e[j]}
      BY <3>1, Zenon
    <3> HIDE DEF T
    <3> QED
      BY <1>3, <3>1, <3>2, Zenon
  <2>2. ss[k] = <<e[k]>> /\ e[k] \in S
    OBVIOUS
  <2>3. PICK q : /\ q = s \o ss[k] /\ q \in Seq(S) /\ Len(q) = k
                 /\ \A j \in 1 .. k : q[j] = IF j = k THEN e[k] ELSE s[j]
    <3>1. <<e[k]>> \in Seq(S) /\ Len(<<e[k]>>) = 1 /\ <<e[k]>>[1] = e[k]
      OBVIOUS
    <3>2. /\ s \o <<e[k]>> \in Seq(S)
          /\ Len(s \o <<e[k]>>) = Len(s) + 1
          /\ \A j \in 1 .. Len(s) + 1 :
               (s \o <<e[k]>>)[j] = IF j <= Len(s) THEN s[j] ELSE <<e[k]>>[j - Len(s)]
      BY <3>1, ConcatProperties
    <3>3. Len(s) + 1 = k /\ k - Len(s) = 1
      BY <2>1
    <3>4. \A j \in 1 .. k : j <= Len(s) <=> j # k
      BY <2>1
    <3>5. \A j \in 1 .. k : (s \o <<e[k]>>)[j] = IF j = k THEN e[k] ELSE s[j]
      BY <3>1, <3>2, <3>3, <3>4
    <3> QED
      BY <2>2, <3>2, <3>3, <3>5
  <2>4. \A j \in 1 .. k : q[j] = e[j]
    <3>1. \A j \in 1 .. k : j # k => j \in 1 .. k - 1
      OBVIOUS
    <3> QED
      BY <2>1, <2>3, <3>1
  <2>5. T[k] = {x \in Seq(S) : Len(x) = k /\ \A j \in 1 .. k : x[j] = e[j]}
    OBVIOUS
  <2> HIDE DEF T, ss
  <2> QED
    BY <2>3, <2>4, <2>5
<1>4. FlattenSeq(ss) \in T[n]
  <2> HIDE DEF T, ss
  <2> QED
    BY <1>1, <1>2, <1>3, FlattenClimbs
<1>5. FlattenSeq(ss) \in Seq(S) /\ Len(FlattenSeq(ss)) = n
      /\ \A j \in 1 .. n : FlattenSeq(ss)[j] = e[j]
  <2> HIDE DEF ss
  <2> QED
    BY <1>4
<1> HIDE DEF ss
<1>6. FlattenSeq(ss) = e
  BY <1>5
<1> QED
  BY <1>6 DEF ss

(* And so do any number of empty parts.                                    *)
LEMMA FlattenEmpties ==
  ASSUME NEW n \in Nat
  PROVE  FlattenSeq([k \in 1 .. n |-> <<>>]) = <<>>
<1> DEFINE ss == [k \in 1 .. n |-> <<>>]
           T == [k \in 0 .. n |-> {<<>>}]
<1>1. ss \in Seq(Seq({})) /\ Len(ss) = n /\ \A k \in 1 .. n : ss[k] = <<>>
  OBVIOUS
<1>2. <<>> \in T[0] /\ \A k \in 1 .. n : \A s \in Seq({}) : s \in T[k - 1] => s \o ss[k] \in T[k]
  <2>1. \A k \in 0 .. n : T[k] = {<<>>}
    OBVIOUS
  <2>2. \A k \in 1 .. n : k \in 0 .. n /\ k - 1 \in 0 .. n
    OBVIOUS
  <2>3. <<>> \o <<>> = <<>>
    OBVIOUS
  <2>4. <<>> \in T[0]
    BY <2>1
  <2> HIDE DEF T, ss
  <2>5. ASSUME NEW k \in 1 .. n, NEW s \in Seq({}), s \in T[k - 1] PROVE s \o ss[k] \in T[k]
    <3>1. s = <<>> /\ ss[k] = <<>>
      BY <1>1, <2>1, <2>2, <2>5
    <3> QED
      BY <2>1, <2>2, <2>3, <3>1
  <2> QED
    BY <1>1, <2>4, <2>5
<1>3. FlattenSeq(ss) \in T[n]
  <2> HIDE DEF T, ss
  <2> QED
    BY <1>1, <1>2, FlattenClimbs
<1> QED
  BY <1>3

(* Nothing else is in the whole than what the parts have.                  *)
LEMMA FlattenElements ==
  ASSUME NEW S, NEW ss \in Seq(Seq(S)), NEW R \in SUBSET S,
         \A k \in 1 .. Len(ss) : ss[k] \in Seq(R)
  PROVE  FlattenSeq(ss) \in Seq(R)
<1> DEFINE T == [k \in 0 .. Len(ss) |-> Seq(R)]
<1>1. Len(ss) \in Nat
  OBVIOUS
<1>2. /\ <<>> \in T[0]
      /\ \A k \in 1 .. Len(ss) : \A s \in Seq(S) : s \in T[k - 1] => s \o ss[k] \in T[k]
  <2>1. \A k \in 0 .. Len(ss) : T[k] = Seq(R)
    OBVIOUS
  <2>2. \A k \in 1 .. Len(ss) : k \in 0 .. Len(ss) /\ k - 1 \in 0 .. Len(ss)
    BY <1>1
  <2>3. \A s, q \in Seq(R) : s \o q \in Seq(R)
    BY ConcatProperties
  <2>4. <<>> \in T[0]
    BY <1>1, <2>1
  <2> HIDE DEF T
  <2>5. ASSUME NEW k \in 1 .. Len(ss), NEW s, s \in T[k - 1] PROVE s \o ss[k] \in T[k]
    BY <2>1, <2>2, <2>3, <2>5
  <2> QED
    BY <2>4, <2>5
<1>3. FlattenSeq(ss) \in T[Len(ss)]
  <2> HIDE DEF T
  <2> QED
    BY <1>2, FlattenClimbs
<1> QED
  BY <1>1, <1>3

-----------------------------------------------------------------------------
(* The windows of flag words.                                              *)

Kinds == {"past", "noun", "verb", ""}
Opened(kind, e) ==
  IF kind = "past" THEN [NoWindows EXCEPT !.past = 3]
  ELSE IF kind = "noun" THEN [NoWindows EXCEPT !.noun = 2]
  ELSE IF kind = "verb" THEN [NoWindows EXCEPT !.verb = 2] ELSE e
Down(e) == [pos \in DOMAIN e |-> IF e[pos] > 0 THEN e[pos] - 1 ELSE 0]

(* What n words leave open, from the kind of each of them.                 *)
Opening(f, n) == {k \in 1 .. n : f[k] # ""}
LeftFor(f, n, pos, length) ==
  IF Opening(f, n) # {} /\ f[Max(Opening(f, n))] = pos /\ n - Max(Opening(f, n)) < length
  THEN length - (n - Max(Opening(f, n))) ELSE 0
Counted(f, n) ==
  [past |-> LeftFor(f, n, "past", 2), noun |-> LeftFor(f, n, "noun", 1),
   verb |-> LeftFor(f, n, "verb", 1)]

(* One word more opens a window, or counts down what the words before left.*)
LEMMA CountedOnce ==
  ASSUME NEW n \in Nat, NEW f, NEW g, NEW kind \in Kinds,
         \A k \in 1 .. n : g[k] = f[k], g[n + 1] = kind
  PROVE  Counted(g, n + 1) = Down(Opened(kind, Counted(f, n)))
<1> DEFINE F == Opening(f, n)
           G == Opening(g, n + 1)
<1>1. F \subseteq 1 .. n /\ G \subseteq 1 .. n + 1 /\ F \subseteq Nat /\ G \subseteq Nat
  <2>1. F \subseteq 1 .. n
    BY DEF Opening
  <2>2. G \subseteq 1 .. n + 1
    BY DEF Opening
  <2>3. 1 .. n \subseteq Nat /\ 1 .. n + 1 \subseteq Nat
    OBVIOUS
  <2> HIDE DEF F, G
  <2> QED
    BY <2>1, <2>2, <2>3
<1>2. CASE kind # ""
  <2>1. n + 1 \in G
    <3>1. n + 1 \in 1 .. n + 1
      OBVIOUS
    <3>2. g[n + 1] # ""
      BY <1>2, Zenon
    <3> QED
      BY <3>1, <3>2, Zenon DEF Opening
  <2>2. Max(G) = n + 1
    <3>1. n + 1 \in Nat /\ \A m \in G : m <= n + 1
      BY <1>1
    <3>2. Max(G) \in G /\ \A m \in G : m <= Max(G)
      <4> HIDE DEF G
      <4> QED
        BY <1>1, <2>1, <3>1, MaxFound
    <3> QED
      BY <1>1, <2>1, <3>2
  <2>3. \A pos : \A length \in 1 .. 2 :
          LeftFor(g, n + 1, pos, length) = IF kind = pos THEN length ELSE 0
    BY <2>1, <2>2 DEF LeftFor
  <2>4. Counted(g, n + 1) = [past |-> IF kind = "past" THEN 2 ELSE 0,
                             noun |-> IF kind = "noun" THEN 1 ELSE 0,
                             verb |-> IF kind = "verb" THEN 1 ELSE 0]
    BY <2>3 DEF Counted
  <2>5. /\ kind = "past" => Down(Opened(kind, Counted(f, n))) = [past |-> 2, noun |-> 0, verb |-> 0]
        /\ kind = "noun" => Down(Opened(kind, Counted(f, n))) = [past |-> 0, noun |-> 1, verb |-> 0]
        /\ kind = "verb" => Down(Opened(kind, Counted(f, n))) = [past |-> 0, noun |-> 0, verb |-> 1]
    BY DEF Opened, Down, NoWindows
  <2>6. CASE kind = "past"
    BY <2>4, <2>5, <2>6
  <2>7. CASE kind = "noun"
    BY <2>4, <2>5, <2>7
  <2>8. CASE kind = "verb"
    BY <2>4, <2>5, <2>8
  <2> QED
    BY <1>2, <2>6, <2>7, <2>8 DEF Kinds
<1>3. CASE kind = ""
  <2>1. G = F
    <3>1. \A k \in 1 .. n + 1 : k = n + 1 \/ k \in 1 .. n
      OBVIOUS
    <3>2. \A k \in 1 .. n : k \in 1 .. n + 1
      OBVIOUS
    <3>3. g[n + 1] = ""
      BY <1>3
    <3>4. \A k : k \in G <=> k \in F
      BY <3>1, <3>2, <3>3, Zenon DEF Opening
    <3> HIDE DEF F, G
    <3> QED
      BY <3>4
  <2>2. \A pos : \A length \in 1 .. 2 :
          /\ LeftFor(f, n, pos, length) \in 0 .. 2
          /\ LeftFor(g, n + 1, pos, length) = IF LeftFor(f, n, pos, length) > 0
                                              THEN LeftFor(f, n, pos, length) - 1 ELSE 0
    <3>1. CASE F = {}
      BY <2>1, <3>1 DEF LeftFor
    <3>2. CASE F # {}
      <4>1. Max(F) \in F
        <5>1. \A m \in F : m <= n
          BY <1>1
        <5> HIDE DEF F
        <5> QED
          BY <1>1, <3>2, <5>1, MaxFound
      <4>2. PICK m \in 1 .. n : m = Max(F) /\ f[m] = g[m]
        BY <1>1, <4>1
      <4> QED
        BY <2>1, <3>2, <4>2 DEF LeftFor
    <3> QED
      BY <3>1, <3>2
  <2>3. Counted(g, n + 1) = Down(Counted(f, n))
    <3> DEFINE d == Counted(f, n)
    <3>1. /\ DOMAIN d = {"past", "noun", "verb"}
          /\ d["past"] = LeftFor(f, n, "past", 2) /\ d["noun"] = LeftFor(f, n, "noun", 1)
          /\ d["verb"] = LeftFor(f, n, "verb", 1)
      BY DEF Counted
    <3>2. Down(d) = [past |-> IF d["past"] > 0 THEN d["past"] - 1 ELSE 0,
                     noun |-> IF d["noun"] > 0 THEN d["noun"] - 1 ELSE 0,
                     verb |-> IF d["verb"] > 0 THEN d["verb"] - 1 ELSE 0]
      <4> HIDE DEF d
      <4> QED
        BY <3>1 DEF Down
    <3>3. /\ LeftFor(g, n + 1, "past", 2) = IF d["past"] > 0 THEN d["past"] - 1 ELSE 0
          /\ LeftFor(g, n + 1, "noun", 1) = IF d["noun"] > 0 THEN d["noun"] - 1 ELSE 0
          /\ LeftFor(g, n + 1, "verb", 1) = IF d["verb"] > 0 THEN d["verb"] - 1 ELSE 0
      <4> HIDE DEF d
      <4> QED
        BY <2>2, <3>1
    <3>4. Counted(g, n + 1) = Down(d)
      <4> HIDE DEF d
      <4> QED
        BY <3>2, <3>3 DEF Counted
    <3> QED
      BY <3>4
  <2> QED
    BY <1>3, <2>3 DEF Opened
<1> QED
  BY <1>2, <1>3

KindsOf(tokens, hd) == [k \in DOMAIN hd |-> Flag(to_lower(tokens[hd[k]].text))]
Closed(hd) == Len(hd) \in Nat /\ DOMAIN hd = 1 .. Len(hd) /\ hd \in Seq({hd[k] : k \in DOMAIN hd})

WindowsInv ==
  Closed(handled) /\ expect = Counted(KindsOf(ts, handled), Len(handled))

(* The counters that the words count down are what the property says of    *)
(* them.                                                                   *)
LEMMA WindowsAreCounted ==
  WindowsInv => WindowsAsFlagged
<1>1. ASSUME WindowsInv PROVE WindowsAsFlagged
  <2>1. DOMAIN handled = 1 .. Len(handled)
    BY <1>1 DEF WindowsInv, Closed
  <2> DEFINE F == {k \in DOMAIN handled : Flag(Lower(handled[k])) # ""}
  <2>2. F = Opening(KindsOf(ts, handled), Len(handled))
    BY <2>1 DEF Opening, KindsOf, Lower, Text
  <2>3. \A k \in F : KindsOf(ts, handled)[k] = Flag(Lower(handled[k]))
    BY DEF KindsOf, Lower, Text
  <2>4. F # {} => Max(F) \in F
    <3>1. F \subseteq Nat /\ Len(handled) \in Nat /\ \A m \in F : m <= Len(handled)
      <4>1. Len(handled) \in Nat
        BY <1>1 DEF WindowsInv, Closed
      <4>2. F \subseteq 1 .. Len(handled)
        BY <2>1
      <4> HIDE DEF F
      <4> QED
        BY <4>1, <4>2
    <3> HIDE DEF F
    <3> QED
      BY <3>1, MaxFound
  <2>5. \A pos, length :
          LeftFor(KindsOf(ts, handled), Len(handled), pos, length) =
            IF F # {} /\ Flag(Lower(handled[Max(F)])) = pos /\ Len(handled) - Max(F) < length
            THEN length - (Len(handled) - Max(F)) ELSE 0
    <3> HIDE DEF F
    <3> QED
      BY <2>2, <2>3, <2>4 DEF LeftFor
  <2> HIDE DEF F
  <2>6. expect = [past |-> IF F # {} /\ Flag(Lower(handled[Max(F)])) = "past"
                              /\ Len(handled) - Max(F) < 2
                           THEN 2 - (Len(handled) - Max(F)) ELSE 0,
                  noun |-> IF F # {} /\ Flag(Lower(handled[Max(F)])) = "noun"
                              /\ Len(handled) - Max(F) < 1
                           THEN 1 - (Len(handled) - Max(F)) ELSE 0,
                  verb |-> IF F # {} /\ Flag(Lower(handled[Max(F)])) = "verb"
                              /\ Len(handled) - Max(F) < 1
                           THEN 1 - (Len(handled) - Max(F)) ELSE 0]
    BY <1>1, <2>5 DEF WindowsInv, Counted
  <2> QED
    BY <2>6, Zenon DEF WindowsAsFlagged, F
<1> QED
  BY <1>1

(* The kind of a flag word, and what it opens.                             *)
LEMMA FlagOpens ==
  ASSUME NEW word
  PROVE  Flag(word) \in Kinds /\ Window(word) = Opened(Flag(word), expect)
<1>1. CASE word \in pastf_words
  BY <1>1 DEF Flag, Window, Opened, Kinds
<1>2. CASE word \in nounf_words \ pastf_words
  BY <1>2 DEF Flag, Window, Opened, Kinds
<1>3. CASE word \in verbf_words \ (pastf_words \cup nounf_words)
  BY <1>3 DEF Flag, Window, Opened, Kinds
<1>4. CASE word \notin pastf_words \cup nounf_words \cup verbf_words
  BY <1>4 DEF Flag, Window, Opened, Kinds
<1> QED
  BY <1>1, <1>2, <1>3, <1>4

(* What a step leaves of the tokens, the counters and the tokens handled.  *)
LEMMA WindowsStand ==
  [Next]_vars /\ ~UpdateCounters => UNCHANGED <<ts, onset, expect, handled>>
<1> USE DEF input
<1>1. ASSUME UNCHANGED vars PROVE UNCHANGED <<ts, onset, expect, handled>>
  BY <1>1 DEF vars, sentence
<1>2. ASSUME NEW way, NEW j, Takes(way, j) PROVE UNCHANGED <<ts, onset, expect, handled>>
  BY <1>2 DEF Takes
<1>3. ASSUME NEW way, NEW j, NEW pieces, NEW silent, Consumes(way, j, pieces, silent)
      PROVE  UNCHANGED <<ts, onset, expect, handled>>
  BY <1>2, <1>3 DEF Consumes
<1>4. ASSUME NEW way, NEW j, NEW codes, NEW flag, NEW matched, Finds(way, j, codes, flag, matched)
      PROVE  UNCHANGED <<ts, onset, expect, handled>>
  BY <1>2, <1>4 DEF Finds
<1>5. ASSUME SkipPunctuation PROVE UNCHANGED <<ts, onset, expect, handled>>
  BY <1>5 DEF SkipPunctuation
<1>6. ASSUME ExpandNumber \/ SpellAcronym \/ EmitClitic \/ EmitSplitPhrase \/ ExpandAbbreviation
      PROVE  UNCHANGED <<ts, onset, expect, handled>>
  BY <1>3, <1>6 DEF ExpandNumber, SpellAcronym, Spells, EmitClitic, EmitSplitPhrase,
                    ExpandAbbreviation
<1>7. ASSUME MatchStaticPhrase \/ MatchLoadedPhrase \/ LookUp
      PROVE  UNCHANGED <<ts, onset, expect, handled>>
  BY <1>4, <1>7 DEF MatchStaticPhrase, MatchLoadedPhrase, LookUp
<1>8. ASSUME PassOver PROVE UNCHANGED <<ts, onset, expect, handled>>
  BY <1>8 DEF PassOver, sentence
<1>9. ASSUME SwapByWindow \/ SwapByPlace PROVE UNCHANGED <<ts, onset, expect, handled>>
  BY <1>9 DEF SwapByWindow, SwapByPlace
<1>10. ASSUME StressInSentence \/ JoinToNext \/ Speak PROVE UNCHANGED <<ts, onset, expect, handled>>
  BY <1>10 DEF StressInSentence, JoinToNext, Speak
<1>11. ASSUME Finish \/ Returned PROVE UNCHANGED <<ts, onset, expect, handled>>
  BY <1>1, <1>11 DEF Finish, Returned
<1> QED
  BY <1>1, <1>5, <1>6, <1>7, <1>8, <1>9, <1>10, <1>11 DEF Next

(* The counters are what the flag words say of the windows, after every    *)
(* token: update_pos_context_counters() opens a window, closes the others, *)
(* and counts down, once for each token that had a handler.                *)
LEMMA WindowsStep ==
  WindowsInv /\ [Next]_vars => WindowsInv'
<1>1. ASSUME WindowsInv, UNCHANGED <<ts, expect, handled>> PROVE WindowsInv'
  BY <1>1 DEF WindowsInv, Closed, KindsOf
<1>2. ASSUME WindowsInv, UpdateCounters PROVE WindowsInv'
  <2>1. PICK n \in Nat : n = Len(handled)
    BY <1>2 DEF WindowsInv, Closed
  <2>2. DOMAIN handled = 1 .. n
    BY <1>2, <2>1 DEF WindowsInv, Closed
  <2>3. handled' = Append(handled, t) /\ ts' = ts
    BY <1>2 DEF UpdateCounters, input
  <2>4. /\ Len(handled') = n + 1 /\ DOMAIN handled' = 1 .. n + 1
        /\ \A k \in 1 .. n : handled'[k] = handled[k]
        /\ handled'[n + 1] = t
        /\ Closed(handled')
    <3> DEFINE S == {handled[k] : k \in DOMAIN handled} \cup {t}
    <3>1. handled \in Seq(S)
      <4>1. \A k \in 1 .. n : handled[k] \in S
        BY <2>2
      <4>2. handled \in Seq({handled[k] : k \in DOMAIN handled})
        BY <1>2 DEF WindowsInv, Closed
      <4> HIDE DEF S
      <4> QED
        BY <2>1, <4>1, <4>2
    <3>2. t \in S
      OBVIOUS
    <3> HIDE DEF S
    <3>3. /\ handled' \in Seq(S) /\ Len(handled') = n + 1
          /\ \A k \in 1 .. n : handled'[k] = handled[k]
          /\ handled'[n + 1] = t
      BY <2>1, <2>3, <3>1, <3>2
    <3>4. DOMAIN handled' = 1 .. n + 1
      BY <3>3
    <3>5. \A k \in 1 .. n + 1 : handled'[k] \in {handled'[i] : i \in DOMAIN handled'}
      BY <3>4
    <3>6. handled' \in Seq({handled'[i] : i \in DOMAIN handled'})
      <4> DEFINE R == {handled'[i] : i \in DOMAIN handled'}
      <4>1. \A k \in 1 .. n + 1 : handled'[k] \in R
        BY <3>5
      <4> HIDE DEF R
      <4>2. handled' \in Seq(R)
        BY <3>3, <4>1
      <4> QED
        BY <4>2 DEF R
    <3> QED
      BY <2>1, <3>3, <3>4, <3>6 DEF Closed
  <2> DEFINE f == KindsOf(ts, handled)
             g == KindsOf(ts, handled')
             kind == Flag(Lower(t))
  <2>5. \A k \in 1 .. n : g[k] = f[k]
    <3>1. \A k \in 1 .. n : k \in 1 .. n + 1
      OBVIOUS
    <3> QED
      BY <2>2, <2>4, <3>1 DEF KindsOf
  <2>6. g[n + 1] = kind
    <3>1. n + 1 \in 1 .. n + 1
      OBVIOUS
    <3> QED
      BY <2>4, <3>1 DEF KindsOf, Lower, Text
  <2>7. kind \in Kinds
    BY FlagOpens
  <2>8. expect' = Down(Opened(kind, expect))
    <3>1. DOMAIN Window(Lower(t)) = DOMAIN expect
      <4>1. DOMAIN expect = {"past", "noun", "verb"}
        BY <1>2 DEF WindowsInv, Counted
      <4>2. DOMAIN Opened(kind, expect) = {"past", "noun", "verb"}
        BY <4>1 DEF Opened, NoWindows
      <4> QED
        BY <4>1, <4>2, FlagOpens
    <3> QED
      BY <1>2, <3>1, FlagOpens DEF UpdateCounters, update_pos_context_counters, Down
  <2> HIDE DEF f, g, kind
  <2>9. Counted(g, n + 1) = Down(Opened(kind, Counted(f, n)))
    BY <2>5, <2>6, <2>7, CountedOnce
  <2>10. expect = Counted(f, n)
    BY <1>2, <2>1 DEF WindowsInv, f
  <2>11. expect' = Counted(KindsOf(ts', handled'), Len(handled'))
    BY <2>3, <2>4, <2>8, <2>9, <2>10 DEF g
  <2> QED
    BY <2>4, <2>11 DEF WindowsInv
<1> QED
  BY <1>1, <1>2, WindowsStand

(* Every window is open for as many tokens as the last flag word says.     *)
THEOREM WindowsOpen == Spec => []WindowsAsFlagged
<1>1. Init => WindowsInv
  <2>1. ASSUME Init PROVE WindowsInv
    <3>1. handled = <<>> /\ expect = NoWindows
      BY <2>1 DEF Init
    <3>2. Closed(handled)
      BY <3>1 DEF Closed
    <3>3. Opening(KindsOf(ts, handled), Len(handled)) = {}
      BY <3>1 DEF Opening
    <3> QED
      BY <3>1, <3>2, <3>3 DEF WindowsInv, Counted, LeftFor, NoWindows
  <2> QED
    BY <2>1
<1> QED
  BY <1>1, WindowsStep, WindowsAreCounted, PTL DEF Spec

-----------------------------------------------------------------------------
(* Walk(): there is such a function, when every step leads from a state to *)
(* a state, and its values are what the steps make.                        *)

RunsBy(h, n, D, start, step) ==
  /\ h[0] = start
  /\ \A k \in 1 .. n : k \in 0 .. n /\ k - 1 \in 0 .. n /\ k # 0
  /\ \A k \in 1 .. n : h[k - 1] \in D /\ h[k] = step[<<h[k - 1], k>>]
  /\ \A k \in 0 .. n : k = 0 \/ k \in 1 .. n
  /\ h = [k \in 0 .. n |-> h[k]]

(* A run of a typed step stays in its type, from the first value to the    *)
(* last.                                                                   *)
LEMMA StepsRun ==
  ASSUME NEW n \in Nat, NEW D, NEW start \in D, NEW step \in [D \X (1 .. n) -> D]
  PROVE  \E h : RunsBy(h, n, D, start, step)
<1>1. PICK h : Recurs(h, n, D, start, step)
  BY RecursExists
<1>2. h \in [0 .. n -> D] /\ h[0] = start /\ \A k \in 1 .. n : h[k] = step[<<h[k - 1], k>>]
  BY <1>1 DEF Recurs
<1>3. \A k \in 0 .. n : k = 0 \/ k \in 1 .. n
  OBVIOUS
<1>4. \A k \in 1 .. n : k \in 0 .. n /\ k - 1 \in 0 .. n /\ k # 0
  OBVIOUS
<1>5. \A k \in 1 .. n : h[k - 1] \in D
  BY <1>2, <1>4
<1>6. h = [k \in 0 .. n |-> h[k]]
  BY <1>2
<1> QED
  BY <1>2, <1>3, <1>4, <1>5, <1>6 DEF RunsBy

(* Digits have a value.                                                    *)
LEMMA DigitNat ==
  ASSUME NEW c, isdigit(c)
  PROVE  Digit(c) \in Nat
<1>1. PICK i \in 1 .. 10 : Numerals[i] = c
  BY DEF isdigit, Digits, ToSet, Numerals
<1>2. i - 1 \in 0 .. 9 /\ Numerals[(i - 1) + 1] = c
  BY <1>1
<1>3. \E d \in 0 .. 9 : Numerals[d + 1] = c
  BY <1>2
<1> QED
  BY <1>3 DEF Digit

(* The value of a text of digits is a number, whatever its length.         *)
LEMMA ValueNat ==
  ASSUME NEW text \in Seq(STRING), All(text, isdigit)
  PROVE  Value(text) \in Nat
<1> DEFINE n == Len(text)
           D == Nat
           Step(s, k) == 10 * s + Digit(text[k])
           step == [p \in D \X (1 .. n) |-> Step(p[1], p[2])]
           Rule(f) == f = [k \in 0 .. n |-> IF k = 0 THEN 0 ELSE Step(f[k - 1], k)]
           T == [k \in 0 .. n |-> D]
<1>1. n \in Nat /\ 0 \in D
  OBVIOUS
<1>2. \A s \in D : \A k \in 1 .. n : Step(s, k) \in D
  <2>1. \A k \in 1 .. n : Digit(text[k]) \in Nat
    BY DigitNat DEF All
  <2> HIDE DEF n
  <2> QED
    BY <2>1
<1>3. \A f : (f = CHOOSE q : Rule(q)) => Value(text) = f[n]
  BY Zenon DEF Value, Walk
<1> HIDE DEF n, D, Step
<1>4. PICK h : RunsBy(h, n, D, 0, step)
  BY <1>1, <1>2, StepsRun
<1>5. \A k \in 1 .. n : step[<<h[k - 1], k>>] = Step(h[k - 1], k)
  BY <1>4 DEF RunsBy
<1> HIDE DEF step
<1>6. Rule(h)
  BY <1>4, <1>5, Zenon DEF RunsBy
<1>7. PICK f : Rule(f) /\ f = CHOOSE q : Rule(q)
  BY <1>6
<1>8. f[0] \in T[0] /\ \A k \in 1 .. n : f[k - 1] \in T[k - 1] => f[k] \in T[k]
  <2>1. \A k \in 0 .. n : T[k] = D
    OBVIOUS
  <2>2. 0 \in 0 .. n /\ \A k \in 1 .. n : k \in 0 .. n /\ k # 0 /\ k - 1 \in 0 .. n
    BY <1>1
  <2>3. f[0] = 0 /\ \A k \in 1 .. n : f[k] = Step(f[k - 1], k)
    BY <1>7, <2>2
  <2> HIDE DEF T
  <2> QED
    BY <1>1, <1>2, <2>1, <2>2, <2>3
<1>9. f[n] \in D
  <2>1. n \in 0 .. n /\ T[n] = D
    BY <1>1
  <2> HIDE DEF T
  <2> QED
    BY <1>1, <1>8, <2>1, Climbs
<1> QED
  BY <1>3, <1>7, <1>9 DEF D

-----------------------------------------------------------------------------
(* Tokens: a space stands in front of every word but the first token.      *)

TokenSet == [text : Seq(STRING), is_word : BOOLEAN, needs_space : BOOLEAN]
Apart(tokens) == \A i \in DOMAIN tokens : tokens[i].is_word => tokens[i].needs_space = (i > 1)
TokenLists == {tokens \in Seq(TokenSet) : Apart(tokens)}

(* A token behind the others needs a space unless it is the first.         *)
LEMMA TokenAppended ==
  ASSUME NEW tokens \in TokenLists, NEW token \in TokenSet,
         token.is_word => token.needs_space = (tokens # <<>>)
  PROVE  Append(tokens, token) \in TokenLists
<1>1. tokens \in Seq(TokenSet) /\ Apart(tokens)
  BY DEF TokenLists
<1>2. PICK n \in Nat : n = Len(tokens)
  BY <1>1
<1>3. PICK new \in Seq(TokenSet) :
        /\ new = Append(tokens, token) /\ Len(new) = n + 1
        /\ \A i \in 1 .. n : new[i] = tokens[i]
        /\ new[n + 1] = token
  <2>1. /\ Append(tokens, token) \in Seq(TokenSet)
        /\ Len(Append(tokens, token)) = Len(tokens) + 1
        /\ \A i \in 1 .. Len(tokens) : Append(tokens, token)[i] = tokens[i]
        /\ Append(tokens, token)[Len(tokens) + 1] = token
    BY <1>1, AppendProperties
  <2> QED
    BY <1>2, <2>1
<1>4. DOMAIN tokens = 1 .. n /\ DOMAIN new = 1 .. n + 1
  BY <1>1, <1>2, <1>3
<1>5. (tokens # <<>>) = (n + 1 > 1)
  BY <1>1, <1>2
<1>6. ASSUME NEW i \in 1 .. n + 1, new[i].is_word PROVE new[i].needs_space = (i > 1)
  <2>1. CASE i = n + 1
    BY <1>3, <1>5, <1>6, <2>1
  <2>2. CASE i # n + 1
    <3>1. i \in 1 .. n
      BY <2>2
    <3> QED
      BY <1>1, <1>3, <1>4, <1>6, <3>1 DEF Apart
  <2> QED
    BY <2>1, <2>2
<1> QED
  BY <1>3, <1>4, <1>6 DEF TokenLists, Apart

(* The word read so far becomes a token, if there is one.                  *)
LEMMA WordFlushed ==
  ASSUME NEW tokens \in TokenLists, NEW cur \in Seq(STRING)
  PROVE  flush_word(tokens, cur) \in TokenLists
<1>1. Token(cur, TRUE, tokens # <<>>) \in TokenSet
  BY DEF Token, TokenSet
<1>2. Token(cur, TRUE, tokens # <<>>).needs_space = (tokens # <<>>)
  BY DEF Token
<1> QED
  BY <1>1, <1>2, TokenAppended DEF flush_word

(* A character that ends the word is punctuation behind it, or nothing.    *)
LEMMA WordEnded ==
  ASSUME NEW text \in Seq(STRING), NEW i \in DOMAIN text, NEW tokens \in TokenLists,
         NEW cur \in Seq(STRING)
  PROVE  ends_word(text, i, cur, tokens) \in TokenLists
<1>1. text[i] \in STRING /\ Append(cur, text[i]) \in Seq(STRING) /\ <<text[i]>> \in Seq(STRING)
  OBVIOUS
<1>2. flush_word(tokens, cur) \in TokenLists
  BY WordFlushed
<1>3. flush_word(tokens, Append(cur, text[i])) \in TokenLists
  BY <1>1, WordFlushed
<1>4. emit_punct(tokens, cur, text[i]) \in TokenLists
  <2>1. Token(<<text[i]>>, FALSE, FALSE) \in TokenSet /\ ~Token(<<text[i]>>, FALSE, FALSE).is_word
    BY <1>1 DEF Token, TokenSet
  <2> QED
    BY <1>2, <2>1, TokenAppended DEF emit_punct
<1> QED
  BY <1>2, <1>3, <1>4 DEF ends_word

(* tokenize() makes a list of tokens of any text: none is empty, and a     *)
(* word needs a space when something stands before it.                     *)
LEMMA TokensListed ==
  ASSUME NEW text \in Seq(STRING)
  PROVE  tokenize(text) \in TokenLists
<1> DEFINE n == Len(text)
           D == [cur : Seq(STRING), out : TokenLists]
           Step(s, i) == IF Joins(text, i, s.cur) THEN [s EXCEPT !.cur = Append(@, text[i])]
                         ELSE [cur |-> <<>>, out |-> ends_word(text, i, s.cur, s.out)]
           start == [cur |-> <<>>, out |-> <<>>]
           step == [p \in D \X (1 .. n) |-> Step(p[1], p[2])]
           Rule(f) == f = [k \in 0 .. n |-> IF k = 0 THEN start ELSE Step(f[k - 1], k)]
           T == [k \in 0 .. n |-> D]
<1>1. n \in Nat /\ start \in D
  <2>1. <<>> \in TokenLists
    BY DEF TokenLists, Apart
  <2> QED
    BY <2>1
<1>2. \A s \in D : \A k \in 1 .. n : Step(s, k) \in D
  <2>1. SUFFICES ASSUME NEW s \in D, NEW k \in 1 .. n PROVE Step(s, k) \in D
    OBVIOUS
  <2>2. s.cur \in Seq(STRING) /\ s.out \in TokenLists /\ k \in DOMAIN text
    OBVIOUS
  <2>3. CASE Joins(text, k, s.cur)
    <3>1. Append(s.cur, text[k]) \in Seq(STRING)
      BY <2>2
    <3>2. Step(s, k) = [s EXCEPT !.cur = Append(s.cur, text[k])]
      BY <2>3
    <3> QED
      BY <3>1, <3>2
  <2>4. CASE ~Joins(text, k, s.cur)
    <3>1. ends_word(text, k, s.cur, s.out) \in TokenLists
      BY <2>2, WordEnded
    <3>2. Step(s, k) = [cur |-> <<>>, out |-> ends_word(text, k, s.cur, s.out)]
      BY <2>4
    <3> QED
      BY <3>1, <3>2
  <2> QED
    BY <2>3, <2>4
<1>3. \A f : (f = CHOOSE q : Rule(q)) => tokenize(text) = flush_word(f[n].out, f[n].cur)
  BY Zenon DEF tokenize, Walk
<1> HIDE DEF n, D, Step, start
<1>4. PICK h : RunsBy(h, n, D, start, step)
  BY <1>1, <1>2, StepsRun
<1>5. \A k \in 1 .. n : step[<<h[k - 1], k>>] = Step(h[k - 1], k)
  BY <1>4 DEF RunsBy
<1> HIDE DEF step
<1>6. Rule(h)
  BY <1>4, <1>5, Zenon DEF RunsBy
<1>7. PICK f : Rule(f) /\ f = CHOOSE q : Rule(q)
  BY <1>6
<1>8. f[0] \in T[0] /\ \A k \in 1 .. n : f[k - 1] \in T[k - 1] => f[k] \in T[k]
  <2>1. \A k \in 0 .. n : T[k] = D
    OBVIOUS
  <2>2. 0 \in 0 .. n /\ \A k \in 1 .. n : k \in 0 .. n /\ k # 0 /\ k - 1 \in 0 .. n
    BY <1>1
  <2>3. f[0] = start /\ \A k \in 1 .. n : f[k] = Step(f[k - 1], k)
    BY <1>7, <2>2
  <2> HIDE DEF T
  <2> QED
    BY <1>1, <1>2, <2>1, <2>2, <2>3
<1>9. f[n] \in D
  <2>1. n \in 0 .. n /\ T[n] = D
    BY <1>1
  <2> HIDE DEF T
  <2> QED
    BY <1>1, <1>8, <2>1, Climbs
<1>10. f[n].cur \in Seq(STRING) /\ f[n].out \in TokenLists
  BY <1>9 DEF D
<1> QED
  BY <1>3, <1>7, <1>10, WordFlushed

-----------------------------------------------------------------------------
(* Number words: what int_to_words() writes is read back.                  *)

Sums == [all : Nat, part : Nat]

(* A number word leads from a sum to a sum, whichever word it is.          *)
LEMMA PlusSums ==
  ASSUME NEW sum \in Sums, NEW word
  PROVE  Plus(sum, word) \in Sums
<1>1. Among(NUM_ONES, word) \subseteq Nat /\ Among(NUM_TENS, word) \subseteq Nat
  <2>1. /\ Among(NUM_ONES, word) \subseteq DOMAIN NUM_ONES
        /\ Among(NUM_TENS, word) \subseteq DOMAIN NUM_TENS
    BY DEF Among
  <2>2. DOMAIN NUM_ONES = 1 .. 19 /\ DOMAIN NUM_TENS = 1 .. 9
    BY DEF NUM_ONES, NUM_TENS
  <2> QED
    BY <2>1, <2>2
<1>2. Among(NUM_ONES, word) # {} => Min(Among(NUM_ONES, word)) \in Nat
  BY <1>1, MinFound
<1>3. Among(NUM_TENS, word) # {} => Min(Among(NUM_TENS, word)) \in Nat
  BY <1>1, MinFound
<1>4. PICK a \in Nat, p \in Nat : sum = [all |-> a, part |-> p] /\ sum.all = a /\ sum.part = p
  BY DEF Sums
<1>5. (IF Among(NUM_ONES, word) # {} THEN Min(Among(NUM_ONES, word))
       ELSE IF Among(NUM_TENS, word) # {} THEN 10 * Min(Among(NUM_TENS, word)) ELSE 0) \in Nat
  BY <1>2, <1>3
<1> QED
  BY <1>4, <1>5 DEF Plus, Sums

(* The sum of words, one after the other.                                  *)
Adds(f, n, sum, words) ==
  /\ f[0] = sum
  /\ \A k \in 1 .. n : f[k] = Plus(f[k - 1], words[k])
  /\ \A k \in 0 .. n : f[k] \in Sums

(* The sum of words is what a run of Plus makes of them.                   *)
LEMMA SummedAdds ==
  ASSUME NEW W, NEW words \in Seq(W), NEW sum \in Sums
  PROVE  \E f : Adds(f, Len(words), sum, words) /\ Summed(sum, words) = f[Len(words)]
<1> DEFINE n == Len(words)
           D == Sums
           Step(s, k) == Plus(s, words[k])
           step == [p \in D \X (1 .. n) |-> Step(p[1], p[2])]
           Rule(f) == f = [k \in 0 .. n |-> IF k = 0 THEN sum ELSE Step(f[k - 1], k)]
           T == [k \in 0 .. n |-> D]
<1>1. n \in Nat /\ sum \in D
  OBVIOUS
<1>2. \A s \in D : \A k \in 1 .. n : Step(s, k) \in D
  BY PlusSums
<1>3. \A f : (f = CHOOSE q : Rule(q)) => Summed(sum, words) = f[n]
  BY Zenon DEF Summed, Walk
<1>4. \A s, k : Step(s, k) = Plus(s, words[k])
  OBVIOUS
<1> HIDE DEF n, D, Step
<1>5. PICK h : RunsBy(h, n, D, sum, step)
  BY <1>1, <1>2, StepsRun
<1>6. \A k \in 1 .. n : step[<<h[k - 1], k>>] = Step(h[k - 1], k)
  BY <1>5 DEF RunsBy
<1> HIDE DEF step
<1>7. Rule(h)
  BY <1>5, <1>6, Zenon DEF RunsBy
<1>8. PICK f : Rule(f) /\ f = CHOOSE q : Rule(q)
  BY <1>7
<1>9. 0 \in 0 .. n /\ \A k \in 1 .. n : k \in 0 .. n /\ k # 0 /\ k - 1 \in 0 .. n
  BY <1>1
<1>10. f[0] = sum /\ \A k \in 1 .. n : f[k] = Step(f[k - 1], k)
  BY <1>8, <1>9
<1>11. \A k \in 0 .. n : f[k] \in D
  <2>1. \A k \in 0 .. n : T[k] = D
    OBVIOUS
  <2>2. f[0] \in T[0] /\ \A k \in 1 .. n : f[k - 1] \in T[k - 1] => f[k] \in T[k]
    <3> HIDE DEF T
    <3> QED
      BY <1>1, <1>2, <1>9, <1>10, <2>1
  <2>3. \A k \in 0 .. n : f[k] \in T[k]
    <3> HIDE DEF T
    <3> QED
      BY <1>1, <2>2, Climbs
  <2> HIDE DEF T
  <2> QED
    BY <2>1, <2>3
<1>12. Adds(f, Len(words), sum, words)
  BY <1>4, <1>10, <1>11 DEF Adds, n, D
<1>13. Summed(sum, words) = f[Len(words)]
  BY <1>3, <1>8 DEF n
<1> QED
  BY <1>12, <1>13

(* The sum of no words, of one word, and of some words and more behind     *)
(* them.                                                                   *)
LEMMA SummedNone ==
  ASSUME NEW sum \in Sums
  PROVE  Summed(sum, <<>>) = sum
<1>1. <<>> \in Seq({}) /\ Len(<<>>) = 0
  OBVIOUS
<1>2. PICK f : Adds(f, Len(<<>>), sum, <<>>) /\ Summed(sum, <<>>) = f[Len(<<>>)]
  BY <1>1, SummedAdds
<1> QED
  BY <1>1, <1>2 DEF Adds

(* One word adds what it is worth.                                         *)
LEMMA SummedOne ==
  ASSUME NEW sum \in Sums, NEW word
  PROVE  Summed(sum, <<word>>) = Plus(sum, word) /\ Plus(sum, word) \in Sums
<1>1. <<word>> \in Seq({word}) /\ Len(<<word>>) = 1 /\ <<word>>[1] = word
  OBVIOUS
<1>2. PICK f : Adds(f, Len(<<word>>), sum, <<word>>) /\ Summed(sum, <<word>>) = f[Len(<<word>>)]
  BY <1>1, SummedAdds
<1> QED
  BY <1>1, <1>2, PlusSums DEF Adds

(* Words behind others go on from the sum the others had.                  *)
LEMMA SummedBoth ==
  ASSUME NEW W, NEW a \in Seq(W), NEW b \in Seq(W), NEW sum \in Sums
  PROVE  Summed(sum, a) \in Sums /\ Summed(sum, a \o b) = Summed(Summed(sum, a), b)
<1>1. PICK m \in Nat, n \in Nat : m = Len(a) /\ n = Len(b)
  OBVIOUS
<1>2. PICK c \in Seq(W) :
        /\ c = a \o b /\ Len(c) = m + n
        /\ \A k \in 1 .. m : c[k] = a[k]
        /\ \A k \in 1 .. n : c[m + k] = b[k]
  <2> DEFINE c == a \o b
  <2>1. /\ c \in Seq(W) /\ Len(c) = m + n
        /\ \A i \in 1 .. m + n : c[i] = IF i <= m THEN a[i] ELSE b[i - m]
    BY <1>1, ConcatProperties
  <2>2. \A k \in 1 .. m : k \in 1 .. m + n /\ k <= m
    OBVIOUS
  <2>3. \A k \in 1 .. n : m + k \in 1 .. m + n /\ ~(m + k <= m) /\ (m + k) - m = k
    OBVIOUS
  <2>4. c = a \o b
    OBVIOUS
  <2> HIDE DEF c
  <2>5. (\A k \in 1 .. m : c[k] = a[k]) /\ \A k \in 1 .. n : c[m + k] = b[k]
    BY <2>1, <2>2, <2>3
  <2> QED
    BY <2>1, <2>4, <2>5
<1>3. PICK f : Adds(f, m, sum, a) /\ Summed(sum, a) = f[m]
  BY <1>1, SummedAdds
<1>4. f[m] \in Sums
  BY <1>3 DEF Adds
<1>5. PICK g : Adds(g, n, f[m], b) /\ Summed(f[m], b) = g[n]
  BY <1>1, <1>4, SummedAdds
<1>6. PICK h : Adds(h, m + n, sum, c) /\ Summed(sum, c) = h[m + n]
  <2>1. \E h : Adds(h, Len(c), sum, c) /\ Summed(sum, c) = h[Len(c)]
    BY SummedAdds
  <2> QED
    BY <1>2, <2>1
<1>7. \A k \in 0 .. m : h[k] = f[k]
  <2>1. h[0] = f[0]
    BY <1>3, <1>6 DEF Adds
  <2>2. ASSUME NEW k \in 1 .. m, h[k - 1] = f[k - 1] PROVE h[k] = f[k]
    <3>1. k \in 1 .. m + n
      OBVIOUS
    <3>2. h[k] = Plus(h[k - 1], c[k])
      BY <1>6, <3>1 DEF Adds
    <3>3. f[k] = Plus(f[k - 1], a[k]) /\ c[k] = a[k]
      BY <1>2, <1>3 DEF Adds
    <3> QED
      BY <2>2, <3>2, <3>3
  <2>3. \A k \in 1 .. m : h[k - 1] = f[k - 1] => h[k] = f[k]
    BY <2>2
  <2>4. Follows(h, f, m) /\ m \in Nat
    <3>1. m \in Nat
      OBVIOUS
    <3>2. Follows(h, f, m)
      BY <2>1, <2>3, Zenon DEF Follows
    <3> QED
      BY <3>1, <3>2, Zenon
  <2>5. Alike(h, f, m)
    BY <2>4, FollowsOnce, Zenon
  <2> QED
    BY <2>5, Zenon DEF Alike
<1> DEFINE far == [k \in 0 .. n |-> h[m + k]]
<1>8. \A k \in 0 .. n : far[k] = h[m + k]
  OBVIOUS
<1> HIDE DEF far
<1>9. \A k \in 0 .. n : far[k] = g[k]
  <2>1. far[0] = g[0]
    <3>1. m + 0 = m /\ 0 \in 0 .. n /\ m \in 0 .. m
      OBVIOUS
    <3>2. far[0] = h[m]
      BY <1>8, <3>1
    <3>3. g[0] = f[m]
      BY <1>5 DEF Adds
    <3> QED
      BY <1>7, <3>1, <3>2, <3>3
  <2>2. ASSUME NEW k \in 1 .. n, far[k - 1] = g[k - 1] PROVE far[k] = g[k]
    <3>1. /\ m + k \in 1 .. m + n /\ (m + k) - 1 = m + (k - 1)
          /\ k - 1 \in 0 .. n /\ k \in 0 .. n
      OBVIOUS
    <3>2. h[m + k] = Plus(h[(m + k) - 1], c[m + k])
      BY <1>6, <3>1 DEF Adds
    <3>3. g[k] = Plus(g[k - 1], b[k]) /\ c[m + k] = b[k]
      BY <1>2, <1>5 DEF Adds
    <3>4. far[k] = h[m + k] /\ far[k - 1] = h[m + (k - 1)]
      BY <1>8, <3>1
    <3> QED
      BY <2>2, <3>1, <3>2, <3>3, <3>4
  <2>3. \A k \in 1 .. n : far[k - 1] = g[k - 1] => far[k] = g[k]
    BY <2>2
  <2>4. Follows(far, g, n) /\ n \in Nat
    <3>1. n \in Nat
      OBVIOUS
    <3>2. Follows(far, g, n)
      BY <2>1, <2>3, Zenon DEF Follows
    <3> QED
      BY <3>1, <3>2, Zenon
  <2> HIDE DEF far
  <2>5. Alike(far, g, n)
    BY <2>4, FollowsOnce, Zenon
  <2> QED
    BY <2>5, Zenon DEF Alike
<1>10. n \in 0 .. n
  OBVIOUS
<1>11. h[m + n] = g[n]
  BY <1>8, <1>9, <1>10
<1> QED
  BY <1>2, <1>3, <1>4, <1>5, <1>6, <1>11

(* Every number word has one meaning.                                      *)
NumberWords == {NUM_ONES[k] : k \in 1 .. 19} \cup {NUM_TENS[k] : k \in 1 .. 9}
                 \cup {"zero", "hundred", "thousand", "million"}

(* No two number words are the same, and none is the name of a power.      *)
LEMMA WordsDiffer ==
  /\ \A j, k \in 1 .. 19 : NUM_ONES[j] = NUM_ONES[k] => j = k
  /\ \A j, k \in 1 .. 9 : NUM_TENS[j] = NUM_TENS[k] => j = k
  /\ \A j \in 1 .. 19 : NUM_ONES[j] \notin {"million", "thousand", "hundred", "zero"}
  /\ \A k \in 1 .. 9 : NUM_TENS[k] \notin {"million", "thousand", "hundred", "zero"}
  /\ \A j \in 1 .. 19 : \A k \in 2 .. 9 : NUM_ONES[j] # NUM_TENS[k]
  /\ DOMAIN NUM_ONES = 1 .. 19 /\ DOMAIN NUM_TENS = 1 .. 9
<1>1. \A j, k \in 1 .. 19 : NUM_ONES[j] = NUM_ONES[k] => j = k
  BY SMTT(60) DEF NUM_ONES
<1>2. \A j, k \in 1 .. 9 : NUM_TENS[j] = NUM_TENS[k] => j = k
  BY SMTT(60) DEF NUM_TENS
<1>3. \A j \in 1 .. 19 : NUM_ONES[j] \notin {"million", "thousand", "hundred", "zero"}
  BY SMTT(60) DEF NUM_ONES
<1>4. \A k \in 1 .. 9 : NUM_TENS[k] \notin {"million", "thousand", "hundred", "zero"}
  BY SMTT(60) DEF NUM_TENS
<1>5. \A j \in 1 .. 19 : \A k \in 2 .. 9 : NUM_ONES[j] # NUM_TENS[k]
  BY SMTT(60) DEF NUM_ONES, NUM_TENS
<1>6. DOMAIN NUM_ONES = 1 .. 19 /\ DOMAIN NUM_TENS = 1 .. 9
  BY DEF NUM_ONES, NUM_TENS
<1> QED
  BY <1>1, <1>2, <1>3, <1>4, <1>5, <1>6

(* The least of one number is that number.                                 *)
LEMMA MinOne ==
  ASSUME NEW k \in Nat
  PROVE  Min({k}) = k
<1>1. Min({k}) \in {k}
  BY MinFound
<1> QED
  BY <1>1

Sum(a, p) == [all |-> a, part |-> p]

(* What each number word does to a sum: the words below twenty,            *)
LEMMA PlusOnes ==
  ASSUME NEW a \in Nat, NEW p \in Nat, NEW n \in 1 .. 19
  PROVE  Plus(Sum(a, p), NUM_ONES[n]) = Sum(a, p + n)
<1>1. Among(NUM_ONES, NUM_ONES[n]) = {n}
  BY WordsDiffer DEF Among
<1>2. NUM_ONES[n] \notin {"million", "thousand", "hundred"} /\ Min({n}) = n
  BY WordsDiffer, MinOne
<1>3. Plus(Sum(a, p), NUM_ONES[n]) = [Sum(a, p) EXCEPT !.part = @ + n]
  BY <1>1, <1>2, SMT DEF Plus
<1> QED
  BY <1>3 DEF Sum

(* the tens,                                                               *)
LEMMA PlusTens ==
  ASSUME NEW a \in Nat, NEW p \in Nat, NEW n \in 2 .. 9
  PROVE  Plus(Sum(a, p), NUM_TENS[n]) = Sum(a, p + 10 * n)
<1>1. Among(NUM_TENS, NUM_TENS[n]) = {n}
  <2>1. n \in 1 .. 9
    OBVIOUS
  <2> QED
    BY <2>1, WordsDiffer DEF Among
<1>2. Among(NUM_ONES, NUM_TENS[n]) = {}
  BY WordsDiffer DEF Among
<1>3. NUM_TENS[n] \notin {"million", "thousand", "hundred"} /\ Min({n}) = n
  <2>1. n \in 1 .. 9
    OBVIOUS
  <2> QED
    BY <2>1, WordsDiffer, MinOne
<1>4. Plus(Sum(a, p), NUM_TENS[n]) = [Sum(a, p) EXCEPT !.part = @ + 10 * n]
  BY <1>1, <1>2, <1>3, SMT DEF Plus
<1> QED
  BY <1>4 DEF Sum

(* zero, which adds nothing,                                               *)
LEMMA PlusZero ==
  ASSUME NEW a \in Nat, NEW p \in Nat
  PROVE  Plus(Sum(a, p), "zero") = Sum(a, p)
<1>1. Among(NUM_ONES, "zero") = {}
  BY WordsDiffer DEF Among
<1>2. Among(NUM_TENS, "zero") = {}
  BY WordsDiffer DEF Among
<1>3. Plus(Sum(a, p), "zero") = [Sum(a, p) EXCEPT !.part = @ + 0]
  BY <1>1, <1>2, SMT DEF Plus
<1> QED
  BY <1>3 DEF Sum

(* hundred, which is a hundred times the part,                             *)
LEMMA PlusHundred ==
  ASSUME NEW a \in Nat, NEW p \in Nat
  PROVE  Plus(Sum(a, p), "hundred") = Sum(a, p * 100)
BY SMT DEF Plus, Sum

(* thousand, which closes the part,                                        *)
LEMMA PlusThousand ==
  ASSUME NEW a \in Nat, NEW p \in Nat
  PROVE  Plus(Sum(a, p), "thousand") = Sum(a + p * 1000, 0)
BY SMT DEF Plus, Sum

(* and million, which does so too.                                         *)
LEMMA PlusMillion ==
  ASSUME NEW a \in Nat, NEW p \in Nat
  PROVE  Plus(Sum(a, p), "million") = Sum(a + p * 1000000, 0)
BY SMT DEF Plus, Sum

(* A sum has the two parts it is made of.                                  *)
LEMMA SumInSums ==
  /\ \A a, p \in Nat : Sum(a, p) \in Sums
  /\ \A a, p : Sum(a, p).all = a /\ Sum(a, p).part = p
BY DEF Sum, Sums

(* Words that lead from one sum to another.                                *)
Read(words, s, u) ==
  words \in Seq(NumberWords) /\ s \in Sums /\ u \in Sums /\ Summed(s, words) = u

(* No words lead nowhere,                                                  *)
LEMMA ReadNone ==
  ASSUME NEW s \in Sums
  PROVE  Read(<<>>, s, s)
<1>1. <<>> \in Seq(NumberWords)
  OBVIOUS
<1> QED
  BY <1>1, SummedNone DEF Read

(* a word leads as far as it adds,                                         *)
LEMMA ReadOne ==
  ASSUME NEW s \in Sums, NEW word \in NumberWords, NEW u, u = Plus(s, word)
  PROVE  Read(<<word>>, s, u)
<1>1. <<word>> \in Seq(NumberWords)
  OBVIOUS
<1> QED
  BY <1>1, SummedOne DEF Read

(* and words behind others lead on from where these led.                   *)
LEMMA ReadBoth ==
  ASSUME NEW v, NEW w, NEW x, NEW r, NEW s, NEW u, Read(v, r, s), Read(w, s, u), x = v \o w
  PROVE  Read(x, r, u)
<1>1. v \in Seq(NumberWords) /\ w \in Seq(NumberWords) /\ r \in Sums /\ u \in Sums
  BY DEF Read
<1>2. x \in Seq(NumberWords)
  BY <1>1
<1>3. Summed(r, v) = s /\ Summed(s, w) = u
  BY DEF Read
<1>4. Summed(r, v \o w) = Summed(Summed(r, v), w)
  <2> HIDE DEF NumberWords
  <2> QED
    BY <1>1, SummedBoth
<1> QED
  BY <1>1, <1>2, <1>3, <1>4 DEF Read

(* int_to_words() below twenty is read back,                               *)
LEMMA OnesRead ==
  ASSUME NEW a \in Nat, NEW p \in Nat, NEW n \in 0 .. 19
  PROVE  Read(Ones(n), Sum(a, p), Sum(a, p + n))
<1>1. Sum(a, p) \in Sums
  BY SumInSums
<1>2. CASE n = 0
  <2>1. Ones(n) = <<>> /\ p + n = p
    BY <1>2 DEF Ones
  <2> QED
    BY <1>1, <2>1, ReadNone
<1>3. CASE n # 0
  <2>1. n \in 1 .. 19 /\ Ones(n) = <<NUM_ONES[n]>>
    BY <1>3 DEF Ones
  <2>2. NUM_ONES[n] \in NumberWords
    BY <2>1 DEF NumberWords
  <2>3. Plus(Sum(a, p), NUM_ONES[n]) = Sum(a, p + n)
    BY <2>1, PlusOnes
  <2>4. Read(<<NUM_ONES[n]>>, Sum(a, p), Plus(Sum(a, p), NUM_ONES[n]))
    BY <1>1, <2>2, ReadOne
  <2> QED
    BY <2>1, <2>3, <2>4
<1> QED
  BY <1>2, <1>3

(* below a hundred,                                                        *)
LEMMA TensRead ==
  ASSUME NEW a \in Nat, NEW p \in Nat, NEW n \in 0 .. 99
  PROVE  Read(Tens(n), Sum(a, p), Sum(a, p + n))
<1>1. CASE n < 20
  <2>1. n \in 0 .. 19 /\ Tens(n) = Ones(n)
    BY <1>1 DEF Tens
  <2> QED
    BY <2>1, OnesRead
<1>2. CASE ~(n < 20)
  <2>1. PICK q \in 2 .. 9, r \in 0 .. 9 : q = n \div 10 /\ r = n % 10 /\ n = 10 * q + r
    BY <1>2
  <2>2. PICK m \in Nat : m = p + 10 * q /\ m + r = p + n
    BY <2>1
  <2>3. Read(<<NUM_TENS[q]>>, Sum(a, p), Sum(a, m))
    <3>1. NUM_TENS[q] \in NumberWords
      BY <2>1 DEF NumberWords
    <3>2. Plus(Sum(a, p), NUM_TENS[q]) = Sum(a, m)
      BY <2>2, PlusTens
    <3>3. Sum(a, p) \in Sums
      BY SumInSums
    <3> QED
      BY <3>1, <3>2, <3>3, ReadOne
  <2>4. Read(Ones(r), Sum(a, m), Sum(a, p + n))
    <3>1. r \in 0 .. 19
      BY <2>1
    <3>2. Read(Ones(r), Sum(a, m), Sum(a, m + r))
      BY <3>1, OnesRead
    <3> QED
      BY <2>2, <3>2
  <2>5. Tens(n) = <<NUM_TENS[q]>> \o Ones(r)
    BY <1>2, <2>1 DEF Tens
  <2> QED
    BY <2>3, <2>4, <2>5, ReadBoth
<1> QED
  BY <1>1, <1>2

BelowMillion(n) == n < 1000000

(* Two pieces of a number behind each other, and a piece that the name of  *)
(* a power closes.                                                         *)
LEMMA ReadTwo ==
  ASSUME NEW v, NEW w, NEW r, NEW s, NEW u, Read(v, r, s), Read(w, s, u)
  PROVE  Read(v \o w, r, u)
<1>1. PICK x : x = v \o w
  OBVIOUS
<1>2. Read(x, r, u)
  BY <1>1, ReadBoth
<1> QED
  BY <1>1, <1>2

LEMMA ReadClosed ==
  ASSUME NEW v, NEW word \in NumberWords, NEW r, NEW s \in Sums, NEW u,
         Read(v, r, s), Plus(s, word) = u
  PROVE  Read(v \o <<word>>, r, u)
<1>1. Read(<<word>>, s, u)
  BY ReadOne
<1> QED
  BY <1>1, ReadTwo

(* A number is so many hundreds, or thousands, and what is left.           *)
Below(n, bound) == n < bound

LEMMA InHundreds ==
  ASSUME NEW n \in Nat, n < 1000
  PROVE  \E q, r, m \in Nat :
           /\ r \in 0 .. 99
           /\ q = n \div 100 /\ r = n % 100 /\ m = q * 100 /\ m + r = n
           /\ n < 100 => r = n
           /\ ~(n < 100) => q \in 1 .. 9
<1>1. n = 100 * (n \div 100) + (n % 100) /\ n \div 100 \in Nat /\ n % 100 \in 0 .. 99
  OBVIOUS
<1>2. PICK q, r : q = n \div 100 /\ r = n % 100
  OBVIOUS
<1>3. q \in Nat /\ r \in 0 .. 99 /\ n = 100 * q + r
  BY <1>1, <1>2
<1>4. PICK m \in Nat : m = q * 100 /\ m + r = n
  <2>1. q * 100 \in Nat /\ q * 100 + r = n
    BY <1>3
  <2> QED
    BY <2>1
<1>5. /\ n < 100 => r = n
      /\ ~(n < 100) => q \in 1 .. 9
  BY <1>3
<1> QED
  BY <1>2, <1>3, <1>4, <1>5

LEMMA InThousands ==
  ASSUME NEW n \in Nat, BelowMillion(n)
  PROVE  \E q, r, m \in Nat :
           /\ q = n \div 1000 /\ r = n % 1000 /\ Below(q, 1000) /\ Below(r, 1000)
           /\ m = q * 1000 /\ m + r = n
           /\ n < 1000 => r = n
<1>1. /\ n = 1000 * (n \div 1000) + (n % 1000)
      /\ n \div 1000 \in Nat /\ n % 1000 \in Nat /\ n % 1000 < 1000
  OBVIOUS
<1>2. PICK q, r : q = n \div 1000 /\ r = n % 1000
  OBVIOUS
<1>3. q \in Nat /\ r \in Nat /\ r < 1000 /\ n = 1000 * q + r
  BY <1>1, <1>2
<1>4. PICK m \in Nat : m = q * 1000 /\ m + r = n
  <2>1. q * 1000 \in Nat /\ q * 1000 + r = n
    BY <1>3
  <2> QED
    BY <2>1
<1>5. q < 1000 /\ (n < 1000 => r = n)
  BY <1>3, SMT DEF BelowMillion
<1>6. Below(q, 1000) /\ Below(r, 1000)
  BY <1>3, <1>5, SMT DEF Below
<1> QED
  BY <1>2, <1>3, <1>4, <1>5, <1>6

(* A digit and its hundred.                                                *)
LEMMA HundredRead ==
  ASSUME NEW a \in Nat, NEW q \in 1 .. 9, NEW m \in Nat, m = q * 100
  PROVE  Read(<<NUM_ONES[q], "hundred">>, Sum(a, 0), Sum(a, m))
<1>1. q \in 0 .. 19 /\ q \in Nat /\ 0 + q = q /\ 0 \in Nat
  OBVIOUS
<1>2. Read(Ones(q), Sum(a, 0), Sum(a, 0 + q))
  BY <1>1, OnesRead
<1>3. Read(Ones(q), Sum(a, 0), Sum(a, q))
  BY <1>1, <1>2
<1>4. "hundred" \in NumberWords /\ Sum(a, q) \in Sums
  BY <1>1, SumInSums DEF NumberWords
<1>5. Plus(Sum(a, q), "hundred") = Sum(a, m)
  <2>1. Plus(Sum(a, q), "hundred") = Sum(a, q * 100)
    BY <1>1, PlusHundred
  <2> QED
    BY <2>1
<1>6. <<NUM_ONES[q], "hundred">> = Ones(q) \o <<"hundred">>
  BY DEF Ones
<1>7. PICK s, u : s = Sum(a, q) /\ u = Sum(a, m)
  OBVIOUS
<1>8. Read(Ones(q) \o <<"hundred">>, Sum(a, 0), u)
  BY <1>3, <1>4, <1>5, <1>7, ReadClosed
<1> QED
  BY <1>6, <1>7, <1>8

(* The first group of a number stands alone.                               *)
LEMMA HundredsRead ==
  ASSUME NEW a \in Nat, NEW n \in Nat, Below(n, 1000)
  PROVE  Read(Hundreds(n), Sum(a, 0), Sum(a, n))
<1>1. PICK q \in Nat, r \in Nat, m \in Nat :
        /\ r \in 0 .. 99
        /\ q = n \div 100 /\ r = n % 100 /\ m = q * 100 /\ m + r = n
        /\ n < 100 => r = n
        /\ ~(n < 100) => q \in 1 .. 9
  BY InHundreds, SMT DEF Below
<1>2. r \in 0 .. 99
  BY <1>1
<1>3. PICK s, u, w : s = Sum(a, 0) /\ u = Sum(a, m) /\ w = Sum(a, n)
  OBVIOUS
<1>4. CASE n < 100
  <2>1. Hundreds(n) = <<>> \o Tens(r)
    BY <1>1, <1>4 DEF Hundreds
  <2>2. Read(<<>>, s, s)
    BY <1>3, ReadNone, SumInSums
  <2>3. Read(Tens(r), Sum(a, 0), Sum(a, 0 + r))
    BY <1>2, TensRead
  <2>4. 0 + r = n
    BY <1>1, <1>4
  <2>5. Read(Tens(r), s, w)
    BY <1>3, <2>3, <2>4
  <2>6. Read(<<>> \o Tens(r), s, w)
    BY <2>2, <2>5, ReadTwo
  <2> QED
    BY <1>3, <2>1, <2>6
<1>5. CASE ~(n < 100)
  <2>1. Hundreds(n) = <<NUM_ONES[q], "hundred">> \o Tens(r)
    BY <1>1, <1>5 DEF Hundreds
  <2>2. Read(<<NUM_ONES[q], "hundred">>, s, u)
    BY <1>1, <1>3, <1>5, HundredRead
  <2>3. Read(Tens(r), Sum(a, m), Sum(a, m + r))
    BY <1>2, TensRead
  <2>4. Read(Tens(r), u, w)
    BY <1>1, <1>3, <2>3
  <2>5. Read(<<NUM_ONES[q], "hundred">> \o Tens(r), s, w)
    BY <2>2, <2>4, ReadTwo
  <2> QED
    BY <1>3, <2>1, <2>5
<1> QED
  BY <1>4, <1>5

(* The thousands, closed by their name,                                    *)
LEMMA ThousandsPart ==
  ASSUME NEW a \in Nat, NEW q \in Nat, Below(q, 1000)
  PROVE  Read(Hundreds(q) \o <<"thousand">>, Sum(a, 0), Sum(a + q * 1000, 0))
<1>1. PICK s, u, w : s = Sum(a, 0) /\ u = Sum(a, q) /\ w = Sum(a + q * 1000, 0)
  OBVIOUS
<1>2. Read(Hundreds(q), s, u)
  BY <1>1, HundredsRead
<1>3. "thousand" \in NumberWords /\ u \in Sums
  BY <1>1, SumInSums DEF NumberWords
<1>4. Plus(u, "thousand") = w
  BY <1>1, PlusThousand
<1>5. Read(Hundreds(q) \o <<"thousand">>, s, w)
  BY <1>2, <1>3, <1>4, ReadClosed
<1> QED
  BY <1>1, <1>5

(* and below a million.                                                    *)
LEMMA ThousandsRead ==
  ASSUME NEW a \in Nat, NEW n \in Nat, BelowMillion(n)
  PROVE  \E b, p \in Nat : b + p = a + n /\ Read(Thousands(n), Sum(a, 0), Sum(b, p))
<1>1. PICK q \in Nat, r \in Nat, m \in Nat :
        /\ q = n \div 1000 /\ r = n % 1000 /\ Below(q, 1000) /\ Below(r, 1000)
        /\ m = q * 1000 /\ m + r = n
        /\ n < 1000 => r = n
  BY InThousands, SMT
<1>2. PICK b \in Nat : b = a + m /\ b = a + q * 1000 /\ b + r = a + n
  <2>1. PICK b \in Nat : b = a + m
    OBVIOUS
  <2>2. b = a + q * 1000 /\ b + r = a + n
    BY <1>1, <2>1
  <2> QED
    BY <2>1, <2>2
<1>3. PICK s, u, w : s = Sum(a, 0) /\ u = Sum(b, 0) /\ w = Sum(b, r)
  OBVIOUS
<1>4. Read(Hundreds(r), u, w)
  BY <1>1, <1>3, HundredsRead
<1>5. CASE n < 1000
  <2>1. Thousands(n) = <<>> \o Hundreds(n)
    BY <1>1, <1>5 DEF Thousands
  <2>2. PICK v : v = Sum(a, n)
    OBVIOUS
  <2>3. Read(<<>>, s, s)
    BY <1>3, ReadNone, SumInSums
  <2>4. Read(Hundreds(n), s, v)
    BY <1>1, <1>3, <1>5, <2>2, HundredsRead
  <2>5. Read(<<>> \o Hundreds(n), s, v)
    BY <2>3, <2>4, ReadTwo
  <2>6. Read(Thousands(n), Sum(a, 0), Sum(a, n))
    BY <1>3, <2>1, <2>2, <2>5
  <2> QED
    BY <2>6, Zenon
<1>6. CASE ~(n < 1000)
  <2>1. Thousands(n) = (Hundreds(q) \o <<"thousand">>) \o Hundreds(r)
    BY <1>1, <1>6 DEF Thousands
  <2>2. Read(Hundreds(q) \o <<"thousand">>, s, u)
    BY <1>1, <1>2, <1>3, ThousandsPart
  <2>3. Read((Hundreds(q) \o <<"thousand">>) \o Hundreds(r), s, w)
    BY <1>4, <2>2, ReadTwo
  <2>4. Read(Thousands(n), Sum(a, 0), Sum(b, r))
    BY <1>3, <2>1, <2>3
  <2>5. b + r = a + n
    BY <1>2
  <2> QED
    BY <2>4, <2>5, Zenon
<1> QED
  BY <1>5, <1>6

(* As many as the code says in words: one digit of millions.               *)
LEMMA MillionsRead ==
  ASSUME NEW n \in Nat, n <= MaxSpoken
  PROVE  \E b, p \in Nat : b + p = n /\ Read(Millions(n), Sum(0, 0), Sum(b, p))
<1>1. PICK q \in Nat, r \in Nat :
        q = n \div 1000000 /\ r = n % 1000000 /\ n = 1000000 * q + r /\ BelowMillion(r)
  BY SMT DEF BelowMillion
<1>2. q \in 0 .. 9
  BY <1>1, SMT DEF MaxSpoken
<1> DEFINE head == IF n < 1000000 THEN <<>> ELSE Ones(n \div 1000000) \o <<"million">>
<1>3. /\ n < 1000000 => head = <<>>
      /\ ~(n < 1000000) => head = Ones(q) \o <<"million">>
      /\ Millions(n) = head \o Thousands(r)
  BY <1>1, SMT DEF Millions
<1> HIDE DEF head
<1>4. PICK a \in Nat : a = 1000000 * q /\ a + r = n
  BY <1>1, SMT
<1>5. Read(head, Sum(0, 0), Sum(a, 0))
  <2>1. CASE n < 1000000
    <3>1. head = <<>> /\ a = 0
      BY <1>1, <1>3, <1>4, <2>1, SMT
    <3>2. Sum(0, 0) \in Sums
      BY SumInSums
    <3> QED
      BY <3>1, <3>2, ReadNone, SMT
  <2>2. CASE ~(n < 1000000)
    <3>1. head = Ones(q) \o <<"million">>
      BY <1>1, <1>3, <2>2, SMT
    <3>2. Read(Ones(q), Sum(0, 0), Sum(0, q))
      <4>1. q \in 0 .. 19 /\ 0 + q = q
        BY <1>2
      <4>2. Read(Ones(q), Sum(0, 0), Sum(0, 0 + q))
        BY <4>1, OnesRead
      <4> QED
        BY <4>1, <4>2
    <3>3. Read(<<"million">>, Sum(0, q), Sum(a, 0))
      <4>1. "million" \in NumberWords
        BY DEF NumberWords
      <4>2. Plus(Sum(0, q), "million") = Sum(a, 0)
        <5>1. Plus(Sum(0, q), "million") = Sum(0 + q * 1000000, 0)
          BY PlusMillion, SMT
        <5>2. 0 + q * 1000000 = a
          BY <1>4, SMT
        <5> QED
          BY <5>1, <5>2, SMT
      <4>3. Sum(0, q) \in Sums
        BY SumInSums
      <4> QED
        BY <4>1, <4>2, <4>3, ReadOne
    <3> QED
      BY <3>1, <3>2, <3>3, ReadBoth
  <2> QED
    BY <2>1, <2>2, SMT
<1>6. PICK b \in Nat, p \in Nat : b + p = a + r /\ Read(Thousands(r), Sum(a, 0), Sum(b, p))
  BY <1>1, ThousandsRead, SMT
<1>7. Millions(n) = head \o Thousands(r)
  BY <1>3, SMT
<1>8. Read(Millions(n), Sum(0, 0), Sum(b, p))
  BY <1>5, <1>6, <1>7, ReadBoth
<1> QED
  BY <1>4, <1>6, <1>8, SMT

(* A number that is said in words is said with its value, in one word at   *)
(* least.                                                                  *)
THEOREM NumberReadBack ==
  ASSUME NEW n \in Nat, n <= MaxSpoken
  PROVE  /\ int_to_words(n) \in Seq(NumberWords) /\ int_to_words(n) # <<>>
         /\ ReadBack(int_to_words(n)) = n
<1>1. \E b, p \in Nat : b + p = n /\ Read(int_to_words(n), Sum(0, 0), Sum(b, p))
  <2>1. CASE n = 0
    <3>1. int_to_words(n) = <<"zero">>
      BY <2>1 DEF int_to_words
    <3>2. "zero" \in NumberWords
      BY DEF NumberWords
    <3>3. Plus(Sum(0, 0), "zero") = Sum(0, 0)
      BY PlusZero
    <3>4. Read(<<"zero">>, Sum(0, 0), Sum(0, 0))
      <4>1. Sum(0, 0) \in Sums
        BY SumInSums
      <4> QED
        BY <3>2, <3>3, <4>1, ReadOne
    <3>5. 0 + 0 = n
      BY <2>1
    <3> QED
      BY <3>1, <3>4, <3>5
  <2>2. CASE n # 0
    <3>1. int_to_words(n) = Millions(n)
      BY <2>2 DEF int_to_words
    <3> QED
      BY <3>1, MillionsRead
  <2> QED
    BY <2>1, <2>2
<1>2. PICK b \in Nat, p \in Nat : b + p = n /\ Read(int_to_words(n), Sum(0, 0), Sum(b, p))
  BY <1>1
<1>3. Summed([all |-> 0, part |-> 0], int_to_words(n)) = [all |-> b, part |-> p]
  BY <1>2 DEF Read, Sum
<1>4. ReadBack(int_to_words(n)) = n
  BY <1>2, <1>3 DEF ReadBack
<1>5. int_to_words(n) # <<>>
  <2>1. ASSUME int_to_words(n) = <<>> PROVE FALSE
    <3>1. Summed([all |-> 0, part |-> 0], <<>>) = [all |-> 0, part |-> 0]
      BY SummedNone DEF Sums
    <3>2. b = 0 /\ p = 0
      BY <1>3, <2>1, <3>1
    <3>3. n = 0
      BY <1>2, <3>2
    <3> QED
      BY <2>1, <3>3 DEF int_to_words
  <2> QED
    BY <2>1
<1> QED
  BY <1>2, <1>4, <1>5 DEF Read

(* What is flattened is made of what the parts are made of.                *)
LEMMA FlattenTyped ==
  ASSUME NEW S, NEW ss \in Seq(Seq(S))
  PROVE  FlattenSeq(ss) \in Seq(S)
<1>1. \A k \in 1 .. Len(ss) : ss[k] \in Seq(S)
  OBVIOUS
<1>2. S \in SUBSET S
  OBVIOUS
<1> QED
  BY <1>1, <1>2, FlattenElements

(* One more part stands behind all the others.                             *)
LEMMA FlattenAppended ==
  ASSUME NEW S, NEW ss \in Seq(Seq(S)), NEW s \in Seq(S)
  PROVE  /\ OneBehindOther(FlattenSeq(Append(ss, s)), FlattenSeq(ss), s)
         /\ FlattenSeq(ss) \in Seq(S)
<1>1. <<s>> \in Seq(Seq(S))
  OBVIOUS
<1>2. Append(ss, s) = ss \o <<s>>
  <2> DEFINE D == Seq(S)
  <2>1. ss \in Seq(D) /\ s \in D
    OBVIOUS
  <2> HIDE DEF D
  <2> QED
    BY <2>1, AppendIsConcat
<1>3. FlattenSeq(ss \o <<s>>) = FlattenSeq(ss) \o FlattenSeq(<<s>>)
  BY <1>1, FlattenConcat
<1>4. FlattenSeq(<<s>>) = s
  BY FlattenOne
<1> QED
  BY <1>2, <1>3, <1>4, FlattenTyped DEF OneBehindOther
Chain(S, x, y, z, u, v, w) ==
  /\ x \in Seq(S) /\ y \in Seq(S) /\ z \in Seq(S)
  /\ OneBehindOther(w, x, y) /\ OneBehindOther(u, y, z) /\ OneBehindOther(v, x, u)

(* Three sequences in a row, put together from either end.                 *)
LEMMA BehindAssociates ==
  ASSUME NEW S, NEW x, NEW y, NEW z, NEW u, NEW v, NEW w, Chain(S, x, y, z, u, v, w)
  PROVE  OneBehindOther(v, w, z)
<1>1. x \in Seq(S) /\ y \in Seq(S) /\ z \in Seq(S)
  BY DEF Chain
<1>2. (x \o y) \o z = x \o (y \o z)
  BY <1>1, ConcatAssociative
<1> QED
  BY <1>2 DEF OneBehindOther, Chain

(* One more element is a sequence of one behind the others.                *)
LEMMA BehindAppends ==
  ASSUME NEW S, NEW s \in Seq(S), NEW e \in S
  PROVE  /\ OneBehindOther(Append(s, e), s, <<e>>)
         /\ Append(s, e) \in Seq(S) /\ Append(s, e) # <<>>
BY AppendIsConcat, AppendProperties DEF OneBehindOther

(* The groups of an acronym are its letters, every one of them in order.   *)
LEMMA GroupsWhole ==
  ASSUME NEW S, NEW text \in Seq(S), NEW split
  PROVE  /\ Groups(text, split) \in Seq(Seq(S))
         /\ FlattenSeq(Groups(text, split)) = text
<1> DEFINE n == Len(text)
           D == Seq(Seq(S))
           Opens(i) == i = 1 \/ (split /\ islower(text[i - 1]) /\ isupper(text[i]))
           Step(s, i) == IF Opens(i) THEN Append(s, <<text[i]>>)
                         ELSE Append(Front(s), Append(Last(s), text[i]))
           Onward(s, i) == IF s = <<>> /\ i # 1 THEN s ELSE Step(s, i)
           step == [p \in D \X (1 .. n) |-> Onward(p[1], p[2])]
           Rule(f) == f = [k \in 0 .. n |-> IF k = 0 THEN <<>> ELSE Step(f[k - 1], k)]
           T == [k \in 0 .. n |->
                   {s \in D : /\ k > 0 => s # <<>>
                              /\ Len(FlattenSeq(s)) = k
                              /\ \A j \in 1 .. k : FlattenSeq(s)[j] = text[j]}]
<1>1. n \in Nat /\ <<>> \in D
  OBVIOUS
<1>2. \A k \in 1 .. n : text[k] \in S /\ <<text[k]>> \in Seq(S)
  OBVIOUS
<1>3. Opens(1)
  OBVIOUS
<1>4. \A f : (f = CHOOSE q : Rule(q)) => Groups(text, split) = f[n]
  BY Zenon DEF Groups, Walk
<1>5. ASSUME NEW s \in D, NEW k \in 1 .. n, s = <<>> => k = 1
      PROVE  /\ Step(s, k) \in D /\ Step(s, k) # <<>>
             /\ OneBehindOther(FlattenSeq(Step(s, k)), FlattenSeq(s), <<text[k]>>)
             /\ FlattenSeq(s) \in Seq(S)
  <2>1. CASE Opens(k)
    <3>1. Step(s, k) = Append(s, <<text[k]>>)
      BY <2>1
    <3>2. Append(s, <<text[k]>>) \in D /\ Append(s, <<text[k]>>) # <<>>
      <4>1. <<text[k]>> \in Seq(S)
        BY <1>2
      <4> DEFINE R == Seq(S)
      <4>2. s \in Seq(R) /\ <<text[k]>> \in R
        BY <4>1
      <4> HIDE DEF R
      <4>3. Append(s, <<text[k]>>) \in Seq(R) /\ Append(s, <<text[k]>>) # <<>>
        BY <4>2, AppendProperties
      <4> QED
        BY <4>3 DEF R
    <3>3. /\ OneBehindOther(FlattenSeq(Append(s, <<text[k]>>)), FlattenSeq(s), <<text[k]>>)
          /\ FlattenSeq(s) \in Seq(S)
      BY <1>2, FlattenAppended
    <3> QED
      BY <3>1, <3>2, <3>3
  <2>2. CASE ~Opens(k)
    <3>1. s # <<>>
      BY <1>3, <1>5, <2>2
    <3>2. Step(s, k) = Append(Front(s), Append(Last(s), text[k]))
      BY <2>2
    <3>3. PICK front \in D, last \in Seq(S) :
            front = Front(s) /\ last = Last(s) /\ s = Append(front, last)
      <4> DEFINE R == Seq(S)
      <4>1. s \in Seq(R) /\ s # <<>>
        BY <3>1
      <4> HIDE DEF R
      <4>2. Front(s) \in Seq(R) /\ Last(s) \in R /\ s = Append(Front(s), Last(s))
        BY <4>1 DEF Front, Last
      <4> QED
        BY <4>2 DEF R
    <3>4. PICK new \in Seq(S) :
            new = Append(last, text[k]) /\ OneBehindOther(new, last, <<text[k]>>)
      BY <1>2, BehindAppends
    <3>5. PICK whole : whole = Append(front, new) /\ whole \in D /\ whole # <<>>
      <4> DEFINE R == Seq(S)
      <4>1. front \in Seq(R) /\ new \in R
        OBVIOUS
      <4> HIDE DEF R
      <4>2. Append(front, new) \in Seq(R) /\ Append(front, new) # <<>>
        BY <4>1, AppendKept, Zenon
      <4> QED
        BY <4>2 DEF R
    <3>6. /\ OneBehindOther(FlattenSeq(whole), FlattenSeq(front), new)
          /\ FlattenSeq(front) \in Seq(S)
      BY <3>5, FlattenAppended
    <3>7. OneBehindOther(FlattenSeq(s), FlattenSeq(front), last)
      BY <3>3, FlattenAppended
    <3>8. OneBehindOther(FlattenSeq(whole), FlattenSeq(s), <<text[k]>>)
      <4>1. FlattenSeq(front) \in Seq(S) /\ last \in Seq(S) /\ <<text[k]>> \in Seq(S)
        BY <1>2, <3>6
      <4>2. OneBehindOther(FlattenSeq(whole), FlattenSeq(front), new)
        BY <3>6
      <4>3. Chain(S, FlattenSeq(front), last, <<text[k]>>, new, FlattenSeq(whole), FlattenSeq(s))
        BY <3>4, <3>7, <4>1, <4>2 DEF Chain
      <4> QED
        BY <4>3, BehindAssociates
    <3>9. FlattenSeq(s) \in Seq(S)
      BY FlattenTyped
    <3>10. Step(s, k) = whole
      BY <3>2, <3>3, <3>4, <3>5
    <3> QED
      BY <3>5, <3>8, <3>9, <3>10 DEF OneBehindOther
  <2> QED
    BY <2>1, <2>2
<1> HIDE DEF Opens, Step
<1>6. \A s \in D : \A k \in 1 .. n : Onward(s, k) \in D
  BY <1>5
<1>7. ASSUME NEW s, NEW k \in 1 .. n, s \in T[k - 1]
      PROVE  Onward(s, k) = Step(s, k) /\ Step(s, k) \in T[k]
  <2>1. PICK m \in 0 .. n : m = k - 1 /\ k \in 0 .. n /\ k > 0
    BY <1>1
  <2>2. /\ s \in D /\ (m > 0 => s # <<>>)
        /\ Len(FlattenSeq(s)) = m /\ \A j \in 1 .. m : FlattenSeq(s)[j] = text[j]
    BY <1>7, <2>1
  <2>3. s = <<>> => k = 1
    BY <2>1, <2>2
  <2>4. /\ Step(s, k) \in D /\ Step(s, k) # <<>>
        /\ OneBehindOther(FlattenSeq(Step(s, k)), FlattenSeq(s), <<text[k]>>)
        /\ FlattenSeq(s) \in Seq(S)
    BY <1>5, <2>2, <2>3
  <2>5. PICK y \in Seq(S), z \in Seq(S) : y = FlattenSeq(s) /\ z = <<text[k]>>
    BY <1>2, <2>4
  <2>11. PICK x : x = FlattenSeq(Step(s, k))
    OBVIOUS
  <2>6. x = y \o z
    BY <2>4, <2>5, <2>11 DEF OneBehindOther
  <2>7. Len(y) = m /\ Len(z) = 1 /\ z[1] = text[k] /\ \A j \in 1 .. m : y[j] = text[j]
    BY <2>2, <2>5
  <2>8. Len(x) = k /\ \A j \in 1 .. k : x[j] = text[j]
    <3>1. /\ Len(x) = Len(y) + Len(z)
          /\ \A i \in 1 .. Len(y) + Len(z) : x[i] = IF i <= Len(y) THEN y[i] ELSE z[i - Len(y)]
      BY <2>6, ConcatProperties
    <3>2. ASSUME NEW j \in 1 .. k PROVE x[j] = text[j]
      <4>1. CASE j = k
        BY <2>1, <2>7, <3>1, <4>1
      <4>2. CASE j # k
        <5>1. j \in 1 .. m /\ j <= m /\ j \in 1 .. m + 1
          BY <2>1, <4>2
        <5> QED
          BY <2>7, <3>1, <5>1
      <4> QED
        BY <4>1, <4>2
    <3> QED
      BY <2>1, <2>7, <3>1, <3>2
  <2>9. Step(s, k) \in T[k]
    BY <2>1, <2>4, <2>11, <2>8
  <2> QED
    BY <2>3, <2>9
<1>8. <<>> \in T[0]
  <2>1. 0 \in 0 .. n /\ FlattenSeq(<<>>) = <<>>
    BY <1>1, FlattenNothing
  <2> QED
    BY <1>1, <2>1
<1>9. \A s \in T[n] : s \in D /\ FlattenSeq(s) = text
  <2>1. ASSUME NEW s \in T[n] PROVE s \in D /\ FlattenSeq(s) = text
    <3>1. /\ s \in D /\ Len(FlattenSeq(s)) = n
          /\ \A j \in 1 .. n : FlattenSeq(s)[j] = text[j]
      BY <1>1, <2>1
    <3>2. PICK x \in Seq(S) : x = FlattenSeq(s)
      BY <3>1, FlattenTyped
    <3>3. Len(x) = Len(text) /\ \A j \in 1 .. Len(text) : x[j] = text[j]
      BY <3>1, <3>2
    <3>4. x = text
      BY <3>3, SeqEqual
    <3> QED
      BY <3>1, <3>2, <3>4
  <2> QED
    BY <2>1
<1>10. D = Seq(Seq(S))
  OBVIOUS
<1> HIDE DEF n, D, Onward, T
<1>11. PICK h : RunsBy(h, n, D, <<>>, step)
  BY <1>1, <1>6, StepsRun
<1>12. \A k \in 1 .. n : step[<<h[k - 1], k>>] = Onward(h[k - 1], k)
  BY <1>11 DEF RunsBy
<1> HIDE DEF step
<1>13. \A k \in 0 .. n : h[k] \in T[k]
  <2>1. h[0] \in T[0]
    BY <1>8, <1>11 DEF RunsBy
  <2>2. \A k \in 1 .. n : h[k - 1] \in T[k - 1] => h[k] \in T[k]
    <3>1. ASSUME NEW k \in 1 .. n, h[k - 1] \in T[k - 1] PROVE h[k] \in T[k]
      <4>1. h[k] = Onward(h[k - 1], k)
        BY <1>11, <1>12 DEF RunsBy
      <4>2. Onward(h[k - 1], k) = Step(h[k - 1], k) /\ Step(h[k - 1], k) \in T[k]
        BY <1>7, <3>1
      <4> QED
        BY <4>1, <4>2
    <3> QED
      BY <3>1
  <2> QED
    BY <1>1, <2>1, <2>2, Climbs
<1>14. \A k \in 1 .. n : Onward(h[k - 1], k) = Step(h[k - 1], k)
  BY <1>7, <1>11, <1>13 DEF RunsBy
<1>15. Rule(h)
  BY <1>11, <1>12, <1>14, Zenon DEF RunsBy
<1>16. PICK f : Rule(f) /\ f = CHOOSE q : Rule(q)
  BY <1>15
<1>17. \A k \in 0 .. n : f[k] \in T[k]
  <2>1. 0 \in 0 .. n /\ \A k \in 1 .. n : k \in 0 .. n /\ k # 0
    BY <1>1
  <2>2. f[0] = <<>> /\ \A k \in 1 .. n : f[k] = Step(f[k - 1], k)
    BY <1>16, <2>1
  <2>3. f[0] \in T[0]
    BY <1>8, <2>2
  <2>4. \A k \in 1 .. n : f[k - 1] \in T[k - 1] => f[k] \in T[k]
    BY <1>7, <2>2
  <2> QED
    BY <1>1, <2>3, <2>4, Climbs
<1>18. f[n] \in T[n]
  BY <1>1, <1>17
<1> QED
  BY <1>4, <1>9, <1>10, <1>16, <1>18

(* The text stands, and with it what the handlers ask of it.               *)
LEMMA TextStands ==
  ASSUME ts' = ts, onset' = onset
  PROVE  /\ WordTokens' = WordTokens /\ is_isolated_word' = is_isolated_word
         /\ \A i : Text(i)' = Text(i) /\ Lower(i)' = Lower(i)
         /\ \A i : find_next_non_empty_word(i)' = find_next_non_empty_word(i)
         /\ \A i : find_next_word_stop_on_punct(i)' = find_next_word_stop_on_punct(i)
<1>1. WordTokens' = WordTokens
  BY DEF WordTokens
<1>2. \A i : Text(i)' = Text(i)
  BY DEF Text
<1>3. \A i : Lower(i)' = Lower(i)
  BY <1>2 DEF Lower
<1>4. is_isolated_word' = is_isolated_word
  BY <1>1 DEF is_isolated_word
<1>5. \A i : find_next_non_empty_word(i)' = find_next_non_empty_word(i)
  BY <1>1 DEF find_next_non_empty_word
<1>6. \A i : find_next_word_stop_on_punct(i)' = find_next_word_stop_on_punct(i)
  BY <1>1 DEF find_next_word_stop_on_punct
<1> QED
  BY <1>1, <1>2, <1>3, <1>4, <1>5, <1>6

(* So does the name of a pair of words,                                    *)
LEMMA BigramStands ==
  ASSUME ts' = ts
  PROVE  \A i, j : build_lower_bigram(i, j)' = build_lower_bigram(i, j)
BY DEF build_lower_bigram, Lower, Text

(* the way a word is spoken, its groups of letters,                        *)
LEMMA WayStands ==
  ASSUME ts' = ts, onset' = onset, NEW i
  PROVE  Way(i)' = Way(i) /\ acronym_groups(i)' = acronym_groups(i)
<1>1. Text(i)' = Text(i)
  BY TextStands
<1>2. find_next_non_empty_word(i + 1)' = find_next_non_empty_word(i + 1)
  BY DEF find_next_non_empty_word, WordTokens
<1>3. build_lower_bigram(i, find_next_non_empty_word(i + 1))'
        = build_lower_bigram(i, find_next_non_empty_word(i + 1))
  BY <1>2 DEF build_lower_bigram, Lower, Text
<1>4. acronym_groups(i)' = acronym_groups(i)
  BY <1>1 DEF acronym_groups
<1>5. Way(i)' = Way(i)
  BY <1>1, <1>2, <1>3 DEF Way
<1> QED
  BY <1>4, <1>5

(* and whether the first word of a pair has a fixed form.                  *)
LEMMA FormedStands ==
  ASSUME ts' = ts, onset' = onset, NEW i, NEW j
  PROVE  Formed(j, i)' = Formed(j, i)
BY DEF Formed, word_is_vowel_initial_non_yod, find_next_word_stop_on_punct,
       previous_word_is_pronoun, Starts, Lower, Text, WordTokens

Parted == Seq(STRING) \cup NumberWords
Items == [token : Nat, part : Parted]
Only(i, item) == IF item.token = i THEN <<item.part>> ELSE <<>>

JoinAt(c, a, b) ==
  /\ Len(c) = Len(a) + Len(b) /\ DOMAIN c = 1 .. Len(a) + Len(b)
  /\ \A k \in 1 .. Len(a) + Len(b) : c[k] = IF k <= Len(a) THEN a[k] ELSE b[k - Len(a)]

(* What stands where in two sequences, one behind the other.               *)
LEMMA JoinedAt ==
  ASSUME NEW S, NEW a \in Seq(S), NEW b \in Seq(S)
  PROVE  a \o b \in Seq(S) /\ JoinAt(a \o b, a, b)
<1>1. /\ a \o b \in Seq(S) /\ Len(a \o b) = Len(a) + Len(b)
      /\ \A k \in 1 .. Len(a) + Len(b) :
           (a \o b)[k] = IF k <= Len(a) THEN a[k] ELSE b[k - Len(a)]
  BY ConcatProperties
<1>2. PICK c \in Seq(S) : c = a \o b
  BY <1>1
<1>3. /\ Len(c) = Len(a) + Len(b)
      /\ \A k \in 1 .. Len(a) + Len(b) : c[k] = IF k <= Len(a) THEN a[k] ELSE b[k - Len(a)]
  BY <1>1, <1>2
<1>4. DOMAIN c = 1 .. Len(a) + Len(b)
  BY <1>3
<1>5. JoinAt(c, a, b)
  BY <1>3, <1>4 DEF JoinAt
<1> QED
  BY <1>2, <1>5

(* The parts of one token are those in what was spoken first, and then     *)
(* those in what was spoken then.                                          *)
LEMMA PartsJoined ==
  ASSUME NEW a \in Seq(Items), NEW b \in Seq(Items), NEW i
  PROVE  /\ PartsIn(a \o b, i) = PartsIn(a, i) \o PartsIn(b, i)
         /\ PartsIn(a, i) \in Seq(Parted) /\ PartsIn(b, i) \in Seq(Parted)
<1> DEFINE Of(said) == [k \in DOMAIN said |-> Only(i, said[k])]
           D == Seq(Parted)
<1>1. \A said : PartsIn(said, i) = FlattenSeq(Of(said))
  BY Zenon DEF PartsIn, Only
<1>2. \A x \in Items : Only(i, x) \in D
  <2>1. \A x \in Items : x.part \in Parted
    BY DEF Items
  <2> HIDE DEF Items
  <2>2. \A p \in Parted : <<p>> \in Seq(Parted)
    <3> HIDE DEF Parted
    <3> QED
      OBVIOUS
  <2> QED
    BY <2>1, <2>2 DEF Only
<1> HIDE DEF D
<1>3. ASSUME NEW said \in Seq(Items)
      PROVE  Of(said) \in Seq(D) /\ DOMAIN Of(said) = 1 .. Len(said) /\ Len(Of(said)) = Len(said)
  <2>1. /\ Len(said) \in Nat /\ DOMAIN said = 1 .. Len(said)
        /\ \A k \in 1 .. Len(said) : said[k] \in Items
    <3> HIDE DEF Items
    <3> QED
      OBVIOUS
  <2>2. Of(said) \in [1 .. Len(said) -> D]
    BY <1>2, <2>1, Zenon
  <2> QED
    BY <2>1, <2>2
<1>4. Of(a \o b) = Of(a) \o Of(b)
  <2>1. PICK c \in Seq(Items) :
          c = a \o b /\ JoinAt(c, a, b)
    <3> HIDE DEF Items
    <3> QED
      BY JoinedAt
  <2>2. PICK d \in Seq(D) :
          d = Of(a) \o Of(b) /\ JoinAt(d, Of(a), Of(b))
    <3>1. Of(a) \in Seq(D) /\ Of(b) \in Seq(D) /\ Len(Of(a)) = Len(a) /\ Len(Of(b)) = Len(b)
      BY <1>3
    <3> HIDE DEF Of
    <3> QED
      BY <3>1, JoinedAt
  <2>3. Len(a) \in Nat /\ Len(b) \in Nat /\ DOMAIN a = 1 .. Len(a) /\ DOMAIN b = 1 .. Len(b)
    <3> HIDE DEF Items
    <3> QED
      OBVIOUS
  <2> DEFINE n == Len(a) + Len(b)
  <2>7. /\ Len(c) = n /\ DOMAIN c = 1 .. n
        /\ \A k \in 1 .. n : c[k] = IF k <= Len(a) THEN a[k] ELSE b[k - Len(a)]
    BY <2>1 DEF JoinAt
  <2>8. /\ Len(d) = n /\ DOMAIN d = 1 .. n
        /\ \A k \in 1 .. n : d[k] = IF k <= Len(a) THEN Of(a)[k] ELSE Of(b)[k - Len(a)]
    <3>1. Len(Of(a)) = Len(a) /\ Len(Of(b)) = Len(b)
      BY <1>3
    <3> HIDE DEF Of
    <3> QED
      BY <2>2, <3>1 DEF JoinAt
  <2>4. \A k \in 1 .. Len(c) : Of(c)[k] = d[k]
    <3>1. SUFFICES ASSUME NEW k \in 1 .. n PROVE Of(c)[k] = d[k]
      BY <2>7
    <3>2. Of(c)[k] = Only(i, c[k])
      <4>1. k \in DOMAIN c
        BY <2>7
      <4> QED
        BY <4>1, Zenon
    <3>3. CASE k <= Len(a)
      <4>1. k \in DOMAIN a
        BY <2>3, <3>3
      <4>2. Of(a)[k] = Only(i, a[k])
        BY <4>1, Zenon
      <4>3. c[k] = a[k] /\ d[k] = Of(a)[k]
        <5> HIDE DEF Of
        <5> QED
          BY <2>7, <2>8, <3>3
      <4> QED
        BY <3>2, <4>2, <4>3
    <3>4. CASE ~(k <= Len(a))
      <4>1. k - Len(a) \in DOMAIN b
        BY <2>3, <3>4
      <4>2. Of(b)[k - Len(a)] = Only(i, b[k - Len(a)])
        BY <4>1, Zenon
      <4>3. c[k] = b[k - Len(a)] /\ d[k] = Of(b)[k - Len(a)]
        <5> HIDE DEF Of
        <5> QED
          BY <2>7, <2>8, <3>4
      <4> QED
        BY <3>2, <4>2, <4>3
    <3> QED
      BY <3>3, <3>4
  <2>5. Of(c) \in Seq(D) /\ Len(Of(c)) = Len(c)
    BY <1>3
  <2>6. Of(c) = d
    <3> HIDE DEF Of, Items
    <3> QED
      BY <2>2, <2>4, <2>5, <2>7, <2>8
  <2> QED
    BY <2>1, <2>2, <2>6
<1>5. Of(a) \in Seq(Seq(Parted)) /\ Of(b) \in Seq(Seq(Parted))
  BY <1>3 DEF D
<1> HIDE DEF Of, Items, Parted
<1>6. FlattenSeq(Of(a) \o Of(b)) = FlattenSeq(Of(a)) \o FlattenSeq(Of(b))
  BY <1>5, FlattenConcat
<1>7. FlattenSeq(Of(a)) \in Seq(Parted) /\ FlattenSeq(Of(b)) \in Seq(Parted)
  BY <1>5, FlattenTyped
<1> QED
  BY <1>1, <1>4, <1>6, <1>7

(* A token that nothing is said of has no parts.                           *)
LEMMA PartsNone ==
  ASSUME NEW said \in Seq(Items), NEW i, \A k \in DOMAIN said : said[k].token # i
  PROVE  PartsIn(said, i) = <<>>
<1> DEFINE of == [k \in DOMAIN said |-> IF said[k].token = i THEN <<said[k].part>> ELSE <<>>]
<1>1. Len(said) \in Nat /\ DOMAIN said = 1 .. Len(said)
  <2> HIDE DEF Items
  <2> QED
    OBVIOUS
<1>2. of = [k \in 1 .. Len(said) |-> <<>>]
  BY <1>1, Zenon
<1>3. FlattenSeq(of) = <<>>
  BY <1>1, <1>2, FlattenEmpties
<1> QED
  BY <1>3, Zenon DEF PartsIn

(* One that all of it is of has all its parts.                             *)
LEMMA PartsAll ==
  ASSUME NEW S, NEW parts \in Seq(S), NEW i
  PROVE  PartsIn([k \in DOMAIN parts |-> [token |-> i, part |-> parts[k]]], i) = parts
<1> DEFINE n == Len(parts)
           said == [k \in DOMAIN parts |-> [token |-> i, part |-> parts[k]]]
           of == [k \in DOMAIN said |-> IF said[k].token = i THEN <<said[k].part>> ELSE <<>>]
<1>1. n \in Nat /\ DOMAIN parts = 1 .. n /\ parts \in [1 .. n -> S]
  OBVIOUS
<1>2. DOMAIN said = 1 .. n
  BY <1>1, Zenon
<1>3. \A k \in 1 .. n : said[k].token = i /\ said[k].part = parts[k]
  <2>1. \A k \in 1 .. n : said[k] = [token |-> i, part |-> parts[k]]
    BY <1>1, Zenon
  <2>2. \A k : [token |-> i, part |-> parts[k]].token = i
             /\ [token |-> i, part |-> parts[k]].part = parts[k]
    OBVIOUS
  <2> HIDE DEF said, n
  <2> QED
    BY <2>1, <2>2, Zenon
<1>4. of = [k \in 1 .. n |-> <<parts[k]>>]
  <2> HIDE DEF said, n
  <2> QED
    BY <1>2, <1>3, Zenon
<1>5. FlattenSeq(of) = parts
  <2> HIDE DEF n, of
  <2> QED
    BY <1>1, <1>4, FlattenSingles
<1> QED
  BY <1>5, Zenon DEF PartsIn

(* What is said in pieces.                                                 *)
SaidOf(o) == FlattenSeq([k \in DOMAIN o |-> o[k].says])
Spoke(o) == Closed(o) /\ \A k \in DOMAIN o : o[k].says \in Seq(Items)

(* What is said in pieces is what the pieces say, in their order.          *)
LEMMA SaidListed ==
  ASSUME NEW o, Spoke(o)
  PROVE  /\ [k \in DOMAIN o |-> o[k].says] \in Seq(Seq(Items))
         /\ Len([k \in DOMAIN o |-> o[k].says]) = Len(o)
         /\ SaidOf(o) \in Seq(Items)
<1> DEFINE heard == [k \in DOMAIN o |-> o[k].says]
           D == Seq(Items)
<1>1. Len(o) \in Nat /\ DOMAIN o = 1 .. Len(o) /\ \A k \in DOMAIN o : o[k].says \in D
  BY Zenon DEF Spoke, Closed
<1> HIDE DEF D
<1>2. heard \in [1 .. Len(o) -> D]
  BY <1>1, Zenon
<1>3. heard \in Seq(D) /\ Len(heard) = Len(o)
  <2> HIDE DEF heard
  <2> QED
    BY <1>1, <1>2
<1>4. heard \in Seq(Seq(Items))
  BY <1>3 DEF D
<1> HIDE DEF heard
<1>5. FlattenSeq(heard) \in Seq(Items)
  BY <1>4, FlattenTyped
<1> QED
  BY <1>3, <1>4, <1>5, Zenon DEF heard, SaidOf

(* What pieces say together is what the first ones say and then the        *)
(* others.                                                                 *)
LEMMA SaidJoined ==
  ASSUME NEW o, NEW q, Spoke(o), Spoke(q)
  PROVE  /\ Spoke(o \o q) /\ JoinAt(o \o q, o, q)
         /\ SaidOf(o \o q) = SaidOf(o) \o SaidOf(q)
         /\ SaidOf(o) \in Seq(Items) /\ SaidOf(q) \in Seq(Items)
<1> DEFINE S == {o[k] : k \in DOMAIN o} \cup {q[k] : k \in DOMAIN q}
           Of(x) == [k \in DOMAIN x |-> x[k].says]
           D == Seq(Items)
<1>1. o \in Seq(S) /\ q \in Seq(S)
  <2>1. PICK A, B : A = {o[k] : k \in DOMAIN o} /\ B = {q[k] : k \in DOMAIN q}
    OBVIOUS
  <2>2. o \in Seq(A) /\ q \in Seq(B)
    BY <2>1, Zenon DEF Spoke, Closed
  <2>3. S = A \cup B
    BY <2>1
  <2> HIDE DEF S
  <2> QED
    BY <2>2, <2>3
<1>2. \A x \in S : x.says \in D
  BY DEF Spoke
<1> HIDE DEF S
<1>3. PICK c \in Seq(S) : c = o \o q /\ JoinAt(c, o, q)
  BY <1>1, JoinedAt
<1>4. Spoke(c)
  <2>1. \A k \in DOMAIN c : c[k] \in S
    OBVIOUS
  <2>2. Closed(c)
    <3>1. Len(c) \in Nat /\ DOMAIN c = 1 .. Len(c)
      OBVIOUS
    <3>2. \A k \in 1 .. Len(c) : c[k] \in {c[j] : j \in DOMAIN c}
      BY <3>1
    <3>3. c \in Seq({c[j] : j \in DOMAIN c})
      <4> DEFINE R == {c[j] : j \in DOMAIN c}
      <4>1. \A k \in 1 .. Len(c) : c[k] \in R
        BY <3>2
      <4>2. c = [k \in 1 .. Len(c) |-> c[k]]
        OBVIOUS
      <4>3. c \in [1 .. Len(c) -> R]
        <5> HIDE DEF R
        <5> QED
          BY <4>1, <4>2
      <4>4. c \in Seq(R)
        <5> HIDE DEF R
        <5> QED
          BY <3>1, <4>3
      <4> QED
        BY <4>4 DEF R
    <3> QED
      BY <3>1, <3>3, Zenon DEF Closed
  <2> QED
    BY <1>2, <2>1, <2>2, Zenon DEF Spoke
<1>5. /\ Len(o) \in Nat /\ DOMAIN o = 1 .. Len(o)
      /\ Len(q) \in Nat /\ DOMAIN q = 1 .. Len(q)
  BY <1>1
<1> HIDE DEF D
<1>6. \A x : Spoke(x) => Of(x) \in Seq(D) /\ Len(Of(x)) = Len(x)
  <2>1. \A x : Spoke(x) => Of(x) \in Seq(Seq(Items)) /\ Len(Of(x)) = Len(x)
    BY SaidListed
  <2> QED
    BY <2>1 DEF D
<1>7. Of(c) = Of(o) \o Of(q)
  <2>1. Of(o) \in Seq(D) /\ Of(q) \in Seq(D) /\ Len(Of(o)) = Len(o) /\ Len(Of(q)) = Len(q)
    BY <1>6
  <2>2. PICK d \in Seq(D) : d = Of(o) \o Of(q) /\ JoinAt(d, Of(o), Of(q))
    <3> HIDE DEF Of
    <3> QED
      BY <2>1, JoinedAt
  <2> DEFINE n == Len(o) + Len(q)
  <2>3. /\ Len(c) = n /\ DOMAIN c = 1 .. n
        /\ \A k \in 1 .. n : c[k] = IF k <= Len(o) THEN o[k] ELSE q[k - Len(o)]
    BY <1>3 DEF JoinAt
  <2>4. /\ Len(d) = n /\ DOMAIN d = 1 .. n
        /\ \A k \in 1 .. n : d[k] = IF k <= Len(o) THEN Of(o)[k] ELSE Of(q)[k - Len(o)]
    <3> HIDE DEF Of
    <3> QED
      BY <2>1, <2>2 DEF JoinAt
  <2>5. ASSUME NEW k \in 1 .. n PROVE Of(c)[k] = d[k]
    <3>1. Of(c)[k] = c[k].says
      BY <2>3, Zenon
    <3>2. CASE k <= Len(o)
      <4>1. k \in DOMAIN o
        BY <1>5, <3>2
      <4>2. Of(o)[k] = o[k].says
        BY <4>1, Zenon
      <4>3. c[k] = o[k] /\ d[k] = Of(o)[k]
        <5> HIDE DEF Of
        <5> QED
          BY <2>3, <2>4, <3>2
      <4> QED
        BY <3>1, <4>2, <4>3
    <3>3. CASE ~(k <= Len(o))
      <4>1. k - Len(o) \in DOMAIN q
        BY <1>5, <3>3
      <4>2. Of(q)[k - Len(o)] = q[k - Len(o)].says
        BY <4>1, Zenon
      <4>3. c[k] = q[k - Len(o)] /\ d[k] = Of(q)[k - Len(o)]
        <5> HIDE DEF Of
        <5> QED
          BY <2>3, <2>4, <3>3
      <4> QED
        BY <3>1, <4>2, <4>3
    <3> QED
      BY <3>2, <3>3
  <2>6. Of(c) \in Seq(D) /\ Len(Of(c)) = Len(c)
    BY <1>4, <1>6
  <2>7. Of(c) = d
    <3> HIDE DEF Of
    <3> QED
      BY <2>3, <2>4, <2>5, <2>6
  <2> QED
    BY <2>2, <2>7
<1>8. Of(o) \in Seq(Seq(Items)) /\ Of(q) \in Seq(Seq(Items))
  BY SaidListed
<1>9. FlattenSeq(Of(c)) = FlattenSeq(Of(o)) \o FlattenSeq(Of(q))
  <2> HIDE DEF Of, Items
  <2> QED
    BY <1>7, <1>8, FlattenConcat
<1>10. SaidOf(c) = SaidOf(o) \o SaidOf(q)
  BY <1>9, Zenon DEF SaidOf
<1>11. SaidOf(o) \in Seq(Items) /\ SaidOf(q) \in Seq(Items)
  BY SaidListed
<1> QED
  BY <1>3, <1>4, <1>10, <1>11

(* A piece alone says what it says.                                        *)
LEMMA SaidByOne ==
  ASSUME NEW p, p.says \in Seq(Items)
  PROVE  Spoke(<<p>>) /\ SaidOf(<<p>>) = p.says
<1>1. Len(<<p>>) = 1 /\ <<p>>[1] = p /\ DOMAIN <<p>> = 1 .. 1
  OBVIOUS
<1>2. <<p>> \in Seq({<<p>>[k] : k \in DOMAIN <<p>>})
  OBVIOUS
<1>3. Closed(<<p>>)
  BY <1>1, <1>2 DEF Closed
<1>4. \A k \in DOMAIN <<p>> : <<p>>[k].says \in Seq(Items)
  BY <1>1
<1>5. [k \in DOMAIN <<p>> |-> <<p>>[k].says] = << p.says >>
  <2> HIDE DEF Items
  <2> QED
    OBVIOUS
<1>6. FlattenSeq(<< p.says >>) = p.says
  BY FlattenOne
<1> QED
  BY <1>3, <1>4, <1>5, <1>6 DEF Spoke, SaidOf

(* Pieces that say one thing each.                                         *)
LEMMA SaidBySingles ==
  ASSUME NEW o, NEW n \in Nat, NEW e \in [1 .. n -> Items], Len(o) = n, Closed(o),
         \A k \in 1 .. n : o[k].says = <<e[k]>>
  PROVE  Spoke(o) /\ SaidOf(o) = e /\ e \in Seq(Items)
<1>1. DOMAIN o = 1 .. n
  BY DEF Closed
<1>2. \A k \in DOMAIN o : o[k].says \in Seq(Items)
  <2>1. \A x \in Items : <<x>> \in Seq(Items)
    <3> HIDE DEF Items
    <3> QED
      OBVIOUS
  <2>2. \A k \in 1 .. n : e[k] \in Items
    OBVIOUS
  <2> HIDE DEF Items
  <2> QED
    BY <1>1, <2>1, <2>2
<1>3. [k \in DOMAIN o |-> o[k].says] = [k \in 1 .. n |-> <<e[k]>>]
  BY <1>1, Zenon
<1>4. FlattenSeq([k \in 1 .. n |-> <<e[k]>>]) = e
  <2> HIDE DEF Items
  <2> QED
    BY FlattenSingles
<1>5. e \in Seq(Items)
  <2> HIDE DEF Items
  <2> QED
    OBVIOUS
<1> QED
  BY <1>2, <1>3, <1>4, <1>5 DEF Spoke, SaidOf

-----------------------------------------------------------------------------
(* No codes, no sound.                                                     *)

LEMMA NothingThere ==
  /\ \A chars : Places(<<>>, chars) = {}
  /\ \A char : ~Has(<<>>, char) /\ First(<<>>, char) = 0
  /\ \A i : At(<<>>, i) = ""
  /\ \A places : Erase(<<>>, places) = <<>>
<1>1. \A chars : Places(<<>>, chars) = {}
  BY DEF Places
<1>2. \A char : ~Has(<<>>, char) /\ First(<<>>, char) = 0
  BY <1>1 DEF Has, First
<1>3. \A i : At(<<>>, i) = ""
  BY DEF At
<1>4. ASSUME NEW places PROVE Erase(<<>>, places) = <<>>
  <2> DEFINE ss == [i \in DOMAIN <<>> |-> IF i \in places THEN <<>> ELSE << (<<>>)[i] >>]
  <2>1. ss = <<>>
    OBVIOUS
  <2> HIDE DEF ss
  <2>2. FlattenSeq(ss) = <<>>
    BY <2>1, FlattenNothing
  <2> QED
    BY <2>2, Zenon DEF Erase, ss
<1> QED
  BY <1>1, <1>2, <1>3, <1>4

(* A function on 0 alone.                                                  *)
LEMMA NoneRuns ==
  ASSUME NEW start
  PROVE  [k \in 0 .. 0 |-> start][0] = start /\ \A k \in 0 .. 0 : k = 0
OBVIOUS

(* No codes have no sound.                                                 *)
LEMMA NothingSounds == phonemes_to_ipa(<<>>) = <<>>
<1> DEFINE n == Len(<<>>)
           start == [at |-> 1, pending |-> <<>>, unstress |-> FALSE, vowel |-> FALSE, out |-> <<>>]
           Sound1(s) ==
             LET code == match_multi_code(<<>>, s.at, s.unstress)
                 lead == IF Nucleus(code) THEN s.pending ELSE <<>>
             IN  [at       |-> Skip(<<>>, s.at + Len(code), VariantDigits),
                  pending  |-> IF Nucleus(code) THEN <<>> ELSE s.pending,
                  unstress |-> FALSE,
                  vowel    |-> VowelCode(code),
                  out      |-> s.out \o lead \o <<code>>]
           Step(s, k) ==
             IF s.at > Len(<<>>) THEN s
             ELSE CASE (<<>>)[s.at] \in {" ", "|", "-"} -> [s EXCEPT !.at = @ + 1]
                    [] (<<>>)[s.at] = ";" ->
                         [s EXCEPT !.at = @ + 1, !.out = IF s.vowel THEN @ ELSE Append(@, <<";">>)]
                    [] (<<>>)[s.at] \in Stresses ->
                         [s EXCEPT !.at = @ + 1, !.pending = << <<(<<>>)[s.at]>> >>,
                                   !.unstress = FALSE]
                    [] (<<>>)[s.at] \in {"%", "="} ->
                         [s EXCEPT !.at = @ + 1, !.pending = <<>>, !.unstress = TRUE]
                    [] OTHER -> Sound1(s)
           Rule(f) == f = [k \in 0 .. n |-> IF k = 0 THEN start ELSE Step(f[k - 1], k)]
           h == [k \in 0 .. 0 |-> start]
<1>1. \A f : (f = CHOOSE q : Rule(q)) => Sounds(<<>>) = f[n].out
  BY Zenon DEF Sounds, Walk
<1>2. n = 0
  OBVIOUS
<1>3. start.out = <<>>
  OBVIOUS
<1> HIDE DEF n, Step, start
<1>4. Rule(h)
  <2>1. \A k \in 0 .. n : k = 0
    BY <1>2
  <2> QED
    BY <1>2, <2>1, Zenon
<1>5. PICK f : Rule(f) /\ f = CHOOSE q : Rule(q)
  BY <1>4
<1>6. f[n] = start
  <2>1. 0 \in 0 .. n
    BY <1>2
  <2> QED
    BY <1>2, <1>5, <2>1, Zenon
<1>7. Sounds(<<>>) = <<>>
  BY <1>1, <1>3, <1>5, <1>6
<1> QED
  BY <1>7, NothingThere DEF phonemes_to_ipa

(* fix_diphthong_stress_position() makes nothing of no codes.              *)
LEMMA NothingSwept == fix_diphthong_stress_position(<<>>) = <<>>
<1> DEFINE n == 3 * Len(<<>>)
           start == At2(<<>>, 1)
           Fixed(s, i) ==
             At2(IF /\ s[i] = "'"
                    /\ <<At(s, i - 1), At(s, i + 1)>> \in Codes({"eI", "aI", "aU", "OI", "oU"})
                 THEN Splice(s, i - 1, 2, <<"'", s[i - 1]>>) ELSE s, i + 1)
           Step(here, k) == IF here.at > Len(here.ph) THEN here ELSE Fixed(here.ph, here.at)
           Rule(f) == f = [k \in 0 .. n |-> IF k = 0 THEN start ELSE Step(f[k - 1], k)]
           h == [k \in 0 .. 0 |-> start]
<1>1. \A f : (f = CHOOSE q : Rule(q)) => fix_diphthong_stress_position(<<>>) = f[n].ph
  BY Zenon DEF fix_diphthong_stress_position, Sweep, Walk
<1>2. n = 0
  OBVIOUS
<1>3. start.ph = <<>>
  BY DEF At2
<1> HIDE DEF n, Step, start
<1>4. Rule(h)
  <2>1. \A k \in 0 .. n : k = 0
    BY <1>2
  <2> QED
    BY <1>2, <2>1, Zenon
<1>5. PICK f : Rule(f) /\ f = CHOOSE q : Rule(q)
  BY <1>4
<1>6. f[n] = start
  <2>1. 0 \in 0 .. n
    BY <1>2
  <2> QED
    BY <1>2, <1>5, <2>1, Zenon
<1> QED
  BY <1>1, <1>3, <1>5, <1>6

(* The handlers of a sentence make no codes of none.                       *)
LEMMA NothingStressed ==
  ASSUME NEW word
  PROVE  apply_step_c(apply_step_b(<<>>, word), word) = <<>>
<1>1. apply_step_b(<<>>, word) = <<>>
  <2>1. Erase(<<>>, Places(<<>>, {"'"})) = <<>>
    BY NothingThere
  <2> QED
    BY <2>1, Zenon DEF apply_step_b
<1>2. \A old, new : ReplaceFirst(<<>>, old, new) = <<>>
  BY NothingThere, Zenon DEF ReplaceFirst
<1>3. insert_secondary_at_strong_vowel(<<>>) = <<>>
  BY NothingThere, Zenon DEF insert_secondary_at_strong_vowel
<1>4. apply_comma_to_primary_promotion(<<>>) = <<>>
  BY NothingThere, Zenon DEF apply_comma_to_primary_promotion
<1>5. apply_step_c(<<>>, word) = <<>>
  BY <1>2, <1>3, <1>4, Zenon DEF apply_step_c
<1> QED
  BY <1>1, <1>5

(* Neither does the next word.                                             *)
LEMMA NothingJoined ==
  apply_cross_word_schwa_rhotic(apply_inter_word_t_flap(fix_diphthong_stress_position(<<>>))) = <<>>
<1>1. ~Ends(<<>>, <<"t", "#">>)
  BY DEF Ends
<1>2. apply_inter_word_t_flap(<<>>) = <<>>
  BY <1>1, Zenon DEF apply_inter_word_t_flap
<1>3. At(<<>>, Len(<<>>)) # "@"
  BY NothingThere
<1>4. apply_cross_word_schwa_rhotic(<<>>) = <<>>
  BY <1>3, Zenon DEF apply_cross_word_schwa_rhotic
<1> QED
  BY <1>2, <1>4, NothingSwept

(* And none of them speaks what has no sound.                              *)
SoundOf(codes) ==
  apply_cross_word_t_flap(apply_r_linking(apply_pre_vowel_the_fixup(phrase.the,
    maybe_add_default_stress(codes, phonemes_to_ipa(codes)))))

(* No codes at hand: nothing to be spoken, whatever stands around the      *)
(* word.                                                                   *)
LEMMA NothingSpoken == SoundOf(<<>>) = <<>>
<1>1. add_default_stress(<<>>) = <<>>
  <2>1. {i \in DOMAIN <<>> : VowelCode((<<>>)[i])} = {}
    OBVIOUS
  <2> QED
    BY <2>1, Zenon DEF add_default_stress
<1>2. maybe_add_default_stress(<<>>, <<>>) = <<>>
  BY <1>1, Zenon DEF maybe_add_default_stress
<1>3. apply_pre_vowel_the_fixup(phrase.the, <<>>) = <<>>
  BY Zenon DEF apply_pre_vowel_the_fixup
<1>4. apply_r_linking(<<>>) = <<>>
  <2>1. ~ends_in_rhotic_r(<<>>)
    BY Zenon DEF ends_in_rhotic_r
  <2> QED
    BY <2>1, Zenon DEF apply_r_linking
<1>5. apply_cross_word_t_flap(<<>>) = <<>>
  <2>1. ~ends_in_t(<<>>)
    BY Zenon DEF ends_in_t
  <2> QED
    BY <2>1, Zenon DEF apply_cross_word_t_flap
<1> QED
  BY <1>2, <1>3, <1>4, <1>5, NothingSounds, Zenon DEF SoundOf

-----------------------------------------------------------------------------
(* What lies behind.                                                       *)

PhraseWays == {"static phrase", "loaded phrase"}

(* The words of a list of tokens, their texts and the spaces they need.    *)
LEMMA WordsListed ==
  ASSUME ts \in TokenLists
  PROVE  /\ WordTokens \subseteq 1 .. Len(ts) /\ Len(ts) \in Nat /\ DOMAIN ts = 1 .. Len(ts)
         /\ \A i \in WordTokens : /\ i \in Nat /\ i > 0
                                  /\ Text(i) \in Seq(STRING)
                                  /\ ts[i].needs_space = (i > 1)
<1>1. ts \in Seq(TokenSet) /\ Apart(ts)
  BY DEF TokenLists
<1>2. Len(ts) \in Nat /\ DOMAIN ts = 1 .. Len(ts)
  BY <1>1
<1>3. \A i \in DOMAIN ts : ts[i].text \in Seq(STRING)
  <2>1. \A i \in DOMAIN ts : ts[i] \in TokenSet
    <3> HIDE DEF TokenSet
    <3> QED
      BY <1>1
  <2>2. \A x \in TokenSet : x.text \in Seq(STRING)
    BY DEF TokenSet
  <2> QED
    BY <2>1, <2>2
<1> QED
  BY <1>1, <1>2, <1>3 DEF Apart, WordTokens, Text

(* The next word is the first one that is not in front of the place.       *)
LEMMA NextWord ==
  ASSUME ts \in TokenLists, NEW i \in Nat, find_next_non_empty_word(i) # 0
  PROVE  /\ find_next_non_empty_word(i) \in WordTokens
         /\ find_next_non_empty_word(i) >= i
         /\ \A k \in WordTokens : k >= i => find_next_non_empty_word(i) <= k
<1> DEFINE later == {j \in WordTokens : j >= i}
<1>1. later # {} /\ find_next_non_empty_word(i) = Min(later)
  BY DEF find_next_non_empty_word
<1>2. later \subseteq Nat
  BY WordsListed
<1>3. Min(later) \in later /\ \A m \in later : Min(later) <= m
  <2> HIDE DEF later
  <2> QED
    BY <1>1, <1>2, MinFound
<1> QED
  BY <1>1, <1>3

(* A word alone, or a word and the next one.                               *)
Pair(lo, hi) ==
  /\ lo \in WordTokens /\ hi \in WordTokens
  /\ hi = lo \/ (hi = find_next_non_empty_word(lo + 1) /\ hi > lo)

(* No word stands between the two of a pair, nor between a word and        *)
(* itself.                                                                 *)
LEMMA PairNext ==
  ASSUME ts \in TokenLists, NEW lo, NEW hi, Pair(lo, hi)
  PROVE  /\ lo \in Nat \ {0} /\ hi \in Nat \ {0} /\ lo <= hi
         /\ \A k \in WordTokens : k < hi + 1 => k \in Nat /\ (k < lo \/ k = lo \/ k = hi)
<1>1. lo \in Nat \ {0} /\ hi \in Nat \ {0} /\ lo <= hi
  BY WordsListed DEF Pair
<1>2. ASSUME NEW k \in WordTokens, k < hi + 1 PROVE k \in Nat /\ (k < lo \/ k = lo \/ k = hi)
  <2>1. k \in Nat
    BY WordsListed
  <2>2. CASE hi = lo
    BY <1>1, <1>2, <2>1, <2>2
  <2>3. CASE hi = find_next_non_empty_word(lo + 1) /\ hi > lo
    <3>1. k >= lo + 1 => hi <= k
      BY <1>1, <2>3, NextWord
    <3> QED
      BY <1>1, <1>2, <2>1, <3>1
  <2> QED
    BY <2>2, <2>3 DEF Pair
<1> QED
  BY <1>1, <1>2

HeardAs(i, said, silent, takers) ==
  LET parts == PartsIn(said, i)
  IN  IF i \in silent
      THEN ToSet(parts) \subseteq IF Way(i) = "acronym" THEN ToSet(acronym_groups(i)) ELSE {}
      ELSE IF Replaced(i, takers) THEN parts = <<>>
      ELSE IF i \in takers /\ Spoken(Text(i))
      THEN parts # <<>> /\ ReadBack(parts) = Value(Text(i))
      ELSE FlattenSeq(parts) = Text(i)

(* A word was heard as far as what was said of it goes, and of no other.   *)
LEMMA HeardSame ==
  ASSUME NEW i, NEW said, NEW silent, NEW takers, NEW said2, NEW silent2, NEW takers2,
         PartsIn(said, i) = PartsIn(said2, i), i \in silent <=> i \in silent2,
         i \in takers <=> i \in takers2, Replaced(i, takers) <=> Replaced(i, takers2),
         HeardAs(i, said, silent, takers)
  PROVE  HeardAs(i, said2, silent2, takers2)
<1>1. CASE i \in silent
  BY <1>1, Zenon DEF HeardAs
<1>2. CASE i \notin silent /\ Replaced(i, takers)
  BY <1>2, Zenon DEF HeardAs
<1>3. CASE i \notin silent /\ ~Replaced(i, takers) /\ i \in takers /\ Spoken(Text(i))
  BY <1>3, Zenon DEF HeardAs
<1>4. CASE i \notin silent /\ ~Replaced(i, takers) /\ ~(i \in takers /\ Spoken(Text(i)))
  BY <1>4, Zenon DEF HeardAs
<1> QED
  BY <1>1, <1>2, <1>3, <1>4

Orderly(said) == \A k \in 1 .. Len(said) - 1 : said[k].token <= said[k + 1].token

(* Everything in front of token lo had its handler, and was heard.         *)
Past(said, silent, takers, lo) ==
  /\ said \in Seq(Items) /\ Orderly(said)
  /\ \A k \in DOMAIN said : said[k].token < lo
  /\ \A i \in silent : i \in Nat /\ i < lo
  /\ \A j \in takers : /\ j \in Nat /\ j < lo
                       /\ Way(j) \in PhraseWays => find_next_non_empty_word(j + 1) < lo
  /\ \A i \in WordTokens : i < lo => HeardAs(i, said, silent, takers)

(* What a handler speaks of the words it takes.                            *)
Speaks(new, quiet, lo, hi) ==
  /\ new \in Seq(Items) /\ Orderly(new)
  /\ \A k \in DOMAIN new : new[k].token \in {lo, hi}
  /\ quiet \subseteq {lo, hi}
  /\ Way(lo) \in PhraseWays => hi = find_next_non_empty_word(lo + 1)
  /\ HeardAs(lo, new, quiet, {lo}) /\ HeardAs(hi, new, quiet, {lo})

(* What is in front of a place does not stand behind what is at it.        *)
LEMMA BeforeAndBehind ==
  \A x, y, z \in Nat : x < z /\ y >= z => x <= y
OBVIOUS

(* What is said in order, and in order behind that, is said in order.      *)
LEMMA OrderJoined ==
  ASSUME NEW a \in Seq(Items), NEW b \in Seq(Items), NEW lo \in Nat, Orderly(a), Orderly(b),
         \A k \in DOMAIN a : a[k].token < lo, \A k \in DOMAIN b : b[k].token >= lo
  PROVE  Orderly(a \o b)
<1>1. PICK c \in Seq(Items) : c = a \o b /\ JoinAt(c, a, b)
  <2> HIDE DEF Items
  <2> QED
    BY JoinedAt
<1>2. /\ Len(a) \in Nat /\ DOMAIN a = 1 .. Len(a)
      /\ Len(b) \in Nat /\ DOMAIN b = 1 .. Len(b)
  <2> HIDE DEF Items
  <2> QED
    OBVIOUS
<1>3. /\ \A k \in DOMAIN a : a[k].token \in Nat
      /\ \A k \in DOMAIN b : b[k].token \in Nat
  <2>1. \A x \in Items : x.token \in Nat
    BY DEF Items
  <2>2. (\A k \in DOMAIN a : a[k] \in Items) /\ \A k \in DOMAIN b : b[k] \in Items
    <3> HIDE DEF Items
    <3> QED
      BY <1>2
  <2> HIDE DEF Items
  <2> QED
    BY <2>1, <2>2
<1>4. ASSUME NEW k \in 1 .. Len(c) - 1 PROVE c[k].token <= c[k + 1].token
  <2>1. /\ Len(c) = Len(a) + Len(b)
        /\ c[k] = IF k <= Len(a) THEN a[k] ELSE b[k - Len(a)]
        /\ c[k + 1] = IF k + 1 <= Len(a) THEN a[k + 1] ELSE b[k + 1 - Len(a)]
    BY <1>1, <1>2 DEF JoinAt
  <2>2. CASE k + 1 <= Len(a)
    <3>1. k \in 1 .. Len(a) - 1 /\ k <= Len(a)
      BY <1>2, <2>2
    <3> QED
      BY <2>1, <2>2, <3>1 DEF Orderly
  <2>3. CASE k = Len(a)
    <3>1. /\ k \in DOMAIN a /\ 1 \in DOMAIN b
          /\ k + 1 - Len(a) = 1 /\ ~(k + 1 <= Len(a)) /\ k <= Len(a)
      BY <1>2, <2>1, <2>3
    <3>2. a[k].token < lo /\ b[1].token >= lo /\ a[k].token \in Nat /\ b[1].token \in Nat
      BY <1>3, <3>1
    <3>3. c[k] = a[k] /\ c[k + 1] = b[1]
      BY <2>1, <3>1
    <3> QED
      BY <3>2, <3>3, BeforeAndBehind, Zenon
  <2>4. CASE k > Len(a)
    <3>1. /\ k - Len(a) \in 1 .. Len(b) - 1 /\ ~(k + 1 <= Len(a)) /\ ~(k <= Len(a))
          /\ k + 1 - Len(a) = (k - Len(a)) + 1
      BY <1>2, <2>1, <2>4
    <3>2. b[k - Len(a)].token <= b[(k - Len(a)) + 1].token
      BY <3>1, Zenon DEF Orderly
    <3>3. c[k] = b[k - Len(a)] /\ c[k + 1] = b[(k - Len(a)) + 1]
      <4> HIDE DEF Items
      <4> QED
        BY <2>1, <3>1
    <3> QED
      BY <3>2, <3>3, Zenon
  <2>5. k + 1 <= Len(a) \/ k = Len(a) \/ k > Len(a)
    <3>1. k \in 1 .. (Len(a) + Len(b)) - 1
      BY <1>1 DEF JoinAt
    <3>2. Len(a) \in Int /\ k \in Int
      BY <1>2, <3>1
    <3>3. \A x, y \in Int : x + 1 <= y \/ x = y \/ x > y
      OBVIOUS
    <3> QED
      BY <3>2, <3>3, Zenon
  <2> QED
    BY <2>2, <2>3, <2>4, <2>5, Zenon
<1> QED
  BY <1>1, <1>4 DEF Orderly

(* When a handler is done with its words, they are behind too.             *)
LEMMA Forward ==
  ASSUME ts \in TokenLists, NEW lo, NEW hi, Pair(lo, hi),
         NEW said, NEW silent, NEW takers, Past(said, silent, takers, lo),
         NEW new, NEW quiet, Speaks(new, quiet, lo, hi)
  PROVE  Past(said \o new, silent \cup quiet, takers \cup {lo}, hi + 1)
<1>1. /\ lo \in Nat \ {0} /\ hi \in Nat \ {0} /\ lo <= hi
      /\ \A k \in WordTokens : k < hi + 1 => k \in Nat /\ (k < lo \/ k = lo \/ k = hi)
  BY PairNext
<1>2. said \in Seq(Items) /\ new \in Seq(Items)
  BY DEF Past, Speaks
<1>3. PICK all \in Seq(Items) : all = said \o new /\ JoinAt(all, said, new)
  <2> HIDE DEF Items
  <2> QED
    BY <1>2, JoinedAt
<1>4. /\ \A k \in DOMAIN said : said[k].token < lo /\ said[k].token \in Nat
      /\ \A k \in DOMAIN new : new[k].token \in {lo, hi}
  <2>1. \A x \in Items : x.token \in Nat
    BY DEF Items
  <2>2. \A k \in DOMAIN said : said[k] \in Items
    <3> HIDE DEF Items
    <3> QED
      BY <1>2
  <2> QED
    BY <2>1, <2>2 DEF Past, Speaks
<1>5. Orderly(all)
  <2>1. \A k \in DOMAIN new : new[k].token >= lo
    BY <1>1, <1>4
  <2> QED
    BY <1>1, <1>2, <1>3, <1>4, <2>1, OrderJoined DEF Past, Speaks
<1>6. \A k \in DOMAIN all : all[k].token < hi + 1
  <2>1. SUFFICES ASSUME NEW k \in DOMAIN all PROVE all[k].token < hi + 1
    OBVIOUS
  <2>2. /\ Len(said) \in Nat /\ DOMAIN said = 1 .. Len(said)
        /\ Len(new) \in Nat /\ DOMAIN new = 1 .. Len(new)
    <3> HIDE DEF Items
    <3> QED
      BY <1>2
  <2>3. k \in 1 .. Len(said) + Len(new)
        /\ all[k] = IF k <= Len(said) THEN said[k] ELSE new[k - Len(said)]
    BY <1>3, <2>1 DEF JoinAt
  <2>4. CASE k <= Len(said)
    <3>1. k \in DOMAIN said /\ all[k] = said[k]
      BY <2>2, <2>3, <2>4
    <3> QED
      BY <1>1, <1>4, <3>1
  <2>5. CASE ~(k <= Len(said))
    <3>1. k - Len(said) \in DOMAIN new /\ all[k] = new[k - Len(said)]
      BY <2>2, <2>3, <2>5
    <3> QED
      BY <1>1, <1>4, <3>1
  <2> QED
    BY <2>4, <2>5
<1>7. \A i \in silent \cup quiet : i \in Nat /\ i < hi + 1
  <2>1. \A i \in silent : i \in Nat /\ i < lo
    BY DEF Past
  <2>2. \A i \in quiet : i = lo \/ i = hi
    BY DEF Speaks
  <2> QED
    BY <1>1, <2>1, <2>2
<1>8. \A j \in takers \cup {lo} :
        /\ j \in Nat /\ j < hi + 1
        /\ Way(j) \in PhraseWays => find_next_non_empty_word(j + 1) < hi + 1
  <2>1. ASSUME NEW j \in takers
        PROVE  /\ j \in Nat /\ j < hi + 1
               /\ Way(j) \in PhraseWays => find_next_non_empty_word(j + 1) < hi + 1
    <3>1. j \in Nat /\ j < lo /\ (Way(j) \in PhraseWays => find_next_non_empty_word(j + 1) < lo)
      BY DEF Past
    <3>2. j < hi + 1
      BY <1>1, <3>1
    <3>3. ASSUME Way(j) \in PhraseWays PROVE find_next_non_empty_word(j + 1) < hi + 1
      <4>1. find_next_non_empty_word(j + 1) < lo
        BY <3>1, <3>3
      <4>2. find_next_non_empty_word(j + 1) \in Nat
        <5>1. CASE find_next_non_empty_word(j + 1) = 0
          BY <5>1
        <5>2. CASE find_next_non_empty_word(j + 1) # 0
          <6>1. j + 1 \in Nat
            BY <3>1
          <6>2. find_next_non_empty_word(j + 1) \in WordTokens
            BY <5>2, <6>1, NextWord
          <6> QED
            BY <6>2, WordsListed
        <5> QED
          BY <5>1, <5>2
      <4> QED
        BY <1>1, <4>1, <4>2
    <3> QED
      BY <3>1, <3>2, <3>3
  <2>2. /\ lo \in Nat /\ lo < hi + 1
        /\ Way(lo) \in PhraseWays => find_next_non_empty_word(lo + 1) < hi + 1
    BY <1>1 DEF Speaks
  <2> QED
    BY <2>1, <2>2
<1>9. ASSUME NEW i \in WordTokens, i < hi + 1
      PROVE  HeardAs(i, all, silent \cup quiet, takers \cup {lo})
  <2>1. /\ PartsIn(all, i) = PartsIn(said, i) \o PartsIn(new, i)
        /\ PartsIn(said, i) \in Seq(Parted) /\ PartsIn(new, i) \in Seq(Parted)
    BY <1>2, <1>3, PartsJoined
  <2>2. i \in Nat /\ (i < lo \/ i = lo \/ i = hi)
    BY <1>1, <1>9
  <2>3. CASE i < lo
    <3>1. PartsIn(new, i) = <<>>
      <4>1. \A k \in DOMAIN new : new[k].token # i
        BY <1>1, <1>4, <2>2, <2>3
      <4> QED
        BY <1>2, <4>1, PartsNone
    <3>2. PartsIn(all, i) = PartsIn(said, i)
      <4> HIDE DEF Parted
      <4> QED
        BY <2>1, <3>1
    <3>3. i \in silent <=> i \in silent \cup quiet
      BY <1>1, <2>2, <2>3 DEF Speaks
    <3>4. i \in takers <=> i \in takers \cup {lo}
      BY <1>1, <2>2, <2>3
    <3>5. Replaced(i, takers) <=> Replaced(i, takers \cup {lo})
      <4>1. Way(lo) \in PhraseWays => find_next_non_empty_word(lo + 1) # i
        BY <1>1, <2>2, <2>3 DEF Speaks
      <4> QED
        BY <4>1, Zenon DEF Replaced, PhraseWays
    <3>6. HeardAs(i, said, silent, takers)
      BY <2>3 DEF Past
    <3> QED
      BY <3>2, <3>3, <3>4, <3>5, <3>6, HeardSame
  <2>4. CASE ~(i < lo)
    <3>1. PartsIn(said, i) = <<>>
      <4>1. \A k \in DOMAIN said : said[k].token # i
        BY <1>1, <1>4, <2>2, <2>4
      <4> QED
        BY <1>2, <4>1, PartsNone
    <3>2. PartsIn(new, i) = PartsIn(all, i)
      <4> HIDE DEF Parted
      <4> QED
        BY <2>1, <3>1
    <3>3. i \in quiet <=> i \in silent \cup quiet
      BY <1>1, <2>2, <2>4 DEF Past
    <3>4. i \in {lo} <=> i \in takers \cup {lo}
      BY <1>1, <2>2, <2>4 DEF Past
    <3>5. Replaced(i, {lo}) <=> Replaced(i, takers \cup {lo})
      <4>1. \A j \in takers : Way(j) \in PhraseWays => find_next_non_empty_word(j + 1) # i
        BY <1>1, <2>2, <2>4 DEF Past
      <4> QED
        BY <4>1, Zenon DEF Replaced, PhraseWays
    <3>6. HeardAs(i, new, quiet, {lo})
      BY <2>2, <2>4 DEF Speaks
    <3> QED
      BY <3>2, <3>3, <3>4, <3>5, <3>6, HeardSame
  <2> QED
    BY <2>3, <2>4
<1> QED
  BY <1>3, <1>5, <1>6, <1>7, <1>8, <1>9 DEF Past

-----------------------------------------------------------------------------
(* What a handler speaks of its words.                                     *)

LEMMA WayNumber ==
  ASSUME NEW i
  PROVE  Way(i) = "number" <=> Spoken(Text(i))
<1>1. CASE Spoken(Text(i))
  BY <1>1 DEF Way
<1>2. CASE ~Spoken(Text(i))
  <2> DEFINE j == find_next_non_empty_word(i + 1)
             Begins(pairs) == j # 0 /\ build_lower_bigram(i, j) \in DOMAIN pairs
             Spelled == spells_out_letter_by_letter(Text(i)) \/ mixed_case_no_vowel_abbrev(Text(i))
  <2>1. Way(i) = IF Spelled THEN "acronym"
                 ELSE IF Begins(CLITIC_IPA) THEN "clitic"
                 ELSE IF Begins(STATIC_PHRASE_CODES) THEN "static phrase"
                 ELSE IF Begins(phrase_dict) THEN "loaded phrase"
                 ELSE IF Begins(phrase_split_dict) THEN "split phrase"
                 ELSE IF Has(Text(i), ".") THEN "abbreviation" ELSE "word"
    BY <1>2, Zenon DEF Way
  <2> HIDE DEF Begins, Spelled, j
  <2> QED
    BY <1>2, <2>1
<1> QED
  BY <1>1, <1>2

(* Without a next word there is no pair.                                   *)
LEMMA WayPairs ==
  ASSUME NEW i, find_next_non_empty_word(i + 1) = 0
  PROVE  Way(i) \notin PhraseWays \cup {"clitic", "split phrase"}
<1> DEFINE Spelled == spells_out_letter_by_letter(Text(i)) \/ mixed_case_no_vowel_abbrev(Text(i))
<1>1. Way(i) = IF Spoken(Text(i)) THEN "number" ELSE IF Spelled THEN "acronym"
               ELSE IF Has(Text(i), ".") THEN "abbreviation" ELSE "word"
  BY Zenon DEF Way
<1> HIDE DEF Spelled
<1> QED
  BY <1>1 DEF PhraseWays

(* A word of a pair is not the only one.                                   *)
LEMMA PairsAlone ==
  ASSUME ts \in TokenLists, NEW lo, NEW hi, Pair(lo, hi), lo # hi
  PROVE  ~is_isolated_word
<1>1. SUFFICES ASSUME Cardinality(WordTokens) = 1 PROVE FALSE
  BY DEF is_isolated_word
<1>2. IsFiniteSet(WordTokens)
  <2>1. IsFiniteSet(1 .. Len(ts)) /\ WordTokens \subseteq 1 .. Len(ts)
    BY WordsListed, FS_Interval
  <2> QED
    BY <2>1, FS_Subset
<1>3. PICK x : WordTokens = {x}
  BY <1>1, <1>2, FS_Singleton
<1> QED
  BY <1>3 DEF Pair

(* A pair has a form when its first word has one, or else no codes.        *)
LEMMA FormsOfPairs ==
  ASSUME ts \in TokenLists, phrase.matched, Pair(t, ti), t # ti, NEW codes
  PROVE  /\ apply_lemma_override(codes) # "" => Formed(t, ti)
         /\ apply_lemma_override(codes) = "" /\ Formed(t, ti) => codes = <<>>
<1> DEFINE word == Lower(t)
           next == find_next_word_stop_on_punct(ti + 1)
           vowel == word_is_vowel_initial_non_yod(next)
           before == previous_word_is_pronoun(ti)
<1>1. ~is_isolated_word
  BY PairsAlone
<1>2. lemma_override_an # "" /\ lemma_override_to # ""
  BY DEF lemma_override_an, lemma_override_to
<1>3. apply_lemma_override(codes) =
        CASE word = Chars("the") /\ codes # <<>> /\ vowel -> "%DI"
          [] word = Chars("a")   -> "a#"
          [] word = Chars("an") -> lemma_override_an
          [] word = Chars("to")  -> lemma_override_to
          [] word = Chars("use") /\ before -> "ju:z"
          [] OTHER -> ""
  BY <1>1 DEF apply_lemma_override
<1>4. Formed(t, ti) <=> \/ word \in {Chars("a"), Chars("an"), Chars("to")}
                        \/ word = Chars("the") /\ vowel
                        \/ word = Chars("use") /\ before
  BY DEF Formed, Codes
<1> HIDE DEF word, vowel, before
<1> QED
  BY <1>2, <1>3, <1>4

(* The parts of a word, in one thing that was said.                        *)
LEMMA PartsOfOne ==
  ASSUME NEW x, NEW i
  PROVE  PartsIn(<<x>>, i) = IF x.token = i THEN <<x.part>> ELSE <<>>
<1>1. [k \in DOMAIN <<x>> |-> IF <<x>>[k].token = i THEN << <<x>>[k].part >> ELSE <<>>]
        = << IF x.token = i THEN <<x.part>> ELSE <<>> >>
  OBVIOUS
<1> QED
  BY <1>1, FlattenOne DEF PartsIn

(* A word that is said whole is a thing that can be said.                  *)
LEMMA WholeItem ==
  ASSUME ts \in TokenLists, NEW i \in WordTokens
  PROVE  /\ Whole(i) \in Items /\ Whole(i).token = i /\ Whole(i).part = Text(i)
         /\ <<Whole(i)>> \in Seq(Items)
<1>1. i \in Nat /\ Text(i) \in Seq(STRING)
  BY WordsListed
<1>2. Text(i) \in Parted
  BY <1>1 DEF Parted
<1>3. Whole(i) \in Items
  BY <1>1, <1>2 DEF Whole, Items
<1>4. \A x \in Items : <<x>> \in Seq(Items)
  <2> HIDE DEF Items
  <2> QED
    OBVIOUS
<1> QED
  BY <1>3, <1>4 DEF Whole

(* The parts of one word.                                                  *)
LEMMA SpeaksParts ==
  ASSUME ts \in TokenLists, NEW lo \in WordTokens, Way(lo) \notin PhraseWays,
         NEW parts \in Seq(Parted), NEW quiet, quiet \subseteq {lo},
         IF lo \in quiet
         THEN ToSet(parts) \subseteq IF Way(lo) = "acronym" THEN ToSet(acronym_groups(lo)) ELSE {}
         ELSE IF Spoken(Text(lo)) THEN parts # <<>> /\ ReadBack(parts) = Value(Text(lo))
         ELSE FlattenSeq(parts) = Text(lo),
         NEW new, new = [k \in DOMAIN parts |-> [token |-> lo, part |-> parts[k]]]
  PROVE  new \in Seq(Items) /\ Speaks(new, quiet, lo, lo)
<1>1. lo \in Nat
  BY WordsListed
<1>2. /\ Len(parts) \in Nat /\ DOMAIN parts = 1 .. Len(parts)
      /\ \A k \in DOMAIN parts : parts[k] \in Parted
  <2> HIDE DEF Parted
  <2> QED
    OBVIOUS
<1>3. \A k \in DOMAIN parts : [token |-> lo, part |-> parts[k]] \in Items
  BY <1>1, <1>2 DEF Items
<1>4. /\ DOMAIN new = 1 .. Len(parts)
      /\ \A k \in 1 .. Len(parts) : new[k] = [token |-> lo, part |-> parts[k]]
  BY <1>2, Zenon
<1>5. new \in Seq(Items)
  <2>1. new \in [1 .. Len(parts) -> Items]
    BY <1>2, <1>3, Zenon
  <2> HIDE DEF Items
  <2> QED
    BY <1>2, <2>1
<1>6. \A k \in DOMAIN new : new[k].token = lo
  BY <1>4
<1>7. Orderly(new)
  <2>1. DOMAIN new = 1 .. Len(new)
    <3> HIDE DEF Items
    <3> QED
      BY <1>5
  <2>2. Len(new) = Len(parts)
    <3> HIDE DEF Items
    <3> QED
      BY <1>2, <1>4, <1>5
  <2>3. ASSUME NEW k \in 1 .. Len(new) - 1 PROVE new[k].token <= new[k + 1].token
    <3>1. k \in DOMAIN new /\ k + 1 \in DOMAIN new
      BY <1>2, <2>1, <2>2
    <3> QED
      BY <1>1, <1>6, <3>1
  <2> QED
    BY <2>3 DEF Orderly
<1>8. PartsIn(new, lo) = parts
  BY PartsAll
<1>9. ~Replaced(lo, {lo})
  BY DEF Replaced, PhraseWays
<1>10. HeardAs(lo, new, quiet, {lo})
  <2>1. lo \in {lo}
    OBVIOUS
  <2>2. CASE lo \in quiet
    BY <1>8, <2>2, Zenon DEF HeardAs
  <2>3. CASE lo \notin quiet /\ Spoken(Text(lo))
    BY <1>8, <1>9, <2>1, <2>3, Zenon DEF HeardAs
  <2>4. CASE lo \notin quiet /\ ~Spoken(Text(lo))
    BY <1>8, <1>9, <2>1, <2>4, Zenon DEF HeardAs
  <2> QED
    BY <2>2, <2>3, <2>4
<1> QED
  BY <1>5, <1>6, <1>7, <1>10 DEF Speaks

(* Nothing, one thing, and two things of words in order are in order.      *)
LEMMA OrderlyShort ==
  /\ Orderly(<<>>) /\ \A x : Orderly(<<x>>)
  /\ \A x, y : x.token <= y.token => Orderly(<<x, y>>)
<1>1. Orderly(<<>>) /\ \A x : Orderly(<<x>>)
  BY DEF Orderly
<1>2. ASSUME NEW x, NEW y, x.token <= y.token PROVE Orderly(<<x, y>>)
  <2>1. Len(<<x, y>>) = 2 /\ <<x, y>>[1] = x /\ <<x, y>>[2] = y
    OBVIOUS
  <2>2. \A k \in 1 .. 2 - 1 : k = 1
    OBVIOUS
  <2> QED
    BY <1>2, <2>1, <2>2 DEF Orderly
<1> QED
  BY <1>1, <1>2

(* A word without a sound is heard when nothing is said of it.             *)
LEMMA HeardSilent ==
  ASSUME NEW i, NEW said, NEW silent, NEW takers, i \in silent, PartsIn(said, i) = <<>>
  PROVE  HeardAs(i, said, silent, takers)
<1>1. ToSet(PartsIn(said, i)) = {}
  <2>1. ToSet(<<>>) = {}
    BY DEF ToSet
  <2> QED
    BY <2>1
<1>2. \A S : {} \subseteq S
  OBVIOUS
<1>3. ToSet(PartsIn(said, i)) \subseteq IF Way(i) = "acronym" THEN ToSet(acronym_groups(i)) ELSE {}
  BY <1>1, <1>2
<1> QED
  BY <1>3, Zenon DEF HeardAs

(* Both words of a pair, when no form replaces the second.                 *)
LEMMA SpeaksBoth ==
  ASSUME ts \in TokenLists, NEW lo, NEW hi, Pair(lo, hi), lo # hi, ~Spoken(Text(lo)),
         ~(Way(lo) \in PhraseWays /\ Formed(lo, hi))
  PROVE  <<Whole(lo), Whole(hi)>> \in Seq(Items) /\ Speaks(<<Whole(lo), Whole(hi)>>, {}, lo, hi)
<1> DEFINE new == <<Whole(lo), Whole(hi)>>
<1>1. lo \in WordTokens /\ hi \in WordTokens /\ hi = find_next_non_empty_word(lo + 1) /\ lo < hi
  BY PairNext DEF Pair
<1>2. /\ Whole(lo) \in Items /\ Whole(lo).token = lo /\ Whole(lo).part = Text(lo)
      /\ Whole(hi) \in Items /\ Whole(hi).token = hi /\ Whole(hi).part = Text(hi)
      /\ <<Whole(lo)>> \in Seq(Items) /\ <<Whole(hi)>> \in Seq(Items)
  BY <1>1, WholeItem
<1>3. new \in Seq(Items)
  <2> HIDE DEF Items
  <2> QED
    BY <1>2
<1>4. Orderly(new)
  <2>1. Whole(lo).token <= Whole(hi).token
    BY <1>1, <1>2, PairNext
  <2> QED
    BY <2>1, OrderlyShort
<1>5. \A k \in DOMAIN new : new[k].token \in {lo, hi}
  <2>1. DOMAIN new = {1, 2} /\ new[1] = Whole(lo) /\ new[2] = Whole(hi)
    OBVIOUS
  <2> HIDE DEF new
  <2> QED
    BY <1>2, <2>1
<1>6. PartsIn(new, lo) = <<Text(lo)>> /\ PartsIn(new, hi) = <<Text(hi)>>
  <2>1. new = <<Whole(lo)>> \o <<Whole(hi)>>
    OBVIOUS
  <2>2. \A i : PartsIn(new, i) = PartsIn(<<Whole(lo)>>, i) \o PartsIn(<<Whole(hi)>>, i)
    <3>1. PICK a \in Seq(Items), b \in Seq(Items) : a = <<Whole(lo)>> /\ b = <<Whole(hi)>>
      BY <1>2
    <3>2. \A i : PartsIn(a \o b, i) = PartsIn(a, i) \o PartsIn(b, i)
      BY PartsJoined
    <3>3. new = a \o b
      BY <2>1, <3>1
    <3> HIDE DEF new
    <3> QED
      BY <3>1, <3>2, <3>3
  <2>3. /\ PartsIn(<<Whole(lo)>>, lo) = <<Text(lo)>> /\ PartsIn(<<Whole(lo)>>, hi) = <<>>
        /\ PartsIn(<<Whole(hi)>>, hi) = <<Text(hi)>> /\ PartsIn(<<Whole(hi)>>, lo) = <<>>
    BY <1>1, <1>2, PartsOfOne
  <2>4. \A x : <<x>> \o <<>> = <<x>> /\ <<>> \o <<x>> = <<x>>
    OBVIOUS
  <2> QED
    BY <2>2, <2>3, <2>4
<1>7. ~Replaced(lo, {lo}) /\ ~Replaced(hi, {lo})
  <2>1. ~Replaced(lo, {lo})
    BY <1>1, Zenon DEF Replaced
  <2>2. ~Replaced(hi, {lo})
    BY Zenon DEF Replaced, PhraseWays
  <2> QED
    BY <2>1, <2>2
<1>8. FlattenSeq(<<Text(lo)>>) = Text(lo) /\ FlattenSeq(<<Text(hi)>>) = Text(hi)
  BY FlattenOne
<1>9. HeardAs(lo, new, {}, {lo}) /\ HeardAs(hi, new, {}, {lo})
  <2>1. hi \notin {lo} /\ \A x : x \notin {}
    OBVIOUS
  <2> HIDE DEF new
  <2>2. HeardAs(lo, new, {}, {lo})
    BY <1>6, <1>7, <1>8, <2>1, Zenon DEF HeardAs
  <2>3. HeardAs(hi, new, {}, {lo})
    BY <1>6, <1>7, <1>8, <2>1, Zenon DEF HeardAs
  <2> QED
    BY <2>2, <2>3
<1> QED
  BY <1>1, <1>3, <1>4, <1>5, <1>9 DEF Speaks

(* The first word of a pair alone, with a sound or without, when a form    *)
(* replaces the second.                                                    *)
LEMMA SpeaksFirst ==
  ASSUME ts \in TokenLists, NEW lo, NEW hi, Pair(lo, hi), lo # hi, ~Spoken(Text(lo)),
         Way(lo) \in PhraseWays, Formed(lo, hi)
  PROVE  /\ <<Whole(lo)>> \in Seq(Items) /\ <<>> \in Seq(Items)
         /\ Speaks(<<Whole(lo)>>, {}, lo, hi) /\ Speaks(<<>>, {lo}, lo, hi)
<1>1. lo \in WordTokens /\ hi \in WordTokens /\ hi = find_next_non_empty_word(lo + 1) /\ lo < hi
  BY PairNext DEF Pair
<1>2. /\ Whole(lo).token = lo /\ Whole(lo).part = Text(lo)
      /\ <<Whole(lo)>> \in Seq(Items) /\ <<>> \in Seq(Items)
  BY <1>1, WholeItem
<1>3. Orderly(<<>>) /\ Orderly(<<Whole(lo)>>)
  BY OrderlyShort
<1>4. /\ PartsIn(<<Whole(lo)>>, lo) = <<Text(lo)>> /\ PartsIn(<<Whole(lo)>>, hi) = <<>>
      /\ PartsIn(<<>>, lo) = <<>> /\ PartsIn(<<>>, hi) = <<>>
  <2>1. PartsIn(<<Whole(lo)>>, lo) = <<Text(lo)>> /\ PartsIn(<<Whole(lo)>>, hi) = <<>>
    BY <1>1, <1>2, PartsOfOne
  <2>2. \A k : k \notin DOMAIN <<>>
    OBVIOUS
  <2>3. PartsIn(<<>>, lo) = <<>> /\ PartsIn(<<>>, hi) = <<>>
    BY <1>2, <2>2, PartsNone
  <2> QED
    BY <2>1, <2>3
<1>5. ~Replaced(lo, {lo}) /\ Replaced(hi, {lo})
  <2>1. ~Replaced(lo, {lo})
    BY <1>1, Zenon DEF Replaced
  <2>2. Replaced(hi, {lo})
    BY <1>1, Zenon DEF Replaced, PhraseWays
  <2> QED
    BY <2>1, <2>2
<1>6. FlattenSeq(<<Text(lo)>>) = Text(lo)
  BY FlattenOne
<1>7. hi \notin {lo} /\ (\A x : x \notin {}) /\ lo \in {lo}
  BY <1>1
<1>8. HeardAs(lo, <<Whole(lo)>>, {}, {lo}) /\ HeardAs(hi, <<Whole(lo)>>, {}, {lo})
  BY <1>4, <1>5, <1>6, <1>7, Zenon DEF HeardAs
<1>9. HeardAs(lo, <<>>, {lo}, {lo}) /\ HeardAs(hi, <<>>, {lo}, {lo})
  <2>2. HeardAs(lo, <<>>, {lo}, {lo})
    BY <1>4, <1>7, HeardSilent
  <2>3. HeardAs(hi, <<>>, {lo}, {lo})
    BY <1>4, <1>5, <1>7, Zenon DEF HeardAs
  <2> QED
    BY <2>2, <2>3
<1>10. /\ \A k \in DOMAIN <<Whole(lo)>> : <<Whole(lo)>>[k].token \in {lo, hi}
       /\ \A k \in DOMAIN <<>> : (<<>>)[k].token \in {lo, hi}
  BY <1>2
<1> QED
  BY <1>1, <1>2, <1>3, <1>8, <1>9, <1>10 DEF Speaks

(* Nothing, when there is no sound.                                        *)
LEMMA SpeaksNothing ==
  ASSUME ts \in TokenLists, NEW lo, NEW hi, Pair(lo, hi),
         Way(lo) \in PhraseWays => hi = find_next_non_empty_word(lo + 1)
  PROVE  <<>> \in Seq(Items) /\ Speaks(<<>>, {lo, hi}, lo, hi)
<1>1. <<>> \in Seq(Items)
  OBVIOUS
<1>2. \A k : k \notin DOMAIN <<>>
  OBVIOUS
<1>3. PartsIn(<<>>, lo) = <<>> /\ PartsIn(<<>>, hi) = <<>>
  BY <1>1, <1>2, PartsNone
<1>5. lo \in {lo, hi} /\ hi \in {lo, hi}
  OBVIOUS
<1>6. HeardAs(lo, <<>>, {lo, hi}, {lo}) /\ HeardAs(hi, <<>>, {lo, hi}, {lo})
  BY <1>3, <1>5, HeardSilent
<1> QED
  BY <1>1, <1>2, <1>6, OrderlyShort DEF Speaks

(* What a handler that speaks at once puts out.                            *)
SpacedFrom(o, i) == \A k \in DOMAIN o : o[k].space = (k > 1 \/ LeadSpace(i))
Spends(o, quiet, lo, hi) ==
  Spoke(o) /\ SpacedFrom(o, lo) /\ Speaks(SaidOf(o), quiet, lo, hi)

(* One and two.                                                            *)
LEMMA OneOrTwo ==
  /\ \A k \in 1 .. 2 : k = 1 \/ k = 2
  /\ \A k \in 1 .. 2 : k = 2 <=> k > 1
  /\ 2 \in Nat /\ ~(1 > 1)
OBVIOUS

(* A pair is a function on one and two.                                    *)
LEMMA TwoThings ==
  ASSUME NEW x, NEW y, NEW S, <<x, y>> \in Seq(S)
  PROVE  /\ <<x, y>> \in [1 .. 2 -> S] /\ <<x, y>>[1] = x /\ <<x, y>>[2] = y
<1>1. DOMAIN <<x, y>> = 1 .. 2 /\ <<x, y>>[1] = x /\ <<x, y>>[2] = y
  OBVIOUS
<1>2. <<x, y>>[1] \in S /\ <<x, y>>[2] \in S
  OBVIOUS
<1>3. \A k \in 1 .. 2 : <<x, y>>[k] \in S
  BY <1>2, OneOrTwo, Zenon
<1>4. <<x, y>> = [k \in 1 .. 2 |-> <<x, y>>[k]]
  BY <1>1
<1> QED
  BY <1>1, <1>3, <1>4, Zenon

(* One piece has the space of its word.                                    *)
LEMMA SpacedOne ==
  ASSUME NEW p, NEW lo, p.space = LeadSpace(lo)
  PROVE  SpacedFrom(<<p>>, lo)
<1>1. \A k \in DOMAIN <<p>> : k = 1 /\ <<p>>[k] = p
  OBVIOUS
<1>2. (1 > 1 \/ LeadSpace(lo)) <=> LeadSpace(lo)
  BY OneOrTwo
<1>3. LeadSpace(lo) \in BOOLEAN
  BY DEF LeadSpace
<1>4. (1 > 1 \/ LeadSpace(lo)) = LeadSpace(lo)
  BY <1>2, <1>3
<1> QED
  BY <1>1, <1>4, Zenon DEF SpacedFrom

(* A function on the first numbers is a sequence of what it has.           *)
LEMMA ClosedOver ==
  ASSUME NEW n \in Nat, NEW o, DOMAIN o = 1 .. n, o = [k \in 1 .. n |-> o[k]]
  PROVE  Closed(o) /\ Len(o) = n
<1> DEFINE R == {o[k] : k \in DOMAIN o}
<1>1. \A k \in 1 .. n : o[k] \in R
  OBVIOUS
<1>2. o \in [1 .. n -> R]
  <2> HIDE DEF R
  <2> QED
    BY <1>1
<1>3. o \in Seq(R) /\ Len(o) = n
  <2> HIDE DEF R
  <2> QED
    BY <1>2
<1> QED
  BY <1>3 DEF Closed

(* Pieces that say one part each say the parts of the word in order.       *)
LEMMA PiecesOfParts ==
  ASSUME ts \in TokenLists, NEW lo \in WordTokens, NEW parts \in Seq(Parted),
         NEW o, Closed(o), Len(o) = Len(parts),
         \A k \in 1 .. Len(parts) : o[k].says = << [token |-> lo, part |-> parts[k]] >>
  PROVE  Spoke(o) /\ SaidOf(o) = [k \in DOMAIN parts |-> [token |-> lo, part |-> parts[k]]]
<1> DEFINE e == [k \in DOMAIN parts |-> [token |-> lo, part |-> parts[k]]]
<1>1. lo \in Nat
  BY WordsListed
<1>2. /\ Len(parts) \in Nat /\ DOMAIN parts = 1 .. Len(parts)
      /\ \A k \in DOMAIN parts : parts[k] \in Parted
  <2> HIDE DEF Parted
  <2> QED
    OBVIOUS
<1>3. \A k \in DOMAIN parts : [token |-> lo, part |-> parts[k]] \in Items
  BY <1>1, <1>2 DEF Items
<1>4. e \in [1 .. Len(parts) -> Items]
  BY <1>2, <1>3, Zenon
<1>5. \A k \in 1 .. Len(parts) : e[k] = [token |-> lo, part |-> parts[k]]
  BY <1>2, Zenon
<1> HIDE DEF e
<1>6. \A k \in 1 .. Len(parts) : o[k].says = <<e[k]>>
  BY <1>5
<1>7. Spoke(o) /\ SaidOf(o) = e
  <2>1. PICK n \in Nat : n = Len(parts)
    BY <1>2
  <2> QED
    BY <1>4, <1>6, <2>1, SaidBySingles
<1> QED
  BY <1>7 DEF e

(* A number is spoken in words that have its value.                        *)
LEMMA NumberSpends ==
  ASSUME ts \in TokenLists, NEW lo \in WordTokens, Way(lo) = "number"
  PROVE  Spends(expand_number_token(lo), {}, lo, lo)
<1> DEFINE words == int_to_words(Value(Text(lo)))
           o == expand_number_token(lo)
           said == [k \in DOMAIN words |-> [token |-> lo, part |-> words[k]]]
<1>1. Spoken(Text(lo)) /\ Text(lo) \in Seq(STRING)
  BY WayNumber, WordsListed
<1>2. Value(Text(lo)) \in Nat /\ Value(Text(lo)) <= MaxSpoken
  BY <1>1, ValueNat DEF Spoken, Number
<1>3. words \in Seq(NumberWords) /\ words # <<>> /\ ReadBack(words) = Value(Text(lo))
  BY <1>2, NumberReadBack
<1>4. words \in Seq(Parted)
  <2> HIDE DEF words
  <2>1. Seq(NumberWords) \subseteq Seq(Parted)
    <3>1. NumberWords \subseteq Parted
      BY DEF Parted
    <3> HIDE DEF Parted
    <3> QED
      BY <3>1
  <2> QED
    BY <1>3, <2>1
<1>5. Len(words) \in Nat /\ DOMAIN words = 1 .. Len(words)
  <2> HIDE DEF words
  <2> QED
    BY <1>3
<1>6. /\ DOMAIN o = 1 .. Len(words) /\ o = [k \in 1 .. Len(words) |-> o[k]]
      /\ \A k \in 1 .. Len(words) : /\ o[k].says = << [token |-> lo, part |-> words[k]] >>
                                    /\ o[k].space = (k > 1 \/ LeadSpace(lo))
  <2> DEFINE ipa(k) == add_default_stress(phonemes_to_ipa(word_to_phonemes(Chars(words[k]))))
             piece(k) == Piece(k > 1 \/ LeadSpace(lo), ipa(k),
                               << [token |-> lo, part |-> words[k]] >>)
  <2>1. o = [k \in DOMAIN words |-> piece(k)]
    BY Zenon DEF expand_number_token
  <2>2. \A k : /\ piece(k).says = << [token |-> lo, part |-> words[k]] >>
               /\ piece(k).space = (k > 1 \/ LeadSpace(lo))
    BY DEF Piece
  <2> HIDE DEF o, piece, words
  <2>3. DOMAIN o = 1 .. Len(words) /\ \A k \in 1 .. Len(words) : o[k] = piece(k)
    BY <1>5, <2>1, Zenon
  <2>4. o = [k \in 1 .. Len(words) |-> o[k]]
    BY <1>5, <2>1, Zenon
  <2> QED
    BY <2>2, <2>3, <2>4
<1> HIDE DEF o, words
<1>7. Closed(o) /\ Len(o) = Len(words)
  BY <1>5, <1>6, ClosedOver
<1>8. Spoke(o) /\ SaidOf(o) = said
  BY <1>4, <1>6, <1>7, PiecesOfParts
<1>9. Speaks(said, {}, lo, lo)
  <2>1. Way(lo) \notin PhraseWays
    BY DEF PhraseWays
  <2> QED
    BY <1>1, <1>3, <1>4, <2>1, SpeaksParts
<1>10. SpacedFrom(o, lo)
  BY <1>6 DEF SpacedFrom
<1> QED
  BY <1>8, <1>9, <1>10 DEF Spends, o

(* An abbreviation is spoken whole, in one piece.                          *)
LEMMA AbbreviationSpends ==
  ASSUME ts \in TokenLists, NEW lo \in WordTokens, Way(lo) = "abbreviation"
  PROVE  Spends(emit_spelled_abbreviation(lo), {}, lo, lo)
<1> DEFINE p == Piece(LeadSpace(lo), phonemes_to_ipa(combine_letter_codes(Letters(Text(lo)))),
                      <<Whole(lo)>>)
           parts == <<Text(lo)>>
<1>1. emit_spelled_abbreviation(lo) = <<p>>
  BY DEF emit_spelled_abbreviation
<1>2. p.says = <<Whole(lo)>> /\ p.space = LeadSpace(lo)
  BY DEF Piece
<1> HIDE DEF p
<1>3. <<Whole(lo)>> \in Seq(Items)
  BY WholeItem
<1>4. Spoke(<<p>>) /\ SaidOf(<<p>>) = <<Whole(lo)>>
  BY <1>2, <1>3, SaidByOne
<1>5. ~Spoken(Text(lo)) /\ Way(lo) \notin PhraseWays
  BY WayNumber DEF PhraseWays
<1>6. parts \in Seq(Parted)
  <2>1. Text(lo) \in Parted
    BY WordsListed DEF Parted
  <2> HIDE DEF Parted
  <2> QED
    BY <2>1
<1>7. <<Whole(lo)>> = [k \in DOMAIN parts |-> [token |-> lo, part |-> parts[k]]]
  BY DEF Whole
<1>8. FlattenSeq(parts) = Text(lo)
  BY FlattenOne
<1> HIDE DEF parts
<1>9. Speaks(<<Whole(lo)>>, {}, lo, lo)
  BY <1>5, <1>6, <1>7, <1>8, SpeaksParts
<1>10. SpacedFrom(<<p>>, lo)
  BY <1>2, SpacedOne
<1> QED
  BY <1>1, <1>4, <1>9, <1>10 DEF Spends

(* A pair with a sound of its own is spoken in one piece that says both    *)
(* words.                                                                  *)
LEMMA CliticSpends ==
  ASSUME ts \in TokenLists, NEW lo, NEW hi, Pair(lo, hi), lo # hi, Way(lo) = "clitic"
  PROVE  Spends(try_emit_direct_clitic(lo, hi), {}, lo, hi)
<1> DEFINE ipa == phonemes_to_ipa(CLITIC_IPA[build_lower_bigram(lo, hi)])
           the == Lower(hi) = Chars("the") /\ the_before_vowel(hi)
           p == Piece(LeadSpace(lo), apply_pre_vowel_the_fixup(the, ipa), <<Whole(lo), Whole(hi)>>)
<1>1. try_emit_direct_clitic(lo, hi) = <<p>>
  BY Zenon DEF try_emit_direct_clitic
<1>2. p.says = <<Whole(lo), Whole(hi)>> /\ p.space = LeadSpace(lo)
  BY DEF Piece
<1> HIDE DEF p
<1>3. ~Spoken(Text(lo)) /\ Way(lo) \notin PhraseWays
  BY WayNumber DEF PhraseWays
<1>4. <<Whole(lo), Whole(hi)>> \in Seq(Items) /\ Speaks(<<Whole(lo), Whole(hi)>>, {}, lo, hi)
  BY <1>3, SpeaksBoth
<1>5. Spoke(<<p>>) /\ SaidOf(<<p>>) = <<Whole(lo), Whole(hi)>>
  BY <1>2, <1>4, SaidByOne
<1>6. SpacedFrom(<<p>>, lo)
  BY <1>2, SpacedOne
<1> QED
  BY <1>1, <1>4, <1>5, <1>6 DEF Spends

(* A pair with codes for each word is spoken in two pieces, a space        *)
(* between.                                                                *)
LEMMA SplitSpends ==
  ASSUME ts \in TokenLists, NEW lo, NEW hi, Pair(lo, hi), lo # hi, Way(lo) = "split phrase"
  PROVE  Spends(try_emit_split_phrase(lo, hi), {}, lo, hi)
<1> DEFINE codes == phrase_split_dict[build_lower_bigram(lo, hi)]
           prime == Has(codes[1], "'") \/ Has(codes[2], "'")
           piece(k) == Piece(k = 2 \/ LeadSpace(lo), render_split_part(codes[k], k = 1, prime),
                             <<Whole(<<lo, hi>>[k])>>)
           o == try_emit_split_phrase(lo, hi)
           e == <<Whole(lo), Whole(hi)>>
<1>1. o = [k \in 1 .. 2 |-> piece(k)]
  BY Zenon DEF try_emit_split_phrase
<1>2. \A k : piece(k).says = <<Whole(<<lo, hi>>[k])>> /\ piece(k).space = (k = 2 \/ LeadSpace(lo))
  BY DEF Piece
<1> HIDE DEF o, piece
<1>3. DOMAIN o = 1 .. 2 /\ o = [k \in 1 .. 2 |-> o[k]] /\ \A k \in 1 .. 2 : o[k] = piece(k)
  BY <1>1, Zenon
<1>4. Closed(o) /\ Len(o) = 2
  <2>1. 2 \in Nat
    OBVIOUS
  <2> QED
    BY <1>3, <2>1, ClosedOver
<1>5. ~Spoken(Text(lo)) /\ Way(lo) \notin PhraseWays
  BY WayNumber DEF PhraseWays
<1>6. e \in Seq(Items) /\ Speaks(e, {}, lo, hi)
  BY <1>5, SpeaksBoth
<1>7. \A k \in 1 .. 2 : o[k].says = <<e[k]>>
  <2>1. <<lo, hi>>[1] = lo /\ <<lo, hi>>[2] = hi /\ e[1] = Whole(lo) /\ e[2] = Whole(hi)
    BY <1>6, TwoThings
  <2> HIDE DEF e
  <2>2. \A k : k = 1 \/ k = 2 => e[k] = Whole(<<lo, hi>>[k])
    BY <2>1, Zenon
  <2>3. \A k \in 1 .. 2 : e[k] = Whole(<<lo, hi>>[k])
    BY <2>2, OneOrTwo, Zenon
  <2>4. \A k \in 1 .. 2 : o[k].says = << Whole(<<lo, hi>>[k]) >>
    BY <1>2, <1>3, Zenon
  <2> QED
    BY <2>3, <2>4, Zenon
<1>8. e \in [1 .. 2 -> Items]
  BY <1>6, TwoThings
<1>9. Spoke(o) /\ SaidOf(o) = e
  <2>1. 2 \in Nat
    OBVIOUS
  <2> HIDE DEF e
  <2> QED
    BY <1>4, <1>7, <1>8, <2>1, SaidBySingles
<1>10. SpacedFrom(o, lo)
  <2>1. \A k \in 1 .. 2 : (k = 2 \/ LeadSpace(lo)) = (k > 1 \/ LeadSpace(lo))
    <3>1. LeadSpace(lo) \in BOOLEAN
      BY DEF LeadSpace
    <3> QED
      BY <3>1, OneOrTwo
  <2> QED
    <3>1. ASSUME NEW k \in 1 .. 2 PROVE o[k].space = (k = 2 \/ LeadSpace(lo))
      <4>1. o[k] = piece(k)
        BY <1>3, Zenon
      <4>2. piece(k).space = (k = 2 \/ LeadSpace(lo))
        BY <1>2, Zenon
      <4> QED
        BY <4>1, <4>2
    <3>2. \A k \in 1 .. 2 : o[k].space = (k > 1 \/ LeadSpace(lo))
      BY <2>1, <3>1
    <3> QED
      BY <1>3, <3>2 DEF SpacedFrom
<1> QED
  BY <1>6, <1>9, <1>10, Zenon DEF Spends, o

(* An acronym is spoken in its groups of letters, in order; when one of    *)
(* them has no sound the word is among those that are not heard whole.     *)
LEMMA AcronymSpends ==
  ASSUME ts \in TokenLists, NEW lo \in WordTokens, Way(lo) = "acronym"
  PROVE  Spends(spell_acronym_groups(lo, GroupSounds(lo)),
                {i \in {lo} : Silent(GroupSounds(lo)) # {}}, lo, lo)
<1> DEFINE groups == acronym_groups(lo)
           sounds == GroupSounds(lo)
           n == Len(groups)
           item(k) == [token |-> lo, part |-> groups[k]]
           piece(k) == Piece(FALSE, sounds[k], << item(k) >>)
           heard == [k \in DOMAIN groups |-> IF k \in Silent(sounds) THEN <<>> ELSE <<piece(k)>>]
           flat == FlattenSeq(heard)
           R == {piece(k) : k \in 1 .. n}
           quiet == {i \in {lo} : Silent(sounds) # {}}
           o == spell_acronym_groups(lo, sounds)
<1>1. /\ groups \in Seq(Seq(STRING)) /\ FlattenSeq(groups) = Text(lo)
      /\ n \in Nat /\ DOMAIN groups = 1 .. n
  <2>1. Text(lo) \in Seq(STRING)
    BY WordsListed
  <2>2. groups \in Seq(Seq(STRING)) /\ FlattenSeq(groups) = Text(lo)
    BY <2>1, GroupsWhole DEF acronym_groups
  <2> HIDE DEF groups
  <2> QED
    BY <2>2
<1>2. \A k \in 1 .. n : groups[k] \in Seq(STRING) /\ groups[k] \in Parted
  <2> DEFINE D == Seq(STRING)
  <2>1. groups \in Seq(D)
    BY <1>1
  <2> HIDE DEF D, groups
  <2>2. \A k \in 1 .. n : groups[k] \in D
    BY <1>1, <2>1
  <2> QED
    BY <2>2 DEF D, Parted
<1>3. o = [k \in DOMAIN flat |-> [flat[k] EXCEPT !.space = k > 1 \/ LeadSpace(lo)]]
  BY Zenon DEF spell_acronym_groups, Spaced
<1>4. heard \in Seq(Seq(R))
  <2>1. \A k \in DOMAIN groups : <<piece(k)>> \in Seq(R) /\ <<>> \in Seq(R)
    <3>1. \A k \in DOMAIN groups : piece(k) \in R
      BY <1>1
    <3> HIDE DEF R, piece, groups
    <3> QED
      BY <3>1
  <2> DEFINE E == Seq(R)
  <2>2. \A k \in DOMAIN groups : (IF k \in Silent(sounds) THEN <<>> ELSE <<piece(k)>>) \in E
    <3> HIDE DEF R, piece, groups
    <3> QED
      BY <2>1
  <2>3. heard \in [1 .. n -> E]
    <3> HIDE DEF R, piece, groups, E
    <3> QED
      BY <1>1, <2>2, Zenon
  <2>4. heard \in Seq(E)
    <3> HIDE DEF heard, E, n
    <3> QED
      BY <1>1, <2>3
  <2> QED
    BY <2>4
<1>5. flat \in Seq(R)
  <2> HIDE DEF heard, R
  <2> QED
    BY <1>4, FlattenTyped
<1>6. Len(flat) \in Nat /\ DOMAIN flat = 1 .. Len(flat) /\ \A k \in DOMAIN flat : flat[k] \in R
  <2> HIDE DEF flat, R
  <2> QED
    BY <1>5
<1>7. PICK place : \A k \in DOMAIN flat : place[k] \in 1 .. n /\ flat[k] = piece(place[k])
  <2>1. \A k \in DOMAIN flat : \E j \in 1 .. n : flat[k] = piece(j)
    <3> HIDE DEF flat, piece, n
    <3> QED
      BY <1>6
  <2> HIDE DEF flat, piece, n
  <2>2. [k \in DOMAIN flat |-> CHOOSE j \in 1 .. n : flat[k] = piece(j)]
          \in {f \in [DOMAIN flat -> 1 .. n] : \A k \in DOMAIN flat : flat[k] = piece(f[k])}
    BY <2>1
  <2> QED
    BY <2>2
<1> DEFINE parts == [k \in DOMAIN flat |-> groups[place[k]]]
<1>8. parts \in Seq(Parted) /\ Len(parts) = Len(flat) /\ DOMAIN parts = 1 .. Len(flat)
  <2>1. parts \in [1 .. Len(flat) -> Parted]
    <3> HIDE DEF flat, groups, n, piece
    <3> QED
      BY <1>2, <1>6, <1>7
  <2> HIDE DEF parts, flat
  <2> QED
    BY <1>6, <2>1
<1>9. \A k \in DOMAIN flat : parts[k] = groups[place[k]]
  <2> HIDE DEF flat, groups
  <2> QED
    OBVIOUS
<1>10. /\ DOMAIN o = 1 .. Len(flat) /\ o = [k \in 1 .. Len(flat) |-> o[k]]
       /\ \A k \in 1 .. Len(flat) : /\ o[k].says = << [token |-> lo, part |-> parts[k]] >>
                                    /\ o[k].space = (k > 1 \/ LeadSpace(lo))
  <2>1. /\ DOMAIN o = 1 .. Len(flat) /\ o = [k \in 1 .. Len(flat) |-> o[k]]
        /\ \A k \in 1 .. Len(flat) : o[k] = [flat[k] EXCEPT !.space = k > 1 \/ LeadSpace(lo)]
    <3> HIDE DEF o, flat
    <3> QED
      BY <1>3, <1>6, Zenon
  <2>2. ASSUME NEW k \in 1 .. Len(flat)
        PROVE  /\ o[k].says = << [token |-> lo, part |-> parts[k]] >>
               /\ o[k].space = (k > 1 \/ LeadSpace(lo))
    <3> DEFINE g == groups[place[k]]
               space == (k > 1 \/ LeadSpace(lo))
    <3>1. flat[k] = [space |-> FALSE, ipa |-> sounds[place[k]],
                     says |-> << [token |-> lo, part |-> g] >>]
      BY <1>6, <1>7, Zenon DEF Piece
    <3>2. o[k] = [flat[k] EXCEPT !.space = space]
      BY <2>1
    <3>3. parts[k] = g
      BY <1>6, <1>9
    <3> HIDE DEF g, space, o, flat, parts
    <3>4. o[k].says = << [token |-> lo, part |-> g] >> /\ o[k].space = space
      BY <3>1, <3>2
    <3> QED
      BY <3>3, <3>4 DEF space
  <2> QED
    BY <2>1, <2>2
<1>11. Closed(o) /\ Len(o) = Len(parts)
  <2> HIDE DEF o, flat, parts
  <2> QED
    BY <1>6, <1>8, <1>10, ClosedOver
<1> DEFINE said == [k \in DOMAIN parts |-> [token |-> lo, part |-> parts[k]]]
<1>12. Spoke(o) /\ SaidOf(o) = said
  <2> HIDE DEF o, flat, parts
  <2>1. \A k \in 1 .. Len(parts) : o[k].says = << [token |-> lo, part |-> parts[k]] >>
    BY <1>8, <1>10
  <2> QED
    BY <1>8, <1>11, <2>1, PiecesOfParts
<1>13. SpacedFrom(o, lo)
  <2> HIDE DEF o, flat, parts
  <2> QED
    BY <1>10 DEF SpacedFrom
<1>14. ~Spoken(Text(lo)) /\ Way(lo) \notin PhraseWays
  BY WayNumber DEF PhraseWays
<1>15. IF lo \in quiet
       THEN ToSet(parts) \subseteq IF Way(lo) = "acronym" THEN ToSet(groups) ELSE {}
       ELSE IF Spoken(Text(lo)) THEN parts # <<>> /\ ReadBack(parts) = Value(Text(lo))
       ELSE FlattenSeq(parts) = Text(lo)
  <2>1. CASE Silent(sounds) # {}
    <3>1. lo \in quiet
      BY <2>1
    <3>2. \A k \in DOMAIN parts : parts[k] \in ToSet(groups)
      <4>1. \A j \in DOMAIN groups : groups[j] \in ToSet(groups)
        BY DEF ToSet
      <4> HIDE DEF groups, flat, parts, n
      <4> QED
        BY <1>1, <1>6, <1>7, <1>8, <1>9, <4>1
    <3>3. ToSet(parts) \subseteq ToSet(groups)
      <4> HIDE DEF parts, groups
      <4> QED
        BY <3>2 DEF ToSet
    <3> HIDE DEF quiet, parts, groups
    <3> QED
      BY <3>1, <3>3
  <2>2. CASE Silent(sounds) = {}
    <3>1. lo \notin quiet
      BY <2>2
    <3>2. flat = [k \in 1 .. n |-> piece(k)]
      <4> DEFINE e == [k \in 1 .. n |-> piece(k)]
      <4>1. e \in [1 .. n -> R] /\ \A k \in 1 .. n : e[k] = piece(k)
        <5> HIDE DEF n, piece
        <5> QED
          OBVIOUS
      <4>2. heard = [k \in 1 .. n |-> <<piece(k)>>]
        <5> HIDE DEF n, piece, groups
        <5> QED
          BY <1>1, <2>2, Zenon
      <4> HIDE DEF e, n, piece, R, heard
      <4>3. heard = [k \in 1 .. n |-> <<e[k]>>]
        BY <4>1, <4>2, Zenon
      <4>4. FlattenSeq([k \in 1 .. n |-> <<e[k]>>]) = e
        BY <1>1, <4>1, FlattenSingles
      <4> QED
        BY <4>3, <4>4 DEF e
    <3>3. \A k \in 1 .. n : flat[k].says = << [token |-> lo, part |-> groups[k]] >>
      <4>1. \A k \in 1 .. n : flat[k] = piece(k)
        <5> HIDE DEF n, piece, flat
        <5> QED
          BY <3>2
      <4>2. \A k : piece(k).says = << [token |-> lo, part |-> groups[k]] >>
        <5> HIDE DEF groups
        <5> QED
          BY DEF Piece
      <4> HIDE DEF n, piece, flat
      <4> QED
        BY <4>1, <4>2
    <3>4. Len(flat) = n
      <4>1. DOMAIN flat = 1 .. n /\ flat = [k \in 1 .. n |-> flat[k]]
        <5> HIDE DEF n, piece, flat
        <5> QED
          BY <3>2, Zenon
      <4> HIDE DEF n, flat
      <4> QED
        BY <1>1, <4>1, ClosedOver
    <3>5. \A k \in 1 .. n : parts[k] = groups[k]
      <4>1. SUFFICES ASSUME NEW k \in 1 .. n PROVE parts[k] = groups[k]
        OBVIOUS
      <4>2. flat[k].says = << [token |-> lo, part |-> groups[place[k]]] >>
        <5>1. flat[k] = piece(place[k])
          BY <1>6, <1>7, <3>4
        <5>2. \A j : piece(j).says = << [token |-> lo, part |-> groups[j]] >>
          <6> HIDE DEF groups
          <6> QED
            BY DEF Piece
        <5> HIDE DEF piece, flat, groups
        <5> QED
          BY <5>1, <5>2
      <4>3. flat[k].says = << [token |-> lo, part |-> groups[k]] >>
        BY <3>3
      <4>4. \A x, y : << [token |-> lo, part |-> x] >> = << [token |-> lo, part |-> y] >> => x = y
        OBVIOUS
      <4>5. parts[k] = groups[place[k]]
        BY <1>6, <1>9, <3>4
      <4> HIDE DEF flat, groups, parts
      <4> QED
        BY <4>2, <4>3, <4>4, <4>5
    <3>6. parts = groups
      <4> DEFINE D == Seq(STRING)
      <4>1. groups \in Seq(D)
        BY <1>1
      <4> HIDE DEF D, groups, flat, parts
      <4> QED
        BY <1>1, <1>8, <3>4, <3>5, <4>1
    <3> HIDE DEF quiet, parts, groups
    <3> QED
      BY <1>1, <1>14, <3>1, <3>6
  <2> QED
    BY <2>1, <2>2
<1>16. quiet \subseteq {lo}
  OBVIOUS
<1>17. Speaks(said, quiet, lo, lo)
  <2> HIDE DEF parts, quiet, flat, o
  <2> QED
    BY <1>8, <1>14, <1>15, <1>16, SpeaksParts
<1> QED
  BY <1>12, <1>13, <1>17, Zenon DEF Spends, o, quiet

-----------------------------------------------------------------------------
(* The text stands, and with it what lies behind.                          *)

LEMMA HeardStands ==
  ASSUME ts' = ts, onset' = onset
  PROVE  \A i, said, silent, takers :
           HeardAs(i, said, silent, takers)' <=> HeardAs(i, said, silent, takers)
<1>1. SUFFICES ASSUME NEW i, NEW said, NEW silent, NEW takers
               PROVE  HeardAs(i, said, silent, takers)' <=> HeardAs(i, said, silent, takers)
  OBVIOUS
<1>2. /\ \A j : Way(j)' = Way(j) /\ acronym_groups(j)' = acronym_groups(j)
      /\ \A j : Formed(j, i)' = Formed(j, i)
  BY WayStands, FormedStands
<1>3. Text(i)' = Text(i)
  BY TextStands
<1>4. \A j : find_next_non_empty_word(j + 1)' = find_next_non_empty_word(j + 1)
  BY DEF find_next_non_empty_word, WordTokens
<1>5. Replaced(i, takers)' <=> Replaced(i, takers)
  BY <1>2, <1>4 DEF Replaced
<1> QED
  BY <1>2, <1>3, <1>5 DEF HeardAs

(* While the text stands what is behind stays behind.                      *)
LEMMA PastStands ==
  ASSUME ts' = ts, onset' = onset
  PROVE  \A said, silent, takers, lo :
           Past(said, silent, takers, lo) => Past(said, silent, takers, lo)'
<1>1. SUFFICES ASSUME NEW said, NEW silent, NEW takers, NEW lo, Past(said, silent, takers, lo)
               PROVE  Past(said, silent, takers, lo)'
  OBVIOUS
<1>2. \A j : Way(j)' = Way(j)
  BY WayStands
<1>3. \A j : find_next_non_empty_word(j + 1)' = find_next_non_empty_word(j + 1)
  BY DEF find_next_non_empty_word, WordTokens
<1>4. WordTokens' = WordTokens
  BY TextStands
<1>5. \A i : HeardAs(i, said, silent, takers)' <=> HeardAs(i, said, silent, takers)
  BY HeardStands
<1> QED
  BY <1>1, <1>2, <1>3, <1>4, <1>5 DEF Past

(* While the text stands a pair is one, its way and form the same.         *)
LEMMA PairStands ==
  ASSUME ts' = ts, onset' = onset
  PROVE  \A lo, hi : /\ Pair(lo, hi)' <=> Pair(lo, hi)
                     /\ Way(lo)' = Way(lo) /\ Formed(lo, hi)' = Formed(lo, hi)
<1>1. SUFFICES ASSUME NEW lo, NEW hi
               PROVE  /\ Pair(lo, hi)' <=> Pair(lo, hi)
                      /\ Way(lo)' = Way(lo) /\ Formed(lo, hi)' = Formed(lo, hi)
  OBVIOUS
<1>2. Way(lo)' = Way(lo) /\ Formed(lo, hi)' = Formed(lo, hi)
  BY WayStands, FormedStands
<1>3. Pair(lo, hi)' <=> Pair(lo, hi)
  BY DEF Pair, find_next_non_empty_word, WordTokens
<1> QED
  BY <1>2, <1>3

-----------------------------------------------------------------------------
(* The inductive invariant.                                                *)

(* The first token whose fate is open, and the tokens that had a handler.  *)
Frontier == IF stage \in {"next", "done"} THEN ti ELSE IF stage = "count" THEN ti + 1 ELSE t
Takers == ToSet(handled) \cup (IF stage = "count" THEN {t} ELSE {})

BehindInv ==
  \E said, silent, takers, front :
    /\ said = AllSaid /\ silent = mute /\ takers = Takers /\ front = Frontier
    /\ Past(said, silent, takers, front)

(* The codes at hand speak the word, or the pair unless a form replaces    *)
(* its second word: then they speak the first alone, or are no codes.      *)
CodesSpeak(lo, hi) ==
  /\ stage \in {"codes", "swapped"} => says = IF phrase.matched THEN <<lo, hi>> ELSE <<lo>>
  /\ stage \in {"stress", "join", "speak"} =>
       \/ says = <<lo>> /\ (phrase.matched => Formed(lo, hi))
       \/ phrase.matched /\ says = <<lo, hi>> /\ (Formed(lo, hi) => ph = <<>>)
  /\ stage \in {"codes", "swapped", "stress", "join", "speak"} =>
       IF phrase.matched THEN lo # hi /\ Way(lo) \in PhraseWays ELSE hi = lo /\ Way(lo) = "word"
HandInv ==
  \E lo, hi : /\ lo = t /\ hi = ti
              /\ stage \notin {"next", "done"} => Pair(lo, hi)
              /\ CodesSpeak(lo, hi)

SpaceInv ==
  /\ first_word = (out = <<>>) /\ (out # <<>> => Frontier > 1)
  /\ \A k \in DOMAIN out : out[k].space = (k > 1)

SaidInv ==
  /\ ts \in TokenLists /\ stage \in Stages /\ ti \in Nat \ {0}
  /\ Closed(handled) /\ Spoke(out)
  /\ pass # "done" => stage \in {"codes", "swapped"}
  /\ BehindInv /\ HandInv /\ SpaceInv

(* The invariant says what was to be shown.                                *)
LEMMA SaidFollows == SaidInv => Said
<1>1. SUFFICES ASSUME SaidInv, stage \in {"next", "done"}
               PROVE  /\ \A k \in DOMAIN out : out[k].space = (k > 1)
                      /\ \A k \in 1 .. Len(AllSaid) - 1 : AllSaid[k].token <= AllSaid[k + 1].token
                      /\ \A i \in {j \in WordTokens : j < ti} : Heard(i, ToSet(handled))
  BY DEF Said
<1>2. Past(AllSaid, mute, ToSet(handled), ti)
  <2>1. Frontier = ti /\ Takers = ToSet(handled)
    BY <1>1 DEF Frontier, Takers
  <2> QED
    BY <1>1, <2>1 DEF SaidInv, BehindInv
<1>3. \A i \in WordTokens : i < ti => Heard(i, ToSet(handled))
  <2>1. SUFFICES ASSUME NEW i \in WordTokens, i < ti PROVE Heard(i, ToSet(handled))
    OBVIOUS
  <2>2. HeardAs(i, AllSaid, mute, ToSet(handled))
    BY <1>2, <2>1 DEF Past
  <2> QED
    BY <2>2, Zenon DEF HeardAs, Heard, Parts
<1>4. \A k \in 1 .. Len(AllSaid) - 1 : AllSaid[k].token <= AllSaid[k + 1].token
  BY <1>2 DEF Past, Orderly
<1>5. \A k \in DOMAIN out : out[k].space = (k > 1)
  BY <1>1 DEF SaidInv, SpaceInv
<1> QED
  BY <1>3, <1>4, <1>5

(* Before the first token nothing is behind.                               *)
LEMMA SaidStarts ==
  ASSUME Texts \subseteq Seq(STRING), Init
  PROVE  SaidInv
<1>1. ts \in TokenLists /\ onset = Onsets(ts) /\ ti = 1 /\ t = 0 /\ stage = "next"
  <2>1. \A text \in Texts : tokenize(text) \in TokenLists
    BY TokensListed
  <2> QED
    BY <2>1 DEF Init
<1>2. /\ first_word = TRUE /\ out = <<>> /\ handled = <<>> /\ mute = {} /\ pass = "done"
  BY DEF Init
<1>3. Closed(<<>>) /\ Spoke(<<>>)
  BY DEF Closed, Spoke
<1>4. AllSaid = <<>>
  <2>1. [k \in DOMAIN out |-> out[k].says] = <<>>
    BY <1>2
  <2> QED
    BY <2>1, FlattenNothing DEF AllSaid
<1>5. Past(<<>>, {}, {}, 1)
  <2>1. \A i \in WordTokens : ~(i < 1)
    BY <1>1, WordsListed
  <2>2. <<>> \in Seq(Items) /\ \A k : k \notin DOMAIN <<>>
    OBVIOUS
  <2> QED
    BY <2>1, <2>2, OrderlyShort DEF Past
<1>6. Takers = {} /\ Frontier = 1
  BY <1>1, <1>2 DEF Takers, Frontier, ToSet
<1>7. BehindInv
  BY <1>2, <1>4, <1>5, <1>6 DEF BehindInv
<1>8. HandInv
  <2>1. stage \in {"next", "done"}
    BY <1>1
  <2>2. \A lo, hi : CodesSpeak(lo, hi)
    <3>1. /\ stage \notin {"codes", "swapped"} /\ stage \notin {"stress", "join", "speak"}
          /\ stage \notin {"codes", "swapped", "stress", "join", "speak"}
      BY <1>1
    <3> QED
      BY <3>1, Zenon DEF CodesSpeak
  <2>3. PICK lo, hi : lo = t /\ hi = ti
    OBVIOUS
  <2>4. CodesSpeak(lo, hi)
    BY <2>2
  <2>5. stage \notin {"next", "done"} => Pair(lo, hi)
    BY <2>1
  <2> QED
    BY <2>3, <2>4, <2>5, Zenon DEF HandInv
<1>9. SpaceInv
  <2>1. first_word = (out = <<>>)
    BY <1>2
  <2>2. \A k : k \notin DOMAIN out
    BY <1>2
  <2> QED
    BY <1>2, <2>1, <2>2, Zenon DEF SpaceInv
<1>10. stage \in Stages
  BY <1>1 DEF Stages
<1> QED
  BY <1>1, <1>2, <1>3, <1>7, <1>8, <1>9, <1>10 DEF SaidInv

(* A step that speaks nothing and takes no token leaves what is behind.    *)
LEMMA BehindStands ==
  ASSUME BehindInv, ts' = ts, onset' = onset, out' = out, mute' = mute,
         Takers' = Takers, Frontier' = Frontier
  PROVE  BehindInv'
<1>1. PICK said, silent, takers, front :
        /\ said = AllSaid /\ silent = mute /\ takers = Takers /\ front = Frontier
        /\ Past(said, silent, takers, front)
  BY DEF BehindInv
<1>2. AllSaid' = AllSaid
  BY DEF AllSaid
<1>3. Past(said, silent, takers, front)'
  BY <1>1, PastStands
<1>4. said = AllSaid' /\ silent = mute' /\ takers = Takers' /\ front = Frontier'
  BY <1>1, <1>2
<1> QED
  BY <1>3, <1>4, Zenon DEF BehindInv

(* And it leaves the spaces.                                               *)
LEMMA SpaceStands ==
  ASSUME SpaceInv, out' = out, first_word' = first_word, Frontier' = Frontier
  PROVE  SpaceInv'
BY DEF SpaceInv

(* A handler speaks what it has to speak, and its words are behind.        *)
LEMMA ForwardStep ==
  ASSUME NEW lo, NEW hi, NEW o, NEW quiet,
         ts \in TokenLists, Pair(lo, hi), BehindInv, SpaceInv, Spoke(out),
         Spoke(o), Speaks(SaidOf(o), quiet, lo, hi),
         \A k \in DOMAIN o : o[k].space = (k > 1 \/ out # <<>>),
         Frontier = lo, Takers = ToSet(handled), handled' = handled,
         ts' = ts, onset' = onset, t' = lo, ti' = hi, stage' = "count",
         out' = out \o o, mute' = mute \cup quiet, first_word' = (first_word /\ o = <<>>)
  PROVE  Spoke(out)' /\ BehindInv' /\ SpaceInv'
<1>1. PICK said, silent, takers, front :
        /\ said = AllSaid /\ silent = mute /\ takers = Takers /\ front = Frontier
        /\ Past(said, silent, takers, front)
  BY DEF BehindInv
<1>2. AllSaid = SaidOf(out)
  BY DEF AllSaid, SaidOf
<1>3. /\ Spoke(out \o o) /\ JoinAt(out \o o, out, o)
      /\ SaidOf(out \o o) = SaidOf(out) \o SaidOf(o)
  BY SaidJoined
<1>4. AllSaid' = said \o SaidOf(o)
  <2>1. AllSaid' = FlattenSeq([k \in DOMAIN (out') |-> out'[k].says])
    BY DEF AllSaid
  <2>2. AllSaid' = SaidOf(out \o o)
    BY <2>1 DEF SaidOf
  <2> QED
    BY <1>1, <1>2, <1>3, <2>2
<1>5. Past(said \o SaidOf(o), silent \cup quiet, takers \cup {lo}, hi + 1)
  BY <1>1, Forward
<1>6. Takers' = takers \cup {lo} /\ Frontier' = hi + 1
  BY <1>1 DEF Takers, Frontier
<1>7. BehindInv'
  <2>1. PICK s : s = said \o SaidOf(o) /\ s = AllSaid'
    BY <1>4
  <2>2. PICK q, w, f : /\ q = silent \cup quiet /\ w = takers \cup {lo} /\ f = hi + 1
                       /\ q = mute' /\ w = Takers' /\ f = Frontier'
    BY <1>1, <1>6
  <2>3. Past(s, q, w, f)
    BY <1>5, <2>1, <2>2
  <2>4. Past(s, q, w, f)'
    BY <2>3, PastStands
  <2> QED
    BY <2>1, <2>2, <2>4, Zenon DEF BehindInv
<1>8. Spoke(out)'
  BY <1>3 DEF Spoke, Closed
<1>9. SpaceInv'
  <2>1. /\ Len(out) \in Nat /\ DOMAIN out = 1 .. Len(out)
        /\ Len(o) \in Nat /\ DOMAIN o = 1 .. Len(o)
    BY Zenon DEF Spoke, Closed
  <2> DEFINE n == Len(out) + Len(o)
  <2>2. /\ Len(out') = n /\ DOMAIN (out') = 1 .. n
        /\ \A k \in 1 .. n : out'[k] = IF k <= Len(out) THEN out[k] ELSE o[k - Len(out)]
    BY <1>3 DEF JoinAt
  <2>3. (out = <<>> <=> Len(out) = 0) /\ (o = <<>> <=> Len(o) = 0)
    <3>1. \A S : \A x \in Seq(S) : x = <<>> <=> Len(x) = 0
      OBVIOUS
    <3> QED
      BY <3>1 DEF Spoke, Closed
  <2>4. out' = <<>> <=> Len(out') = 0
    <3>1. \A S : \A x \in Seq(S) : x = <<>> <=> Len(x) = 0
      OBVIOUS
    <3> QED
      BY <1>3, <3>1 DEF Spoke, Closed
  <2>5. first_word = (out = <<>>)
    BY DEF SpaceInv
  <2>6. first_word' = (out' = <<>>)
    <3>1. Len(out') = 0 <=> Len(out) = 0 /\ Len(o) = 0
      BY <2>1, <2>2
    <3>2. out' = <<>> <=> out = <<>> /\ o = <<>>
      BY <2>3, <2>4, <3>1
    <3>3. first_word' = (out = <<>> /\ o = <<>>)
      BY <2>5
    <3> QED
      BY <3>2, <3>3
  <2>7. Frontier' > 1
    <3>1. hi \in Nat /\ hi > 0
      BY WordsListed DEF Pair
    <3> QED
      BY <1>6, <3>1
  <2>8. ASSUME NEW k \in 1 .. n PROVE out'[k].space = (k > 1)
    <3>1. CASE k <= Len(out)
      <4>1. k \in DOMAIN out /\ out'[k] = out[k]
        BY <2>1, <2>2, <3>1
      <4> QED
        BY <4>1 DEF SpaceInv
    <3>2. CASE ~(k <= Len(out))
      <4>1. k - Len(out) \in DOMAIN o /\ out'[k] = o[k - Len(out)]
        BY <2>1, <2>2, <3>2
      <4>2. out'[k].space = (k - Len(out) > 1 \/ out # <<>>)
        BY <4>1
      <4>3. (k - Len(out) > 1 \/ out # <<>>) <=> k > 1
        BY <2>1, <2>3, <3>2
      <4> QED
        BY <4>2, <4>3
    <3> QED
      BY <3>1, <3>2
  <2> QED
    BY <2>2, <2>6, <2>7, <2>8 DEF SpaceInv
<1> QED
  BY <1>7, <1>8, <1>9

(* Once it was spoken a token has no codes at hand.                        *)
LEMMA CountedHand ==
  ASSUME NEW lo, NEW hi, Pair(lo, hi), ts' = ts, onset' = onset,
         t' = lo, ti' = hi, stage' = "count"
  PROVE  HandInv'
<1>1. Pair(lo, hi)'
  BY PairStands
<1>2. CodesSpeak(lo, hi)'
  <2>1. /\ stage' \notin {"codes", "swapped"} /\ stage' \notin {"stress", "join", "speak"}
        /\ stage' \notin {"codes", "swapped", "stress", "join", "speak"}
    OBVIOUS
  <2> QED
    BY <2>1, Zenon DEF CodesSpeak
<1> QED
  BY <1>1, <1>2, Zenon DEF HandInv

(* A word, or a pair, that is spoken at once.                              *)
LEMMA SpendsStep ==
  ASSUME NEW lo, NEW hi, NEW o, NEW quiet, NEW way,
         SaidInv, stage = "next", lo = ti, hi = ti', Pair(lo, hi),
         Spends(o, quiet, lo, hi), Consumes(way, hi, o, quiet)
  PROVE  SaidInv'
<1>1. /\ t' = lo /\ ti' = hi /\ out' = out \o o /\ mute' = mute \cup quiet
      /\ first_word' = (first_word /\ o = <<>>) /\ stage' = "count"
      /\ ts' = ts /\ onset' = onset /\ handled' = handled /\ pass' = pass
  BY DEF Consumes, Takes, input, passes
<1>2. Frontier = lo /\ Takers = ToSet(handled)
  BY DEF Frontier, Takers
<1>3. \A k \in DOMAIN o : o[k].space = (k > 1 \/ out # <<>>)
  <2>1. LeadSpace(lo) <=> out # <<>>
    <3>1. ts[lo].needs_space = (lo > 1)
      BY WordsListed DEF SaidInv, Pair
    <3>2. first_word = (out = <<>>) /\ (out # <<>> => lo > 1)
      BY <1>2 DEF SaidInv, SpaceInv
    <3> QED
      BY <3>1, <3>2 DEF LeadSpace
  <2>2. LeadSpace(lo) \in BOOLEAN
    BY DEF LeadSpace
  <2>3. LeadSpace(lo) = (out # <<>>)
    BY <2>1, <2>2
  <2>4. \A k \in DOMAIN o : o[k].space = (k > 1 \/ LeadSpace(lo))
    BY DEF Spends, SpacedFrom
  <2> QED
    BY <2>3, <2>4
<1>4. Spoke(out)' /\ BehindInv' /\ SpaceInv'
  <2>1. ts \in TokenLists /\ BehindInv /\ SpaceInv /\ Spoke(out)
    BY DEF SaidInv
  <2>2. Spoke(o) /\ Speaks(SaidOf(o), quiet, lo, hi)
    BY DEF Spends
  <2> QED
    BY <1>1, <1>2, <1>3, <2>1, <2>2, ForwardStep
<1>5. HandInv'
  BY <1>1, CountedHand
<1>6. ts' \in TokenLists /\ stage' \in Stages /\ ti' \in Nat \ {0}
  <2>1. ts' \in TokenLists /\ hi \in Nat \ {0}
    BY <1>1, PairNext DEF SaidInv
  <2>2. "count" \in Stages
    BY DEF Stages
  <2> QED
    BY <1>1, <2>1, <2>2
<1>7. Closed(handled)'
  BY <1>1 DEF SaidInv, Closed
<1>8. pass' # "done" => stage' \in {"codes", "swapped"}
  BY <1>1 DEF SaidInv
<1> QED
  BY <1>4, <1>5, <1>6, <1>7, <1>8 DEF SaidInv

(* A word of its own is spoken whole.                                      *)
LEMMA SpeaksWord ==
  ASSUME ts \in TokenLists, NEW lo \in WordTokens, Way(lo) = "word"
  PROVE  <<Whole(lo)>> \in Seq(Items) /\ Speaks(<<Whole(lo)>>, {}, lo, lo)
<1> DEFINE parts == <<Text(lo)>>
<1>1. ~Spoken(Text(lo)) /\ Way(lo) \notin PhraseWays
  BY WayNumber DEF PhraseWays
<1>2. parts \in Seq(Parted)
  <2>1. Text(lo) \in Parted
    BY WordsListed DEF Parted
  <2> HIDE DEF Parted
  <2> QED
    BY <2>1
<1>3. <<Whole(lo)>> = [k \in DOMAIN parts |-> [token |-> lo, part |-> parts[k]]]
  BY DEF Whole
<1>4. FlattenSeq(parts) = Text(lo)
  BY FlattenOne
<1> HIDE DEF parts
<1>5. Speaks(<<Whole(lo)>>, {}, lo, lo)
  BY <1>1, <1>2, <1>3, <1>4, SpeaksParts
<1> QED
  BY <1>5, WholeItem

(* What the codes at hand speak when they sound, and when they do not.     *)
LEMMA CodesSpend ==
  ASSUME ts \in TokenLists, NEW lo, NEW hi, Pair(lo, hi), CodesSpeak(lo, hi), stage = "speak",
         NEW ipa, ph = <<>> => ipa = <<>>
  PROVE  /\ ipa = <<>> => Speaks(<<>>, ToSet(says), lo, hi)
         /\ ipa # <<>> => /\ [k \in DOMAIN says |-> Whole(says[k])] \in Seq(Items)
                          /\ Speaks([k \in DOMAIN says |-> Whole(says[k])], {}, lo, hi)
<1>1. /\ \/ says = <<lo>> /\ (phrase.matched => Formed(lo, hi))
         \/ phrase.matched /\ says = <<lo, hi>> /\ (Formed(lo, hi) => ph = <<>>)
      /\ IF phrase.matched THEN lo # hi /\ Way(lo) \in PhraseWays ELSE hi = lo /\ Way(lo) = "word"
  <2>1. /\ stage \in {"stress", "join", "speak"}
        /\ stage \in {"codes", "swapped", "stress", "join", "speak"}
    OBVIOUS
  <2> QED
    BY <2>1, Zenon DEF CodesSpeak
<1>2. says = <<lo>> => /\ [k \in DOMAIN says |-> Whole(says[k])] = <<Whole(lo)>>
                       /\ ToSet(says) = {lo}
  BY DEF ToSet
<1>3. says = <<lo, hi>> => /\ [k \in DOMAIN says |-> Whole(says[k])] = <<Whole(lo), Whole(hi)>>
                           /\ ToSet(says) = {lo, hi}
  <2>1. SUFFICES ASSUME says = <<lo, hi>>
                 PROVE  /\ [k \in DOMAIN says |-> Whole(says[k])] = <<Whole(lo), Whole(hi)>>
                        /\ ToSet(says) = {lo, hi}
    OBVIOUS
  <2>2. DOMAIN <<lo, hi>> = {1, 2} /\ <<lo, hi>>[1] = lo /\ <<lo, hi>>[2] = hi
    OBVIOUS
  <2>3. ToSet(<<lo, hi>>) = {lo, hi}
    BY <2>2 DEF ToSet
  <2>4. [k \in DOMAIN <<lo, hi>> |-> Whole(<<lo, hi>>[k])] = <<Whole(lo), Whole(hi)>>
    OBVIOUS
  <2> QED
    BY <2>1, <2>3, <2>4
<1>4. lo \in WordTokens /\ lo \in Nat
  BY PairNext DEF Pair
<1>5. Way(lo) \in PhraseWays => ~Spoken(Text(lo))
  BY WayNumber DEF PhraseWays
<1>6. Way(lo) = "word" => Way(lo) \notin PhraseWays
  BY DEF PhraseWays
<1>7. Way(lo) \in PhraseWays /\ lo # hi => hi = find_next_non_empty_word(lo + 1)
  BY DEF Pair
<1>8. CASE ~phrase.matched
  <2>1. hi = lo /\ Way(lo) = "word" /\ says = <<lo>>
    BY <1>1, <1>8
  <2>2. Speaks(<<>>, {lo, hi}, lo, hi)
    BY <1>6, <2>1, SpeaksNothing
  <2>3. {lo, hi} = {lo}
    BY <2>1
  <2>4. <<Whole(lo)>> \in Seq(Items) /\ Speaks(<<Whole(lo)>>, {}, lo, hi)
    BY <1>4, <2>1, SpeaksWord
  <2> QED
    BY <1>2, <2>1, <2>2, <2>3, <2>4
<1>9. CASE phrase.matched /\ says = <<lo>>
  <2>1. lo # hi /\ Way(lo) \in PhraseWays /\ ~Spoken(Text(lo))
    BY <1>1, <1>5, <1>9
  <2>2. Formed(lo, hi)
    <3>1. <<lo, hi>> # <<lo>>
      OBVIOUS
    <3> QED
      BY <1>1, <1>9, <3>1
  <2>3. /\ <<Whole(lo)>> \in Seq(Items)
        /\ Speaks(<<Whole(lo)>>, {}, lo, hi) /\ Speaks(<<>>, {lo}, lo, hi)
    BY <2>1, <2>2, SpeaksFirst
  <2> QED
    BY <1>2, <1>9, <2>3
<1>10. CASE phrase.matched /\ says # <<lo>>
  <2>1. /\ lo # hi /\ Way(lo) \in PhraseWays /\ ~Spoken(Text(lo)) /\ says = <<lo, hi>>
        /\ Formed(lo, hi) => ph = <<>>
    BY <1>1, <1>5, <1>10
  <2>2. Speaks(<<>>, {lo, hi}, lo, hi)
    BY <1>7, <2>1, SpeaksNothing
  <2>3. ipa # <<>> => /\ <<Whole(lo), Whole(hi)>> \in Seq(Items)
                      /\ Speaks(<<Whole(lo), Whole(hi)>>, {}, lo, hi)
    BY <2>1, SpeaksBoth
  <2> QED
    BY <1>3, <2>1, <2>2, <2>3
<1> QED
  BY <1>8, <1>9, <1>10

(* The codes at hand are spoken, if they have a sound.                     *)
LEMMA SpeakStep ==
  ASSUME SaidInv, Speak
  PROVE  SaidInv'
<1>1. /\ stage = "speak" /\ Utter(SoundOf(ph)) /\ stage' = "count"
      /\ t' = t /\ ti' = ti /\ ts' = ts /\ onset' = onset /\ handled' = handled /\ pass' = pass
  BY DEF Speak, SoundOf, input, passes
<1>2. PICK lo, hi : lo = t /\ hi = ti /\ Pair(lo, hi) /\ CodesSpeak(lo, hi)
  <2>1. PICK lo, hi : /\ lo = t /\ hi = ti /\ (stage \notin {"next", "done"} => Pair(lo, hi))
                      /\ CodesSpeak(lo, hi)
    BY DEF SaidInv, HandInv
  <2>2. stage \notin {"next", "done"}
    BY <1>1
  <2> QED
    BY <2>1, <2>2
<1>3. ts \in TokenLists /\ Spoke(out) /\ BehindInv /\ SpaceInv
  BY DEF SaidInv
<1>4. Frontier = lo /\ Takers = ToSet(handled)
  BY <1>1, <1>2 DEF Frontier, Takers
<1>5. PICK ipa, whole : ipa = SoundOf(ph) /\ whole = [k \in DOMAIN says |-> Whole(says[k])]
  OBVIOUS
<1>6. ph = <<>> => ipa = <<>>
  BY <1>5, NothingSpoken
<1>7. /\ ipa = <<>> => Speaks(<<>>, ToSet(says), lo, hi)
      /\ ipa # <<>> => whole \in Seq(Items) /\ Speaks(whole, {}, lo, hi)
  BY <1>1, <1>2, <1>3, <1>5, <1>6, CodesSpend
<1>8. Spoke(out)' /\ BehindInv' /\ SpaceInv'
  <2>1. CASE ipa = <<>>
    <3>1. out' = out /\ mute' = mute \cup ToSet(says) /\ first_word' = first_word
      <4>1. /\ out' = out /\ mute' = mute \cup ToSet(says)
            /\ first_word' = (first_word /\ ipa = <<>>)
        BY <1>1, <1>5, <2>1 DEF Utter
      <4>2. first_word \in BOOLEAN
        BY <1>3 DEF SpaceInv
      <4> QED
        BY <2>1, <4>1, <4>2
    <3>2. out \o <<>> = out
      <4>1. \A S : \A x \in Seq(S) : x \o <<>> = x
        OBVIOUS
      <4> QED
        BY <1>3, <4>1 DEF Spoke, Closed
    <3>3. Spoke(<<>>) /\ SaidOf(<<>>) = <<>>
      <4>1. [k \in DOMAIN <<>> |-> (<<>>)[k].says] = <<>>
        OBVIOUS
      <4> QED
        BY <4>1, FlattenNothing DEF SaidOf, Spoke, Closed
    <3>4. PICK quiet : quiet = ToSet(says)
      OBVIOUS
    <3>5. Speaks(SaidOf(<<>>), quiet, lo, hi)
      BY <1>7, <2>1, <3>3, <3>4
    <3>6. \A k \in DOMAIN <<>> : (<<>>)[k].space = (k > 1 \/ out # <<>>)
      OBVIOUS
    <3>7. out' = out \o <<>> /\ mute' = mute \cup quiet /\ first_word' = (first_word /\ <<>> = <<>>)
      <4>1. first_word \in BOOLEAN
        BY <1>3 DEF SpaceInv
      <4> QED
        BY <3>1, <3>2, <3>4, <4>1
    <3> QED
      BY <1>1, <1>2, <1>3, <1>4, <3>3, <3>5, <3>6, <3>7, ForwardStep
  <2>2. CASE ipa # <<>>
    <3>1. PICK p : p = Piece(~first_word, ipa, whole)
      OBVIOUS
    <3>2. p.says = whole /\ p.space = ~first_word
      BY <3>1 DEF Piece
    <3>3. out' = Append(out, p) /\ mute' = mute /\ first_word' = (first_word /\ ipa = <<>>)
      BY <1>1, <1>5, <2>2, <3>1 DEF Utter
    <3>4. Append(out, p) = out \o <<p>>
      <4>1. \A S : \A x \in Seq(S) : \A e \in S : Append(x, e) = x \o <<e>>
        BY AppendIsConcat
      <4>2. PICK A : A = {out[k] : k \in DOMAIN out} /\ out \in Seq(A)
        BY <1>3 DEF Spoke, Closed
      <4>3. out \in Seq(A \cup {p}) /\ p \in A \cup {p}
        BY <4>2
      <4> QED
        BY <4>1, <4>3
    <3>5. Spoke(<<p>>) /\ SaidOf(<<p>>) = whole
      BY <1>7, <2>2, <3>2, SaidByOne
    <3>6. Speaks(SaidOf(<<p>>), {}, lo, hi)
      BY <1>7, <2>2, <3>5
    <3>7. \A k \in DOMAIN <<p>> : <<p>>[k].space = (k > 1 \/ out # <<>>)
      <4>1. p.space = (out # <<>>)
        BY <1>3, <3>2 DEF SpaceInv
      <4>2. \A k \in DOMAIN <<p>> : k = 1 /\ <<p>>[k] = p
        OBVIOUS
      <4>3. (1 > 1 \/ out # <<>>) = (out # <<>>)
        BY OneOrTwo
      <4> QED
        BY <4>1, <4>2, <4>3
    <3>8. /\ out' = out \o <<p>> /\ mute' = mute \cup {}
          /\ first_word' = (first_word /\ <<p>> = <<>>)
      <4>1. <<p>> # <<>>
        OBVIOUS
      <4> QED
        BY <2>2, <3>3, <3>4, <4>1
    <3> QED
      BY <1>1, <1>2, <1>3, <1>4, <3>5, <3>6, <3>7, <3>8, ForwardStep
  <2> QED
    BY <2>1, <2>2
<1>9. HandInv'
  BY <1>1, <1>2, CountedHand
<1>10. ts' \in TokenLists /\ stage' \in Stages /\ ti' \in Nat \ {0} /\ Closed(handled)'
  <2>1. "count" \in Stages
    BY DEF Stages
  <2> QED
    BY <1>1, <2>1 DEF SaidInv, Closed
<1>11. pass' # "done" => stage' \in {"codes", "swapped"}
  BY <1>1 DEF SaidInv
<1> QED
  BY <1>8, <1>9, <1>10, <1>11 DEF SaidInv

(* A word that is taken is a pair by itself; the next word, if there is    *)
(* one, is the second of a pair.                                           *)
LEMMA PairOfOne ==
  ASSUME NEW lo \in WordTokens
  PROVE  Pair(lo, lo)
BY DEF Pair

PairWays == PhraseWays \cup {"clitic", "split phrase"}

(* The word and the next one are a pair when the word is spoken as the     *)
(* first of one.                                                           *)
LEMMA PairOfTwo ==
  ASSUME ts \in TokenLists, NEW lo \in WordTokens, NEW hi,
         hi = find_next_non_empty_word(lo + 1), Way(lo) \in PairWays
  PROVE  Pair(lo, hi) /\ lo # hi
<1>1. PICK next : next = lo + 1
  OBVIOUS
<1>2. \A i \in WordTokens : i \in Nat
  BY WordsListed
<1>3. lo \in Nat
  BY <1>2
<1>4. next \in Nat
  BY <1>1, <1>3
<1>5. hi = find_next_non_empty_word(next)
  BY <1>1
<1>6. hi # 0
  BY WayPairs DEF PairWays
<1>7. hi \in WordTokens /\ hi >= next
  BY <1>4, <1>5, <1>6, NextWord
<1>8. hi > lo
  <2>1. \A x, y, z \in Nat : x = y + 1 /\ z >= x => z > y /\ y # z
    OBVIOUS
  <2>2. hi \in Nat
    BY <1>2, <1>7
  <2> QED
    BY <1>1, <1>3, <1>4, <1>7, <2>1, <2>2
<1>9. lo # hi
  BY <1>2, <1>7, <1>8
<1> QED
  BY <1>7, <1>8, <1>9, Zenon DEF Pair

(* What is spoken at once, by a handler of one token.                      *)
LEMMA OneConsumedStep ==
  ASSUME SaidInv, ExpandNumber \/ SpellAcronym \/ ExpandAbbreviation
  PROVE  SaidInv'
<1>1. ts \in TokenLists
  BY DEF SaidInv
<1>2. CASE ExpandNumber
  <2>1. stage = "next" /\ ti \in WordTokens /\ Way(ti) = "number" /\ ti' = ti
    BY <1>2 DEF ExpandNumber, Consumes, Takes
  <2>2. PICK lo, o, quiet : lo = ti /\ o = expand_number_token(ti) /\ quiet = {}
    OBVIOUS
  <2>3. lo \in WordTokens /\ Spends(o, quiet, lo, lo)
    BY <1>1, <2>1, <2>2, NumberSpends
  <2>4. Consumes("number", lo, o, quiet)
    BY <1>2, <2>2 DEF ExpandNumber, Consumes, Takes
  <2> QED
    BY <2>1, <2>2, <2>3, <2>4, PairOfOne, SpendsStep
<1>3. CASE SpellAcronym
  <2>1. stage = "next" /\ ti \in WordTokens /\ Way(ti) = "acronym" /\ ti' = ti
    BY <1>3 DEF SpellAcronym, Spells, Consumes, Takes
  <2>2. PICK lo, o, quiet : /\ lo = ti /\ o = spell_acronym_groups(ti, GroupSounds(ti))
                            /\ quiet = {i \in {ti} : Silent(GroupSounds(ti)) # {}}
    OBVIOUS
  <2>3. lo \in WordTokens /\ Spends(o, quiet, lo, lo)
    BY <1>1, <2>1, <2>2, AcronymSpends
  <2>4. Consumes("acronym", lo, o, quiet)
    BY <1>3, <2>2 DEF SpellAcronym, Spells, Consumes, Takes
  <2> QED
    BY <2>1, <2>2, <2>3, <2>4, PairOfOne, SpendsStep
<1>4. CASE ExpandAbbreviation
  <2>1. stage = "next" /\ ti \in WordTokens /\ Way(ti) = "abbreviation" /\ ti' = ti
    BY <1>4 DEF ExpandAbbreviation, Consumes, Takes
  <2>2. PICK lo, o, quiet : lo = ti /\ o = emit_spelled_abbreviation(ti) /\ quiet = {}
    OBVIOUS
  <2>3. lo \in WordTokens /\ Spends(o, quiet, lo, lo)
    BY <1>1, <2>1, <2>2, AbbreviationSpends
  <2>4. Consumes("abbreviation", lo, o, quiet)
    BY <1>4, <2>2 DEF ExpandAbbreviation, Consumes, Takes
  <2> QED
    BY <2>1, <2>2, <2>3, <2>4, PairOfOne, SpendsStep
<1> QED
  BY <1>2, <1>3, <1>4

(* And by a handler of a pair.                                             *)
LEMMA PairConsumedStep ==
  ASSUME SaidInv, EmitClitic \/ EmitSplitPhrase
  PROVE  SaidInv'
<1>1. ts \in TokenLists
  BY DEF SaidInv
<1>2. CASE EmitClitic
  <2>1. stage = "next" /\ ti \in WordTokens /\ Way(ti) = "clitic" /\ ti' = Second
    BY <1>2 DEF EmitClitic, Consumes, Takes
  <2>2. PICK lo, hi, o, quiet : /\ lo = ti /\ hi = Second /\ quiet = {}
                                /\ o = try_emit_direct_clitic(ti, Second)
    OBVIOUS
  <2>3. Pair(lo, hi) /\ lo # hi
    BY <1>1, <2>1, <2>2, PairOfTwo DEF Second, PairWays
  <2>4. Spends(o, quiet, lo, hi)
    BY <1>1, <2>1, <2>2, <2>3, CliticSpends
  <2>5. Consumes("clitic", hi, o, quiet)
    BY <1>2, <2>2 DEF EmitClitic, Consumes, Takes
  <2> QED
    BY <2>1, <2>2, <2>3, <2>4, <2>5, SpendsStep
<1>3. CASE EmitSplitPhrase
  <2>1. stage = "next" /\ ti \in WordTokens /\ Way(ti) = "split phrase" /\ ti' = Second
    BY <1>3 DEF EmitSplitPhrase, Consumes, Takes
  <2>2. PICK lo, hi, o, quiet : /\ lo = ti /\ hi = Second /\ quiet = {}
                                /\ o = try_emit_split_phrase(ti, Second)
    OBVIOUS
  <2>3. Pair(lo, hi) /\ lo # hi
    BY <1>1, <2>1, <2>2, PairOfTwo DEF Second, PairWays
  <2>4. Spends(o, quiet, lo, hi)
    BY <1>1, <2>1, <2>2, <2>3, SplitSpends
  <2>5. Consumes("split phrase", hi, o, quiet)
    BY <1>3, <2>2 DEF EmitSplitPhrase, Consumes, Takes
  <2> QED
    BY <2>1, <2>2, <2>3, <2>4, <2>5, SpendsStep
<1> QED
  BY <1>2, <1>3

(* While the codes of a word or a pair are at hand nothing new is behind.  *)
LEMMA HandStep ==
  ASSUME NEW lo, NEW hi, SaidInv, Pair(lo, hi), lo = t', hi = ti', t' = Frontier,
         stage \notin {"count", "done"}, stage' \in {"codes", "swapped", "stress", "join", "speak"},
         CodesSpeak(lo, hi)', ts' = ts, onset' = onset, out' = out, mute' = mute,
         first_word' = first_word, handled' = handled,
         pass' # "done" => stage' \in {"codes", "swapped"}
  PROVE  SaidInv'
<1>1. Frontier' = Frontier /\ Takers' = Takers
  <2>1. stage' \notin {"next", "done"} /\ stage' # "count" /\ stage # "count"
    OBVIOUS
  <2> QED
    BY <2>1 DEF Frontier, Takers
<1>2. BehindInv' /\ SpaceInv'
  BY <1>1, BehindStands, SpaceStands DEF SaidInv
<1>3. HandInv'
  <2>1. Pair(lo, hi)'
    BY PairStands
  <2> QED
    BY <2>1, Zenon DEF HandInv
<1>4. ts' \in TokenLists /\ stage' \in Stages /\ ti' \in Nat \ {0}
  <2>1. {"codes", "swapped", "stress", "join", "speak"} \subseteq Stages
    BY DEF Stages
  <2>2. hi \in Nat \ {0}
    BY PairNext DEF SaidInv
  <2> QED
    BY <2>1, <2>2 DEF SaidInv
<1>5. Closed(handled)' /\ Spoke(out)'
  BY DEF SaidInv, Closed, Spoke
<1> QED
  BY <1>2, <1>3, <1>4, <1>5 DEF SaidInv

(* The codes that are looked up speak what the handler took.               *)
LEMMA FindsStep ==
  ASSUME NEW lo, NEW hi, NEW way, NEW codes, NEW flag, NEW matched,
         SaidInv, lo = ti, Pair(lo, hi), Finds(way, hi, codes, flag, matched),
         IF matched.matched THEN lo # hi /\ way \in PhraseWays ELSE hi = lo /\ way = "word"
  PROVE  SaidInv'
<1>1. /\ stage = "next" /\ stage' = "codes" /\ t' = lo /\ ti' = hi /\ Way(lo) = way
      /\ ts' = ts /\ onset' = onset /\ out' = out /\ mute' = mute /\ handled' = handled
      /\ first_word' = first_word /\ phrase' = matched
      /\ says' = IF matched.matched THEN <<lo, hi>> ELSE <<lo>>
  BY DEF Finds, Takes, input
<1>2. Frontier = lo
  BY <1>1 DEF Frontier
<1>3. CodesSpeak(lo, hi)'
  <2>1. stage' \in {"codes", "swapped"} /\ stage' \notin {"stress", "join", "speak"}
    BY <1>1
  <2>2. Way(lo)' = way
    BY <1>1, PairStands
  <2>3. says' = IF phrase'.matched THEN <<lo, hi>> ELSE <<lo>>
    BY <1>1
  <2>4. IF phrase'.matched THEN lo # hi /\ Way(lo)' \in PhraseWays
        ELSE hi = lo /\ Way(lo)' = "word"
    BY <1>1, <2>2
  <2> QED
    BY <2>1, <2>3, <2>4, Zenon DEF CodesSpeak, PhraseWays
<1>4. /\ stage \notin {"count", "done"} /\ stage' \in {"codes", "swapped"}
      /\ stage' \in {"codes", "swapped", "stress", "join", "speak"}
  BY <1>1
<1> QED
  BY <1>1, <1>2, <1>3, <1>4, HandStep

(* The handlers that look codes up.                                        *)
LEMMA FoundStep ==
  ASSUME SaidInv, MatchStaticPhrase \/ MatchLoadedPhrase \/ LookUp
  PROVE  SaidInv'
<1>1. ts \in TokenLists
  BY DEF SaidInv
<1>2. CASE MatchStaticPhrase
  <2>1. ti \in WordTokens /\ Way(ti) = "static phrase"
    BY <1>2 DEF MatchStaticPhrase, Finds, Takes
  <2>2. PICK lo, hi, codes, matched :
          /\ lo = ti /\ hi = Second /\ matched = [NoPhrase EXCEPT !.matched = TRUE]
          /\ codes = STATIC_PHRASE_CODES[build_lower_bigram(ti, Second)]
    OBVIOUS
  <2>3. "static phrase" \in PhraseWays /\ Way(lo) \in PairWays
    BY <2>1, <2>2 DEF PhraseWays, PairWays
  <2>4. Pair(lo, hi) /\ lo # hi
    BY <1>1, <2>1, <2>2, <2>3, PairOfTwo DEF Second
  <2>5. matched.matched = TRUE
    BY <2>2 DEF NoPhrase
  <2>6. Finds("static phrase", hi, codes, FALSE, matched)
    BY <1>2, <2>2 DEF MatchStaticPhrase, Finds, Takes
  <2> QED
    BY <2>2, <2>3, <2>4, <2>5, <2>6, FindsStep
<1>3. CASE MatchLoadedPhrase
  <2>1. ti \in WordTokens /\ Way(ti) = "loaded phrase"
    BY <1>3 DEF MatchLoadedPhrase, Finds, Takes
  <2>2. PICK lo, hi, key, codes, matched :
          /\ lo = ti /\ hi = Second /\ key = build_lower_bigram(ti, Second)
          /\ codes = phrase_dict[key]
          /\ matched = [matched |-> TRUE, key |-> key,
                        the |-> Ends(phrase_dict[key], Chars("D@2")) /\ the_before_vowel(Second)]
    OBVIOUS
  <2>3. "loaded phrase" \in PhraseWays /\ Way(lo) \in PairWays
    BY <2>1, <2>2 DEF PhraseWays, PairWays
  <2>4. Pair(lo, hi) /\ lo # hi
    BY <1>1, <2>1, <2>2, <2>3, PairOfTwo DEF Second
  <2>5. matched.matched = TRUE
    BY <2>2
  <2>6. Finds("loaded phrase", hi, codes, FALSE, matched)
    BY <1>3, <2>2 DEF MatchLoadedPhrase, Finds, Takes
  <2> QED
    BY <2>2, <2>3, <2>4, <2>5, <2>6, FindsStep
<1>4. CASE LookUp
  <2>1. ti \in WordTokens /\ Way(ti) = "word"
    BY <1>4 DEF LookUp, Finds, Takes
  <2>2. PICK lo, codes, flag, matched :
          /\ lo = ti /\ codes = RawCodes(Lower(ti)) /\ flag = Strend(Lower(ti))
          /\ matched = NoPhrase
    OBVIOUS
  <2>3. Pair(lo, lo) /\ matched.matched = FALSE
    BY <2>1, <2>2, PairOfOne DEF NoPhrase
  <2>4. Finds("word", lo, codes, flag, matched)
    BY <1>4, <2>2 DEF LookUp, Finds, Takes
  <2> QED
    BY <2>2, <2>3, <2>4, FindsStep
<1> QED
  BY <1>2, <1>3, <1>4

(* At hand is the word or the pair that the handler took.                  *)
LEMMA AtHand ==
  ASSUME SaidInv, stage \in {"codes", "swapped", "stress", "join"}
  PROVE  /\ \E lo, hi : lo = t /\ hi = ti /\ Pair(lo, hi) /\ CodesSpeak(lo, hi)
         /\ Frontier = t /\ stage \notin {"next", "count", "done"}
<1>1. stage \notin {"next", "done"} /\ stage \notin {"next", "count", "done"} /\ stage # "count"
  OBVIOUS
<1>2. PICK lo, hi : lo = t /\ hi = ti /\ Pair(lo, hi) /\ CodesSpeak(lo, hi)
  BY <1>1, Zenon DEF SaidInv, HandInv
<1>3. Frontier = t
  BY <1>1 DEF Frontier
<1> QED
  BY <1>1, <1>2, <1>3, Zenon

(* A pass, and an entry for the open window, change the codes only.        *)
LEMMA PassOverStep ==
  ASSUME SaidInv, PassOver
  PROVE  SaidInv'
<1>1. pass # "done"
  <2>1. \A x \in {"strip", "segments", "primary", "shift", "place", "clean up", "trochee",
                  "final", "reduce"} : x # "done"
    OBVIOUS
  <2> QED
    BY <2>1 DEF PassOver, Pass, Strip, ChangeSegments, InsertPrimary, ShiftPrimary, PlaceSecondary,
                CleanUp, CompoundPrefix, FinalSecondary, ReduceVowels
<1>2. stage \in {"codes", "swapped"} /\ stage \in {"codes", "swapped", "stress", "join"}
  BY <1>1 DEF SaidInv
<1>3. UNCHANGED sentence
  BY DEF PassOver
<1>4. /\ ts' = ts /\ onset' = onset /\ out' = out /\ mute' = mute /\ first_word' = first_word
      /\ handled' = handled /\ stage' = stage /\ t' = t /\ ti' = ti /\ says' = says
      /\ phrase' = phrase
  BY <1>3 DEF sentence
<1>5. PICK lo, hi : lo = t /\ hi = ti /\ Pair(lo, hi) /\ CodesSpeak(lo, hi)
  BY <1>2, AtHand
<1>6. CodesSpeak(lo, hi)'
  <2>1. Way(lo)' = Way(lo)
    BY <1>4, PairStands
  <2>2. stage' \in {"codes", "swapped"} /\ stage' \notin {"stress", "join", "speak"}
    BY <1>2, <1>4
  <2>3. /\ says' = IF phrase'.matched THEN <<lo, hi>> ELSE <<lo>>
        /\ IF phrase'.matched THEN lo # hi /\ Way(lo)' \in PhraseWays
           ELSE hi = lo /\ Way(lo)' = "word"
    <3>1. stage \in {"codes", "swapped", "stress", "join", "speak"}
      BY <1>2
    <3> QED
      BY <1>2, <1>4, <1>5, <2>1, <3>1 DEF CodesSpeak
  <2> QED
    BY <2>2, <2>3, Zenon DEF CodesSpeak, PhraseWays
<1>7. Frontier = t /\ stage \notin {"count", "done"}
  BY <1>2, AtHand
<1>8. stage' \in {"codes", "swapped"} /\ stage' \in {"codes", "swapped", "stress", "join", "speak"}
  BY <1>2, <1>4
<1> QED
  BY <1>4, <1>5, <1>6, <1>7, <1>8, HandStep

(* An entry for the open window changes the codes, and not what they       *)
(* speak.                                                                  *)
LEMMA SwapByWindowStep ==
  ASSUME SaidInv, SwapByWindow
  PROVE  SaidInv'
<1>1. /\ stage = "codes" /\ stage' = "swapped"
      /\ ts' = ts /\ onset' = onset /\ out' = out /\ mute' = mute /\ first_word' = first_word
      /\ handled' = handled /\ t' = t /\ ti' = ti /\ says' = says /\ phrase' = phrase
  BY DEF SwapByWindow, input
<1>2. stage \in {"codes", "swapped"} /\ stage \in {"codes", "swapped", "stress", "join"}
  BY <1>1
<1>3. PICK lo, hi : lo = t /\ hi = ti /\ Pair(lo, hi) /\ CodesSpeak(lo, hi)
  BY <1>2, AtHand
<1>4. CodesSpeak(lo, hi)'
  <2>1. Way(lo)' = Way(lo)
    BY <1>1, PairStands
  <2>2. stage' \in {"codes", "swapped"} /\ stage' \notin {"stress", "join", "speak"}
    BY <1>1
  <2>3. /\ says' = IF phrase'.matched THEN <<lo, hi>> ELSE <<lo>>
        /\ IF phrase'.matched THEN lo # hi /\ Way(lo)' \in PhraseWays
           ELSE hi = lo /\ Way(lo)' = "word"
    <3>1. stage \in {"codes", "swapped", "stress", "join", "speak"}
      BY <1>1
    <3> QED
      BY <1>1, <1>2, <1>3, <2>1, <3>1 DEF CodesSpeak
  <2> QED
    BY <2>2, <2>3, Zenon DEF CodesSpeak, PhraseWays
<1>5. Frontier = t /\ stage \notin {"count", "done"}
  BY <1>2, AtHand
<1>6. stage' \in {"codes", "swapped"} /\ stage' \in {"codes", "swapped", "stress", "join", "speak"}
  BY <1>1
<1> QED
  BY <1>1, <1>3, <1>4, <1>5, <1>6, HandStep

(* A fixed form speaks the first word of a pair, and only of it.           *)
LEMMA SwapByPlaceStep ==
  ASSUME SaidInv, SwapByPlace
  PROVE  SaidInv'
<1>1. PICK codes, form :
        /\ codes = apply_atend_override(apply_atstart_override(ph))
        /\ form = apply_lemma_override(codes)
        /\ ph' = IF form = "" THEN codes ELSE Chars(form)
        /\ says' = IF form = "" THEN says ELSE <<t>>
        /\ pass' = "done"
  <2>1. PICK codes : codes = apply_atend_override(apply_atstart_override(ph))
    OBVIOUS
  <2>2. PICK form : form = apply_lemma_override(codes)
    OBVIOUS
  <2>3. KeepForm(codes, form)
    BY <2>1, <2>2 DEF SwapByPlace, FixForm, KeepForm, Keep, Fresh
  <2> QED
    BY <2>1, <2>2, <2>3 DEF KeepForm, Keep, Fresh
<1>2. /\ stage \in {"codes", "swapped"} /\ stage' = "stress"
      /\ ts' = ts /\ onset' = onset /\ out' = out /\ mute' = mute /\ first_word' = first_word
      /\ handled' = handled /\ t' = t /\ ti' = ti /\ phrase' = phrase
  BY DEF SwapByPlace, input
<1>3. stage \in {"codes", "swapped", "stress", "join"}
  BY <1>2
<1>4. PICK lo, hi : lo = t /\ hi = ti /\ Pair(lo, hi) /\ CodesSpeak(lo, hi)
  BY <1>3, AtHand
<1>5. /\ says = IF phrase.matched THEN <<lo, hi>> ELSE <<lo>>
      /\ IF phrase.matched THEN lo # hi /\ Way(lo) \in PhraseWays ELSE hi = lo /\ Way(lo) = "word"
  <2>1. stage \in {"codes", "swapped", "stress", "join", "speak"}
    BY <1>2
  <2> QED
    BY <1>2, <1>4, <2>1, Zenon DEF CodesSpeak
<1>6. ts \in TokenLists
  BY DEF SaidInv
<1>7. CodesSpeak(lo, hi)'
  <2>1. Way(lo)' = Way(lo) /\ Formed(lo, hi)' = Formed(lo, hi)
    BY <1>2, PairStands
  <2>2. /\ stage' \notin {"codes", "swapped"} /\ stage' \in {"stress", "join", "speak"}
        /\ stage' \in {"codes", "swapped", "stress", "join", "speak"}
    BY <1>2
  <2>3. IF phrase'.matched THEN lo # hi /\ Way(lo)' \in PhraseWays
        ELSE hi = lo /\ Way(lo)' = "word"
    BY <1>2, <1>5, <2>1
  <2>4. \/ says' = <<lo>> /\ (phrase'.matched => Formed(lo, hi)')
        \/ phrase'.matched /\ says' = <<lo, hi>> /\ (Formed(lo, hi)' => ph' = <<>>)
    <3>1. CASE ~phrase.matched
      BY <1>1, <1>2, <1>4, <1>5, <3>1
    <3>2. CASE phrase.matched
      <4>1. t # ti /\ Pair(t, ti)
        BY <1>4, <1>5, <3>2
      <4>2. /\ form # "" => Formed(t, ti)
            /\ form = "" /\ Formed(t, ti) => codes = <<>>
        BY <1>1, <1>6, <3>2, <4>1, FormsOfPairs
      <4>3. Formed(lo, hi) <=> Formed(t, ti)
        BY <1>4
      <4> QED
        BY <1>1, <1>2, <1>4, <1>5, <2>1, <3>2, <4>2, <4>3
    <3> QED
      BY <3>1, <3>2
  <2> QED
    BY <2>2, <2>3, <2>4, Zenon DEF CodesSpeak, PhraseWays
<1>8. Frontier = t /\ stage \notin {"count", "done"}
  BY <1>3, AtHand
<1>9. stage' \in {"codes", "swapped", "stress", "join", "speak"}
  BY <1>2
<1> QED
  BY <1>1, <1>2, <1>4, <1>7, <1>8, <1>9, HandStep

(* What the sentence does to the codes leaves what has no codes alone.     *)
LEMMA SentenceStep ==
  ASSUME SaidInv, StressInSentence \/ JoinToNext
  PROVE  SaidInv'
<1>1. /\ stage \in {"stress", "join"} /\ stage' \in {"join", "speak"} /\ pass' = "done"
      /\ ts' = ts /\ onset' = onset /\ out' = out /\ mute' = mute /\ first_word' = first_word
      /\ handled' = handled /\ t' = t /\ ti' = ti /\ says' = says /\ phrase' = phrase
  BY DEF StressInSentence, JoinToNext, Keep, Fresh, input
<1>2. ph = <<>> => ph' = <<>>
  <2>1. CASE StressInSentence
    <3>1. ph' = apply_step_c(apply_step_b(ph, Lower(t)), Lower(t))
      BY <2>1 DEF StressInSentence, Keep, Fresh
    <3>2. PICK word : word = Lower(t)
      OBVIOUS
    <3>3. ph' = apply_step_c(apply_step_b(ph, word), word)
      BY <3>1, <3>2
    <3> QED
      BY <3>3, NothingStressed
  <2>2. CASE JoinToNext
    BY <2>2, NothingJoined DEF JoinToNext, Keep, Fresh
  <2> QED
    BY <2>1, <2>2
<1>3. stage \in {"codes", "swapped", "stress", "join"}
  BY <1>1
<1>4. PICK lo, hi : lo = t /\ hi = ti /\ Pair(lo, hi) /\ CodesSpeak(lo, hi)
  BY <1>3, AtHand
<1>5. /\ \/ says = <<lo>> /\ (phrase.matched => Formed(lo, hi))
         \/ phrase.matched /\ says = <<lo, hi>> /\ (Formed(lo, hi) => ph = <<>>)
      /\ IF phrase.matched THEN lo # hi /\ Way(lo) \in PhraseWays ELSE hi = lo /\ Way(lo) = "word"
  <2>1. /\ stage \in {"stress", "join", "speak"}
        /\ stage \in {"codes", "swapped", "stress", "join", "speak"}
    BY <1>1
  <2> QED
    BY <1>4, <2>1, Zenon DEF CodesSpeak
<1>6. CodesSpeak(lo, hi)'
  <2>1. Way(lo)' = Way(lo) /\ Formed(lo, hi)' = Formed(lo, hi)
    BY <1>1, PairStands
  <2>2. /\ stage' \notin {"codes", "swapped"} /\ stage' \in {"stress", "join", "speak"}
        /\ stage' \in {"codes", "swapped", "stress", "join", "speak"}
    BY <1>1
  <2>3. IF phrase'.matched THEN lo # hi /\ Way(lo)' \in PhraseWays
        ELSE hi = lo /\ Way(lo)' = "word"
    BY <1>1, <1>5, <2>1
  <2>4. \/ says' = <<lo>> /\ (phrase'.matched => Formed(lo, hi)')
        \/ phrase'.matched /\ says' = <<lo, hi>> /\ (Formed(lo, hi)' => ph' = <<>>)
    BY <1>1, <1>2, <1>5, <2>1
  <2> QED
    BY <2>2, <2>3, <2>4, Zenon DEF CodesSpeak, PhraseWays
<1>7. Frontier = t /\ stage \notin {"count", "done"}
  BY <1>3, AtHand
<1>8. stage' \in {"codes", "swapped", "stress", "join", "speak"}
  BY <1>1
<1> QED
  BY <1>1, <1>4, <1>6, <1>7, <1>8, HandStep

(* No codes are at hand when the next token is to be taken.                *)
LEMMA IdleHand ==
  ASSUME stage' \in {"next", "done"}
  PROVE  HandInv'
<1>1. PICK lo, hi : lo = t' /\ hi = ti'
  OBVIOUS
<1>2. CodesSpeak(lo, hi)'
  <2>1. /\ stage' \notin {"codes", "swapped"} /\ stage' \notin {"stress", "join", "speak"}
        /\ stage' \notin {"codes", "swapped", "stress", "join", "speak"}
    OBVIOUS
  <2> QED
    BY <2>1, Zenon DEF CodesSpeak
<1> QED
  BY <1>1, <1>2, Zenon DEF HandInv

(* A sequence is one over what is in it.                                   *)
LEMMA ClosedOf ==
  ASSUME NEW S, NEW x \in Seq(S)
  PROVE  Closed(x)
<1>1. Len(x) \in Nat /\ DOMAIN x = 1 .. Len(x) /\ x = [k \in 1 .. Len(x) |-> x[k]]
  OBVIOUS
<1>2. PICK n \in Nat : n = Len(x)
  BY <1>1
<1> QED
  BY <1>1, <1>2, ClosedOver

(* A token that was spoken is counted among those that had a handler.      *)
LEMMA CountStep ==
  ASSUME SaidInv, UpdateCounters
  PROVE  SaidInv'
<1>1. /\ stage = "count" /\ stage' = "next" /\ ti' = ti + 1 /\ handled' = Append(handled, t)
      /\ ts' = ts /\ onset' = onset /\ out' = out /\ mute' = mute /\ first_word' = first_word
      /\ pass' = pass
  BY DEF UpdateCounters, input, passes
<1>2. Closed(handled') /\ ToSet(handled') = ToSet(handled) \cup {t}
  <2>1. PICK S : handled \in Seq(S)
    BY DEF SaidInv, Closed
  <2>2. PICK A : A = S \cup {t} /\ handled \in Seq(A) /\ t \in A
    <3>1. \A B, C : B \subseteq C => Seq(B) \subseteq Seq(C)
      OBVIOUS
    <3>2. PICK A : A = S \cup {t}
      OBVIOUS
    <3>3. handled \in Seq(A) /\ t \in A
      BY <2>1, <3>1, <3>2
    <3> QED
      BY <3>2, <3>3
  <2>3. /\ Append(handled, t) \in Seq(A) /\ Len(Append(handled, t)) = Len(handled) + 1
        /\ \A k \in 1 .. Len(handled) : Append(handled, t)[k] = handled[k]
        /\ Append(handled, t)[Len(handled) + 1] = t
    BY <2>2
  <2>4. Closed(handled')
    BY <1>1, <2>3, ClosedOf
  <2>5. Len(handled) \in Nat /\ DOMAIN handled = 1 .. Len(handled)
        /\ DOMAIN (handled') = 1 .. Len(handled) + 1
    BY <1>1, <2>2, <2>3
  <2>6. ToSet(handled') = ToSet(handled) \cup {t}
    BY <1>1, <2>3, <2>5 DEF ToSet
  <2> QED
    BY <2>4, <2>6
<1>3. Takers' = Takers /\ Frontier' = Frontier
  BY <1>1, <1>2 DEF Takers, Frontier
<1>4. BehindInv' /\ SpaceInv'
  BY <1>1, <1>3, BehindStands, SpaceStands DEF SaidInv
<1>5. HandInv'
  BY <1>1, IdleHand
<1>6. ts' \in TokenLists /\ stage' \in Stages /\ ti' \in Nat \ {0} /\ Spoke(out)'
  BY <1>1 DEF SaidInv, Stages, Spoke, Closed
<1>7. pass' = "done"
  BY <1>1 DEF SaidInv
<1> QED
  BY <1>2, <1>4, <1>5, <1>6, <1>7 DEF SaidInv, Closed

(* The tokens in between.                                                  *)
LEMMA SkipStep ==
  ASSUME SaidInv, SkipPunctuation
  PROVE  SaidInv'
<1>1. /\ stage = "next" /\ stage' = "next" /\ ti' = ti + 1 /\ handled' = handled
      /\ ts' = ts /\ onset' = onset /\ out' = out /\ mute' = mute /\ first_word' = first_word
      /\ pass' = pass /\ ti \notin WordTokens
  BY DEF SkipPunctuation, input, passes
<1>2. /\ Takers' = Takers /\ Frontier = ti /\ Frontier' = ti + 1
      /\ ti \in Nat /\ ts \in TokenLists
  BY <1>1 DEF Takers, Frontier, SaidInv
<1>3. PICK said, silent, takers, front :
        /\ said = AllSaid /\ silent = mute /\ takers = Takers /\ front = ti
        /\ Past(said, silent, takers, front)
  BY <1>2 DEF SaidInv, BehindInv
<1>4. PICK lo \in Nat : lo = front
  BY <1>2, <1>3
<1>5. Past(said, silent, takers, lo + 1)
  <2>1. \A i \in WordTokens : i < lo + 1 => i < lo
    <3>1. SUFFICES ASSUME NEW i \in WordTokens, i < lo + 1 PROVE i < lo
      OBVIOUS
    <3>2. i \in Nat /\ i # lo
      BY <1>1, <1>2, <1>3, <1>4, WordsListed
    <3> QED
      BY <3>1, <3>2
  <2>2. Past(said, silent, takers, lo)
    BY <1>3, <1>4
  <2>3. \A k \in DOMAIN said : said[k].token < lo + 1
    <3>1. \A x \in Items : x.token \in Nat
      BY DEF Items
    <3>2. \A k \in DOMAIN said : said[k] \in Items
      <4>1. said \in Seq(Items)
        BY <2>2 DEF Past
      <4> HIDE DEF Items
      <4> QED
        BY <4>1
    <3>3. \A k \in DOMAIN said : said[k].token \in Nat /\ said[k].token < lo
      BY <2>2, <3>1, <3>2 DEF Past
    <3> QED
      BY <3>3
  <2>4. \A i \in silent : i \in Nat /\ i < lo + 1
    BY <2>2 DEF Past
  <2>5. \A j \in takers : /\ j \in Nat /\ j < lo + 1
                          /\ Way(j) \in PhraseWays => find_next_non_empty_word(j + 1) < lo + 1
    <3>1. SUFFICES ASSUME NEW j \in takers
                   PROVE  /\ j \in Nat /\ j < lo + 1
                          /\ Way(j) \in PhraseWays => find_next_non_empty_word(j + 1) < lo + 1
      OBVIOUS
    <3>2. /\ j \in Nat /\ j < lo
          /\ Way(j) \in PhraseWays => find_next_non_empty_word(j + 1) < lo
      BY <2>2 DEF Past
    <3>3. PICK f : f = find_next_non_empty_word(j + 1)
      OBVIOUS
    <3>4. f \in Nat
      <4>1. CASE f = 0
        BY <4>1
      <4>2. CASE f # 0
        <5>1. j + 1 \in Nat
          BY <3>2
        <5>2. f \in WordTokens
          BY <1>2, <3>3, <4>2, <5>1, NextWord
        <5> QED
          BY <1>2, <5>2, WordsListed
      <4> QED
        BY <4>1, <4>2
    <3>5. f < lo => f < lo + 1
      BY <3>4
    <3>6. j < lo + 1
      BY <3>2
    <3> QED
      BY <3>2, <3>3, <3>5, <3>6
  <2>6. said \in Seq(Items) /\ Orderly(said)
    BY <2>2 DEF Past
  <2>7. \A i \in WordTokens : i < lo + 1 => HeardAs(i, said, silent, takers)
    BY <2>1, <2>2 DEF Past
  <2> QED
    BY <2>3, <2>4, <2>5, <2>6, <2>7 DEF Past
<1>6. BehindInv'
  <2>1. PICK f : f = lo + 1 /\ f = Frontier'
    BY <1>2, <1>3, <1>4
  <2>2. Past(said, silent, takers, f)'
    BY <1>1, <1>5, <2>1, PastStands
  <2>3. said = AllSaid' /\ silent = mute' /\ takers = Takers'
    BY <1>1, <1>2, <1>3 DEF AllSaid
  <2> QED
    BY <2>1, <2>2, <2>3, Zenon DEF BehindInv
<1>7. SpaceInv'
  <2>1. Frontier > 1 => Frontier' > 1
    BY <1>2
  <2> QED
    BY <1>1, <2>1 DEF SaidInv, SpaceInv
<1>8. HandInv'
  BY <1>1, IdleHand
<1>9. ts' \in TokenLists /\ stage' \in Stages /\ ti' \in Nat \ {0} /\ Spoke(out)'
  BY <1>1 DEF SaidInv, Stages, Spoke, Closed
<1> QED
  BY <1>1, <1>6, <1>7, <1>8, <1>9 DEF SaidInv, Closed

(* The end of the utterance, and a step that changes nothing.              *)
LEMMA FinishStep ==
  ASSUME SaidInv, Finish
  PROVE  SaidInv'
<1>1. /\ stage = "next" /\ stage' = "done" /\ ti' = ti /\ handled' = handled
      /\ ts' = ts /\ onset' = onset /\ out' = out /\ mute' = mute /\ first_word' = first_word
      /\ pass' = pass
  BY DEF Finish, input, passes
<1>2. Takers' = Takers /\ Frontier' = Frontier
  BY <1>1 DEF Takers, Frontier
<1>3. BehindInv' /\ SpaceInv'
  BY <1>1, <1>2, BehindStands, SpaceStands DEF SaidInv
<1>4. HandInv'
  BY <1>1, IdleHand
<1>5. ts' \in TokenLists /\ stage' \in Stages /\ ti' \in Nat \ {0} /\ Spoke(out)'
  BY <1>1 DEF SaidInv, Stages, Spoke, Closed
<1> QED
  BY <1>1, <1>3, <1>4, <1>5 DEF SaidInv, Closed

(* A step that changes nothing.                                            *)
LEMMA StutterStep ==
  ASSUME SaidInv, UNCHANGED vars
  PROVE  SaidInv'
<1>1. /\ stage' = stage /\ ti' = ti /\ t' = t /\ handled' = handled /\ says' = says
      /\ phrase' = phrase /\ ts' = ts /\ onset' = onset /\ out' = out /\ mute' = mute
      /\ first_word' = first_word /\ pass' = pass /\ ph' = ph
  BY DEF vars, sentence, passes
<1>2. Takers' = Takers /\ Frontier' = Frontier
  BY <1>1 DEF Takers, Frontier
<1>3. BehindInv' /\ SpaceInv'
  BY <1>1, <1>2, BehindStands, SpaceStands DEF SaidInv
<1>4. HandInv'
  <2>1. PICK lo, hi : /\ lo = t /\ hi = ti /\ (stage \notin {"next", "done"} => Pair(lo, hi))
                      /\ CodesSpeak(lo, hi)
    BY DEF SaidInv, HandInv
  <2>2. /\ Pair(lo, hi)' <=> Pair(lo, hi)
        /\ Way(lo)' = Way(lo) /\ Formed(lo, hi)' = Formed(lo, hi)
    BY <1>1, PairStands
  <2>3. CodesSpeak(lo, hi)'
    BY <1>1, <2>1, <2>2 DEF CodesSpeak, PhraseWays
  <2> QED
    BY <1>1, <2>1, <2>2, <2>3, Zenon DEF HandInv
<1>5. ts' \in TokenLists /\ stage' \in Stages /\ ti' \in Nat \ {0} /\ Spoke(out)'
  BY <1>1 DEF SaidInv, Stages, Spoke, Closed
<1> QED
  BY <1>1, <1>3, <1>4, <1>5 DEF SaidInv, Closed

-----------------------------------------------------------------------------

(* Every word that the tokens had so far was spoken whole, once and in its *)
(* place, a number with its value, but for what has no sound and the word  *)
(* that a form takes the place of: no handler skips a word, takes one      *)
(* twice, or speaks one for another, however the pairs fall and whatever   *)
(* the dictionary says of them.                                            *)
THEOREM EveryWordHeard == Spec => []Said
<1>1. Init => SaidInv
  BY SaidStarts, TextsAreSequences
<1>2. ASSUME SaidInv, [Next]_vars PROVE SaidInv'
  <2>1. ExpandNumber \/ SpellAcronym \/ ExpandAbbreviation => SaidInv'
    BY <1>2, OneConsumedStep
  <2>2. EmitClitic \/ EmitSplitPhrase => SaidInv'
    BY <1>2, PairConsumedStep
  <2>3. MatchStaticPhrase \/ MatchLoadedPhrase \/ LookUp => SaidInv'
    BY <1>2, FoundStep
  <2>4. PassOver => SaidInv'
    BY <1>2, PassOverStep
  <2>5. SwapByWindow => SaidInv'
    BY <1>2, SwapByWindowStep
  <2>6. SwapByPlace => SaidInv'
    BY <1>2, SwapByPlaceStep
  <2>7. StressInSentence \/ JoinToNext => SaidInv'
    BY <1>2, SentenceStep
  <2>8. Speak => SaidInv'
    BY <1>2, SpeakStep
  <2>9. UpdateCounters => SaidInv'
    BY <1>2, CountStep
  <2>10. SkipPunctuation => SaidInv'
    BY <1>2, SkipStep
  <2>11. Finish => SaidInv'
    BY <1>2, FinishStep
  <2>12. Returned \/ UNCHANGED vars => SaidInv'
    BY <1>2, StutterStep DEF Returned
  <2> QED
    BY <1>2, <2>1, <2>2, <2>3, <2>4, <2>5, <2>6, <2>7, <2>8, <2>9, <2>10, <2>11, <2>12, Zenon
    DEF Next
<1>3. SaidInv => Said
  BY SaidFollows
<1> QED
  BY <1>1, <1>2, <1>3, PTL DEF Spec
=============================================================================
