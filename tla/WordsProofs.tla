----------------------------- MODULE WordsProofs -----------------------------
(***************************************************************************)
(* word_to_phonemes(), its arms and apply_rules(), for any rules, any      *)
(* dictionaries and words of every length: a scan stays in its word, each  *)
(* call is about less than the one that made it, and the rule that is      *)
(* taken is the best of those that match.                                  *)
(***************************************************************************)
EXTENDS Words, Numbers

-----------------------------------------------------------------------------
(* Folds.  FoldLeft() is a function on the sets of places still to do.     *)

IsFold(f, n, D, base, step) ==
  /\ f \in [SUBSET (1 .. n) -> D]
  /\ \A s \in SUBSET (1 .. n) :
       f[s] = IF s = {} THEN base ELSE step[<<Max(s), f[s \ {Max(s)}]>>]

(* There is such a function.                                               *)
LEMMA FoldExists ==
  ASSUME NEW n \in Nat, NEW D, NEW base \in D, NEW step \in [(1 .. n) \X D -> D]
  PROVE  \E f : IsFold(f, n, D, base, step)
<1> DEFINE Good(f, k) ==
             \A s \in SUBSET (1 .. k) :
               f[s] = IF s = {} THEN base ELSE step[<<Max(s), f[s \ {Max(s)}]>>]
           Has(k) == \E f \in [SUBSET (1 .. k) -> D] : Good(f, k)
           Bad == {k \in 0 .. n : ~Has(k)}
<1>1. SUFFICES ASSUME Bad # {} PROVE FALSE
  <2>1. Bad = {} => Has(n)
    <3> HIDE DEF Has
    <3> QED
      OBVIOUS
  <2> QED
    BY <2>1 DEF IsFold
<1>2. PICK k \in Bad : \A j \in Bad : k <= j
  <2>1. Bad \subseteq Nat
    OBVIOUS
  <2> QED
    BY <1>1, <2>1, LeastNumber
<1>3. ASSUME k = 0 PROVE FALSE
  <2>1. SUBSET (1 .. k) = {{}}
    BY <1>3
  <2> DEFINE f == [s \in SUBSET (1 .. k) |-> base]
  <2>2. f \in [SUBSET (1 .. k) -> D] /\ Good(f, k)
    BY <2>1
  <2>3. Has(k)
    BY <2>2
  <2> QED
    BY <1>2, <2>3
<1>4. k \in 1 .. n /\ k - 1 \in 0 .. n /\ k - 1 < k
  BY <1>2, <1>3
<1>5. PICK f \in [SUBSET (1 .. k - 1) -> D] : Good(f, k - 1)
  <2>1. k - 1 \notin Bad
    <3> HIDE DEF Bad
    <3> QED
      BY <1>2, <1>4
  <2>2. Has(k - 1)
    <3> HIDE DEF Has
    <3> QED
      BY <1>4, <2>1
  <2> QED
    BY <2>2
<1> DEFINE h == [s \in SUBSET (1 .. k) |->
                   IF k \in s THEN step[<<k, f[s \ {k}]>>] ELSE f[s]]
<1>6. \A s \in SUBSET (1 .. k) :
        /\ s \ {k} \in SUBSET (1 .. k - 1) /\ f[s \ {k}] \in D
        /\ k \notin s => s \in SUBSET (1 .. k - 1)
        /\ h[s] = IF k \in s THEN step[<<k, f[s \ {k}]>>] ELSE f[s]
  BY <1>4, <1>5
<1>7. h \in [SUBSET (1 .. k) -> D]
  <2>1. \A s \in SUBSET (1 .. k) : h[s] \in D
    BY <1>4, <1>5, <1>6
  <2> QED
    BY <2>1
<1>8. \A s \in SUBSET (1 .. k) : s # {} => Max(s) \in s /\ (k \in s => Max(s) = k)
  <2>1. SUFFICES ASSUME NEW s \in SUBSET (1 .. k), s # {}
                 PROVE  Max(s) \in s /\ (k \in s => Max(s) = k)
    OBVIOUS
  <2>2. s \subseteq Nat /\ k \in Nat /\ \A m \in s : m <= k
    BY <1>4
  <2>3. Max(s) \in s /\ \A m \in s : m <= Max(s)
    BY <2>1, <2>2, MaxFound
  <2>4. PICK m \in Nat : m = Max(s) /\ m \in s /\ m <= k /\ \A j \in s : j <= m
    BY <2>2, <2>3
  <2>5. k \in s => m = k
    BY <2>2, <2>4
  <2> QED
    BY <2>4, <2>5
<1>9. Good(h, k)
  <2>1. SUFFICES ASSUME NEW s \in SUBSET (1 .. k)
                 PROVE  h[s] = IF s = {} THEN base ELSE step[<<Max(s), h[s \ {Max(s)}]>>]
    OBVIOUS
  <2>2. CASE k \in s
    <3>1. Max(s) = k /\ s \ {k} \in SUBSET (1 .. k) /\ k \notin s \ {k}
      BY <1>6, <1>8, <2>2
    <3>2. h[s \ {k}] = f[s \ {k}]
      BY <1>6, <3>1
    <3> HIDE DEF h
    <3> QED
      BY <1>6, <2>2, <3>1, <3>2
  <2>3. CASE k \notin s /\ s # {}
    <3>1. s \in SUBSET (1 .. k - 1) /\ h[s] = f[s]
      BY <1>6, <2>3
    <3>2. PICK m : m = Max(s) /\ m \in s
      BY <1>8, <2>3
    <3>3. s \ {m} \in SUBSET (1 .. k) /\ h[s \ {m}] = f[s \ {m}]
      BY <1>6, <2>3
    <3>4. f[s] = step[<<m, f[s \ {m}]>>]
      BY <1>5, <2>3, <3>1, <3>2
    <3> HIDE DEF h
    <3> QED
      BY <2>3, <3>1, <3>2, <3>3, <3>4
  <2>4. CASE s = {}
    BY <1>5, <1>6, <2>4
  <2> QED
    BY <2>2, <2>3, <2>4
<1> QED
  BY <1>2, <1>7, <1>9

(* What holds after no place and, if after one, after the next, holds      *)
(* after all of them.                                                      *)
LEMMA FoldClimbs ==
  ASSUME NEW n \in Nat, NEW T, NEW g, g[{}] \in T[0],
         \A k \in 1 .. n : g[1 .. k - 1] \in T[k - 1] => g[1 .. k] \in T[k]
  PROVE  g[1 .. n] \in T[n]
<1> DEFINE Bad == {k \in 0 .. n : g[1 .. k] \notin T[k]}
<1>1. SUFFICES ASSUME Bad # {} PROVE FALSE
  OBVIOUS
<1>2. PICK k \in Bad : \A j \in Bad : k <= j
  <2>1. Bad \subseteq Nat
    OBVIOUS
  <2> QED
    BY <1>1, <2>1, LeastNumber
<1>3. 1 .. 0 = {}
  OBVIOUS
<1>4. k # 0
  BY <1>2, <1>3
<1>5. k \in 1 .. n /\ k - 1 \in 0 .. n /\ k - 1 < k
  BY <1>2, <1>4
<1>6. k - 1 \notin Bad
  BY <1>2, <1>5
<1> QED
  BY <1>2, <1>5, <1>6

(* The last place of the first few, and those before it.                   *)
LEMMA FoldLast ==
  ASSUME NEW n \in Nat, NEW k \in 1 .. n
  PROVE  /\ Max(1 .. k) = k /\ (1 .. k) \ {k} = 1 .. k - 1
         /\ 1 .. k \in SUBSET (1 .. n) /\ 1 .. k - 1 \in SUBSET (1 .. n) /\ 1 .. k # {}
<1>1. 1 .. k \subseteq Nat /\ 1 .. k # {} /\ k \in Nat /\ \A m \in 1 .. k : m <= k
  OBVIOUS
<1>2. Max(1 .. k) \in 1 .. k /\ \A m \in 1 .. k : m <= Max(1 .. k)
  BY <1>1, MaxFound
<1>3. k \in 1 .. k
  OBVIOUS
<1> QED
  BY <1>2, <1>3

-----------------------------------------------------------------------------
(* Contexts.                                                               *)

(* Characters: strings, with those that are put behind a word or read      *)
(* outside it named.                                                       *)
Chars == STRING \cup {"?", "_", "a", "e", "i", "r", "y"}
Spellings == Seq(Chars)

(* Where a scan of a context of w stands.                                  *)
Scans(w) == [score : Int, at : Int, far : Int, ok : BOOLEAN, del : -1 .. Len(w) - 1,
             prev : Chars]

(* A character of a word, or the one read outside it.                      *)
LEMMA CharString ==
  ASSUME NEW w \in Spellings, NEW at \in Int
  PROVE  CharAt(w, at) \in Chars
<1>1. CASE Within(w, at)
  <2>1. at + 1 \in 1 .. Len(w)
    BY <1>1 DEF Within, Spellings
  <2> QED
    BY <1>1, <2>1 DEF CharAt, Spellings
<1>2. CASE ~Within(w, at)
  BY <1>2 DEF CharAt, Chars
<1> QED
  BY <1>1, <1>2

(* The steps the tokens take keep a scan a scan.                           *)
LEMMA ScanFails ==
  ASSUME NEW w \in Spellings, NEW s \in Scans(w)
  PROVE  Fail(s) \in Scans(w)
BY DEF Fail, Scans

(* A score is added.                                                       *)
LEMMA ScanScored ==
  ASSUME NEW w \in Spellings, NEW s \in Scans(w), NEW pts \in Int
  PROVE  Scored(s, pts) \in Scans(w)
BY DEF Scored, Scans

(* A distance, capped.                                                     *)
LEMMA CappedNumber ==
  ASSUME NEW n \in Int
  PROVE  Capped(n) \in Int
BY DEF Capped

(* The cursor moves on by a step.                                          *)
LEMMA ScanAdvances ==
  ASSUME NEW w \in Spellings, NEW s \in Scans(w), NEW step \in Int, NEW pts \in Int
  PROVE  Advance(s, step, pts) \in Scans(w)
<1>1. PICK c \in Int : c = Capped(s.far + step)
  BY CappedNumber DEF Scans
<1>2. PICK t \in Scans(w) : t = [s EXCEPT !.far = c]
  BY <1>1 DEF Scans
<1>3. Advance(s, step, pts) = Scored(t, pts - c)
  BY <1>1, <1>2 DEF Advance
<1> QED
  BY <1>1, <1>2, <1>3, ScanScored

(* A character is taken, wherever the cursor stands.                       *)
LEMMA ScanTakes ==
  ASSUME NEW w \in Spellings, NEW s \in Scans(w), NEW step \in Int, NEW taken, NEW pts \in Int
  PROVE  Take(s, w, step, taken, pts) \in Scans(w)
<1>1. PICK c \in Chars : c = CharAt(w, s.at)
  BY CharString DEF Scans
<1>2. PICK d \in Int : d = IF step = 2 THEN 0 - 1 ELSE 1
  OBVIOUS
<1>3. PICK t \in Scans(w) : t = [s EXCEPT !.prev = c, !.at = s.at + d]
  <2>1. PICK e \in Int : e = s.at + d
    BY DEF Scans
  <2>2. [s EXCEPT !.prev = c, !.at = e] \in Scans(w)
    BY DEF Scans
  <2> QED
    BY <2>1, <2>2
<1>4. PICK u \in Scans(w) : u = Advance(t, step, pts)
  BY ScanAdvances
<1>5. PICK v \in Scans(w) : v = Fail(s)
  BY ScanFails
<1>6. Take(s, w, step, taken, pts) = u \/ Take(s, w, step, taken, pts) = v
  BY <1>1, <1>2, <1>3, <1>4, <1>5 DEF Take, Unless
<1> QED
  BY <1>4, <1>5, <1>6

(* What Unless() gives is one of the two.                                  *)
LEMMA ScanUnless ==
  ASSUME NEW w \in Spellings, NEW s \in Scans(w), NEW t \in Scans(w), NEW failed
  PROVE  Unless(failed, s, t) \in Scans(w)
<1>1. Fail(s) \in Scans(w)
  BY ScanFails
<1> QED
  BY <1>1 DEF Unless

(* match_lgroup_at(): how long the longest item is.                        *)
LEMMA LongestNumber ==
  ASSUME NEW w \in Spellings, NEW id \in DOMAIN Items, NEW at \in Int
  PROVE  LongestItem(id, w, at) \in Nat
<1>1. PICK lengths : lengths = ItemLengths(id, w, at)
  OBVIOUS
<1>2. \A n \in lengths : n \in Nat /\ n <= Len(w)
  <2>1. SUFFICES ASSUME NEW item \in Items[id], Within(w, at), IsPlace(w, item, at)
                 PROVE  Len(item) \in Nat /\ Len(item) <= Len(w)
    BY <1>1 DEF ItemLengths
  <2>2. item \in Seq(STRING) /\ Len(w) \in Nat
    BY ItemsAssumption DEF Spellings
  <2>3. at + 1 \in 1 .. Len(w)
    BY <2>1, <2>2 DEF Within
  <2>4. Len(SubSeq(w, at + 1, Len(w))) = Len(w) - at
    BY <2>3 DEF Spellings
  <2>5. Len(item) <= Len(SubSeq(w, at + 1, Len(w)))
    BY <2>1 DEF IsPlace, IsPrefix
  <2> QED
    BY <2>2, <2>3, <2>4, <2>5
<1>3. CASE lengths = {}
  BY <1>1, <1>3 DEF LongestItem
<1>4. CASE lengths # {}
  <2>1. lengths \subseteq Nat /\ Len(w) \in Nat
    BY <1>2 DEF Spellings
  <2>2. Max(lengths) \in lengths
    BY <1>2, <1>4, <2>1, MaxFound
  <2> QED
    BY <1>1, <1>2, <1>4, <2>2 DEF LongestItem
<1> QED
  BY <1>3, <1>4

(* An item of an L-group is taken to the left, the longest that fits.      *)
LEMMA LeftGroupScans ==
  ASSUME NEW w \in Spellings, NEW s \in Scans(w), NEW id \in DOMAIN Items
  PROVE  LeftGroup(s, id, w) \in Scans(w)
<1>1. PICK at \in Int : at = s.at
  BY DEF Scans
<1>2. PICK n \in Nat : n = LongestItem(id, w, at)
  BY LongestNumber
<1>3. PICK c \in Chars : c = CharAt(w, at - n + 1)
  BY CharString
<1>4. PICK t \in Scans(w) : t = [s EXCEPT !.prev = c, !.at = at - n]
  <2>1. PICK e \in Int : e = at - n
    OBVIOUS
  <2>2. [s EXCEPT !.prev = c, !.at = e] \in Scans(w)
    BY DEF Scans
  <2> QED
    BY <2>1, <2>2
<1>5. PICK u \in Scans(w) : u = Advance(t, 2, 20)
  BY ScanAdvances
<1>6. LeftGroup(s, id, w) = Unless(n = 0, s, u)
  BY <1>1, <1>2, <1>3, <1>4, <1>5 DEF LeftGroup
<1> QED
  BY <1>6, ScanUnless

(* The same to the right.                                                  *)
LEMMA RightGroupScans ==
  ASSUME NEW w \in Spellings, NEW s \in Scans(w), NEW id \in DOMAIN Items
  PROVE  RightGroup(s, id, w) \in Scans(w)
<1>1. PICK at \in Int : at = s.at
  BY DEF Scans
<1>2. PICK n \in Nat : n = LongestItem(id, w, at)
  BY LongestNumber
<1>3. PICK c \in Chars : c = CharAt(w, at + n - 1)
  BY CharString
<1>4. PICK t \in Scans(w) : t = [s EXCEPT !.prev = c, !.at = at + n]
  <2>1. PICK e \in Int : e = at + n
    OBVIOUS
  <2>2. [s EXCEPT !.prev = c, !.at = e] \in Scans(w)
    BY DEF Scans
  <2> QED
    BY <2>1, <2>2
<1>5. PICK u \in Scans(w) : u = Advance(t, 6, 20)
  BY ScanAdvances
<1>6. RightGroup(s, id, w) = IF Items[id] = {} THEN s ELSE Unless(n = 0, s, u)
  BY <1>1, <1>2, <1>3, <1>4, <1>5 DEF RightGroup
<1> QED
  BY <1>6, ScanUnless

(* A letter that a rule silences is one of the word.                       *)
LEMMA DelForwardScans ==
  ASSUME NEW w \in Spellings, NEW s \in Scans(w), NEW pos \in Nat
  PROVE  DelForward(s, w, pos) \in Scans(w)
<1>1. PICK es : es = {at \in pos .. s.at - 1 : CharAt(w, at) = "e"}
  OBVIOUS
<1>2. \A at \in es : at \in 0 .. Len(w) - 1
  <2>1. SUFFICES ASSUME NEW at \in pos .. s.at - 1, CharAt(w, at) = "e"
                 PROVE  at \in 0 .. Len(w) - 1
    BY <1>1
  <2>2. Within(w, at)
    BY <2>1 DEF CharAt
  <2> QED
    BY <2>2 DEF Within, Spellings, Scans
<1>3. CASE s.del >= 0 \/ es = {}
  BY <1>1, <1>3 DEF DelForward
<1>4. CASE ~(s.del >= 0 \/ es = {})
  <2>1. es \subseteq Nat
    BY <1>2
  <2>2. PICK m : m = Min(es) /\ m \in es
    BY <1>4, <2>1, MinFound
  <2>3. m \in -1 .. Len(w) - 1
    BY <1>2, <2>2 DEF Spellings
  <2>4. [s EXCEPT !.del = m] \in Scans(w)
    BY <2>3 DEF Scans
  <2> QED
    BY <1>1, <1>4, <2>2, <2>4 DEF DelForward
<1> QED
  BY <1>3, <1>4

(* A letter that is no vowel is taken, or the end of the word.             *)
LEMMA RightNonVowelScans ==
  ASSUME NEW w \in Spellings, NEW s \in Scans(w)
  PROVE  RightNonVowel(s, w) \in Scans(w)
<1>1. PICK at \in Int : at = s.at
  BY DEF Scans
<1>2. PICK c \in Chars : c = IF Within(w, at) THEN CharAt(w, at) ELSE s.prev
  BY CharString DEF Scans
<1>3. PICK t \in Scans(w) : t = [s EXCEPT !.prev = c, !.at = at + 1]
  <2>1. PICK e \in Int : e = at + 1
    OBVIOUS
  <2>2. [s EXCEPT !.prev = c, !.at = e] \in Scans(w)
    BY DEF Scans
  <2> QED
    BY <2>1, <2>2
<1>4. PICK u \in Scans(w) : u = Advance(t, 6, 20)
  BY ScanAdvances
<1>5. RightNonVowel(s, w) = Unless(IsVowel(w, at), s, u)
  BY <1>1, <1>2, <1>3, <1>4 DEF RightNonVowel
<1> QED
  BY <1>5, ScanUnless

(* The tokens of both sides.                                               *)
LEMMA SharedScans ==
  ASSUME NEW w \in Spellings, NEW s \in Scans(w), NEW step \in Int, NEW t,
         t.op \in {"lit", "group", "D", "Z", "%", "+", "<", "!"}
  PROVE  Shared(s, t, w, step) \in Scans(w)
<1>1. PICK c : c = CharAt(w, s.at)
  OBVIOUS
<1>2. CASE t.op = "lit"
  <2>1. Shared(s, t, w, step) = Take(s, w, step, c = t.arg, 21)
    BY <1>1, <1>2 DEF Shared
  <2> QED
    BY <2>1, ScanTakes
<1>3. CASE t.op = "group"
  <2>1. PICK pts \in Int : pts = IF t.arg = "C" THEN 19 ELSE 20
    OBVIOUS
  <2>2. Shared(s, t, w, step) = Take(s, w, step, c \in Group[t.arg], pts)
    BY <1>1, <1>3, <2>1 DEF Shared
  <2> QED
    BY <2>2, ScanTakes
<1>4. CASE t.op = "D"
  <2>1. Shared(s, t, w, step) = Take(s, w, step, c \in Digits, 21)
    BY <1>1, <1>4 DEF Shared
  <2> QED
    BY <2>1, ScanTakes
<1>5. CASE t.op = "Z"
  <2>1. Shared(s, t, w, step) = Take(s, w, step, c \notin Letters, 21)
    BY <1>1, <1>5 DEF Shared
  <2> QED
    BY <2>1, ScanTakes
<1>6. CASE t.op = "%"
  <2>1. Shared(s, t, w, step) = Take(s, w, step, c = s.prev, 21)
    BY <1>1, <1>6 DEF Shared
  <2> QED
    BY <2>1, ScanTakes
<1>7. CASE t.op = "+"
  <2>1. Shared(s, t, w, step) = Scored(s, 20)
    BY <1>7 DEF Shared
  <2> QED
    BY <2>1, ScanScored
<1>8. CASE t.op = "<"
  <2>1. Shared(s, t, w, step) = Scored(s, -20)
    BY <1>8 DEF Shared
  <2> QED
    BY <2>1, ScanScored
<1>9. CASE t.op = "!"
  BY <1>9 DEF Shared
<1> QED
  BY <1>2, <1>3, <1>4, <1>5, <1>6, <1>7, <1>8, <1>9

(* A token of the left side.                                               *)
LEMMA LeftTokenScans ==
  ASSUME NEW w \in Spellings, NEW s \in Scans(w), NEW t \in LeftTokens, NEW pos \in Nat,
         NEW sofar
  PROVE  LeftToken(s, t, w, pos, sofar) \in Scans(w)
<1>1. /\ t.op \in {"lit", "group", "L"} \cup LeftOps
      /\ t.op = "L" => t.arg \in DOMAIN Items
      /\ t.op = "@" => t.arg \in Nat
  BY DEF LeftTokens, TokensOf, LeftOps
<1>2. \A pts \in Int : Scored(s, pts) \in Scans(w)
  BY ScanScored
<1>3. Fail(s) \in Scans(w)
  BY ScanFails
<1>4. \A c, pts \in Int : Unless(c, s, Scored(s, pts)) \in Scans(w)
  BY <1>2, <1>3 DEF Unless
<1>5. CASE ~s.ok
  BY <1>5 DEF LeftToken
<1>6. CASE s.ok /\ t.op = "_"
  <2>1. LeftToken(s, t, w, pos, sofar) = Unless(s.at >= 0, s, Scored(s, 4))
    BY <1>6 DEF LeftToken
  <2> QED
    BY <2>1, ScanUnless, <1>2
<1>7. CASE s.ok /\ t.op = "&"
  <2>1. LeftToken(s, t, w, pos, sofar) = Unless(~StressBefore(w, pos, sofar), s, Scored(s, 19))
    BY <1>7 DEF LeftToken
  <2> QED
    BY <2>1, ScanUnless, <1>2
<1>8. CASE s.ok /\ t.op = "@"
  <2>1. PICK n \in Nat : n = t.arg
    BY <1>1, <1>8
  <2>2. PICK c \in Int : c = Capped(s.far + 2)
    <3>1. s.far + 2 \in Int
      BY DEF Scans
    <3>2. Capped(s.far + 2) \in Int
      BY <3>1, CappedNumber
    <3> QED
      BY <3>2
  <2>3. PICK groups : groups = IF sofar # <<>> THEN SoundGroups(sofar)
                               ELSE VowelGroups(w, 0, pos)
    OBVIOUS
  <2>4. PICK pts \in Int : pts = 18 + n - c
    OBVIOUS
  <2>5. LeftToken(s, t, w, pos, sofar) = Unless(n > groups, s, Scored(s, pts))
    BY <1>8, <2>1, <2>2, <2>3, <2>4 DEF LeftToken, LeftSyllables
  <2> QED
    BY <2>5, ScanUnless, <1>2
<1>9. CASE s.ok /\ t.op = "X"
  <2>1. PICK here : here = \E at \in 0 .. s.at : IsVowel(w, at)
    OBVIOUS
  <2>2. LeftToken(s, t, w, pos, sofar) = Unless(here, s, Scored(s, 3))
    BY <1>9, <2>1 DEF LeftToken
  <2> QED
    BY <2>2, ScanUnless, <1>2
<1>10. CASE s.ok /\ t.op = "E"
  <2>1. LeftToken(s, t, w, pos, sofar) = Fail(s)
    BY <1>10 DEF LeftToken
  <2> QED
    BY <1>3, <2>1
<1>11. CASE s.ok /\ t.op = "K"
  <2>1. LeftToken(s, t, w, pos, sofar) = Take(s, w, 2, ~IsVowel(w, s.at), 20)
    BY <1>11 DEF LeftToken
  <2> QED
    BY <2>1, ScanTakes
<1>12. CASE s.ok /\ t.op = "L"
  <2>1. LeftToken(s, t, w, pos, sofar) = LeftGroup(s, t.arg, w)
    BY <1>12 DEF LeftToken
  <2> QED
    BY <1>1, <1>12, <2>1, LeftGroupScans
<1>13. CASE s.ok /\ t.op \in {"lit", "group", "D", "Z", "%", "+", "<", "!"}
  <2>1. LeftToken(s, t, w, pos, sofar) = Shared(s, t, w, 2)
    BY <1>13 DEF LeftToken
  <2> QED
    BY <1>13, <2>1, SharedScans
<1> QED
  BY <1>1, <1>5, <1>6, <1>7, <1>8, <1>9, <1>10, <1>11, <1>12, <1>13 DEF LeftOps, Scans

(* A token of the right side.                                              *)
LEMMA RightTokenScans ==
  ASSUME NEW w \in Spellings, NEW s \in Scans(w), NEW t \in RightTokens, NEW pos \in Nat,
         NEW scan
  PROVE  RightToken(s, t, w, pos, scan) \in Scans(w)
<1>1. /\ t.op \in {"lit", "group", "L"} \cup LeftOps \cup {"#", "$", "N", "P", "S"}
      /\ t.op = "L" => t.arg \in DOMAIN Items
      /\ t.op = "@" => t.arg \in Nat
  BY DEF RightTokens, TokensOf, LeftOps
<1>2. \A step, pts \in Int : Advance(s, step, pts) \in Scans(w)
  BY ScanAdvances
<1>3. Fail(s) \in Scans(w) /\ Scored(s, 1) \in Scans(w)
  BY ScanFails, ScanScored
<1>4. CASE ~s.ok
  BY <1>4 DEF RightToken
<1>5. CASE s.ok /\ t.op = "_"
  <2>1. RightToken(s, t, w, pos, scan) = Unless(s.at < Len(w), s, Advance(s, 6, 21))
    BY <1>5 DEF RightToken
  <2> QED
    BY <1>2, <2>1, ScanUnless
<1>6. CASE s.ok /\ t.op = "#"
  <2>1. RightToken(s, t, w, pos, scan) = DelForward(s, w, pos)
    BY <1>6 DEF RightToken
  <2> QED
    BY <2>1, DelForwardScans
<1>7. CASE s.ok /\ t.op = "&"
  <2>1. RightToken(s, t, w, pos, scan) = Fail(s)
    BY <1>7 DEF RightToken
  <2> QED
    BY <1>3, <2>1
<1>8. CASE s.ok /\ t.op = "$"
  <2>1. RightToken(s, t, w, pos, scan) = Unless(t.arg \notin scan.alt, s, s)
    BY <1>8 DEF RightToken
  <2> QED
    BY <2>1, ScanUnless
<1>9. CASE s.ok /\ t.op = "N"
  <2>1. \/ RightToken(s, t, w, pos, scan) = s
        \/ RightToken(s, t, w, pos, scan) = Unless(scan.removed, s, Scored(s, 1))
    BY <1>9 DEF RightToken
  <2> QED
    BY <1>3, <2>1, ScanUnless
<1>10. CASE s.ok /\ t.op \in {"P", "S"}
  BY <1>10 DEF RightToken
<1>11. CASE s.ok /\ t.op = "X"
  <2>1. PICK here : here = \E at \in s.at .. Len(w) - 1 : IsVowel(w, at)
    OBVIOUS
  <2>2. RightToken(s, t, w, pos, scan) = Unless(here, s, Advance(s, 6, 19))
    BY <1>11, <2>1 DEF RightToken
  <2> QED
    BY <1>2, <2>2, ScanUnless
<1>12. CASE s.ok /\ t.op = "@"
  <2>1. PICK n \in Nat : n = t.arg
    BY <1>1, <1>12
  <2>2. PICK pts \in Int : pts = 18 + n
    OBVIOUS
  <2>3. PICK groups : groups = VowelGroups(w, s.at, Len(w))
    OBVIOUS
  <2>4. RightToken(s, t, w, pos, scan) = Unless(n > groups, s, Advance(s, 6, pts))
    BY <1>12, <2>1, <2>2, <2>3 DEF RightToken
  <2> QED
    BY <1>2, <2>4, ScanUnless
<1>13. CASE s.ok /\ t.op = "E"
  <2>1. RightToken(s, t, w, pos, scan) = Take(s, w, 6, s.at \in scan.rep, 21)
    BY <1>13 DEF RightToken
  <2> QED
    BY <2>1, ScanTakes
<1>14. CASE s.ok /\ t.op = "K"
  <2>1. RightToken(s, t, w, pos, scan) = RightNonVowel(s, w)
    BY <1>14 DEF RightToken
  <2> QED
    BY <2>1, RightNonVowelScans
<1>15. CASE s.ok /\ t.op = "L"
  <2>1. RightToken(s, t, w, pos, scan) = RightGroup(s, t.arg, w)
    BY <1>15 DEF RightToken
  <2> QED
    BY <1>1, <1>15, <2>1, RightGroupScans
<1>16. CASE s.ok /\ t.op \in {"lit", "group", "D", "Z", "%", "+", "<", "!"}
  <2>1. RightToken(s, t, w, pos, scan) = Shared(s, t, w, 6)
    BY <1>16 DEF RightToken
  <2> QED
    BY <1>16, <2>1, SharedScans
<1> QED
  BY <1>1, <1>4, <1>5, <1>6, <1>7, <1>8, <1>9, <1>10, <1>11, <1>12, <1>13, <1>14, <1>15,
     <1>16 DEF LeftOps, Scans

(* A context of any length: the fold goes from scan to scan.               *)
LEMMA RightContextScans ==
  ASSUME NEW w \in Spellings, NEW ctx \in Seq(RightTokens), NEW pos \in Nat, NEW scan
  PROVE  RightContext(ctx, w, pos, scan) \in Scans(w)
<1> DEFINE n == Len(ctx)
           D == Scans(w)
           base == [score |-> 0, at |-> pos, far |-> -6, ok |-> TRUE, del |-> -1,
                    prev |-> CharAt(w, pos - 1)]
           step == [p \in (1 .. n) \X D |-> RightToken(p[2], ctx[p[1]], w, pos, scan)]
           Walk(g) == g = [s \in SUBSET DOMAIN ctx |->
                             IF s = {} THEN base
                             ELSE RightToken(g[s \ {Max(s)}], ctx[Max(s)], w, pos, scan)]
<1>1. base \in D
  <2>1. CharAt(w, pos - 1) \in Chars
    BY CharString
  <2>2. Len(w) \in Nat
    BY DEF Spellings
  <2> QED
    BY <2>1, <2>2 DEF Scans
<1>2. n \in Nat /\ DOMAIN ctx = 1 .. n
  OBVIOUS
<1>3. \A i \in 1 .. n, x \in D : RightToken(x, ctx[i], w, pos, scan) \in D
  BY RightTokenScans
<1> HIDE DEF D, base
<1>4. step \in [(1 .. n) \X D -> D]
  BY <1>3
<1>5. PICK f : IsFold(f, n, D, base, step)
  <2> HIDE DEF step, n
  <2>1. n \in Nat /\ base \in D /\ step \in [(1 .. n) \X D -> D]
    BY <1>1, <1>2, <1>4
  <2> QED
    BY <2>1, FoldExists
<1>6. Walk(f)
  <2>1. SUFFICES ASSUME NEW s \in SUBSET (1 .. n)
                 PROVE  f[s] = IF s = {} THEN base
                               ELSE RightToken(f[s \ {Max(s)}], ctx[Max(s)], w, pos, scan)
    BY <1>2, <1>5 DEF IsFold
  <2>2. CASE s # {}
    <3>1. PICK m \in 1 .. n : m = Max(s)
      <4>1. s \subseteq Nat /\ \A j \in s : j <= n
        BY <1>2
      <4>2. Max(s) \in s
        BY <1>2, <2>2, <4>1, MaxFound
      <4> QED
        BY <4>2
    <3>2. f[s \ {m}] \in D
      BY <1>5 DEF IsFold
    <3> QED
      BY <1>5, <2>2, <3>1, <3>2 DEF IsFold
  <2> QED
    BY <1>5, <2>2 DEF IsFold
<1>7. PICK g : g = (CHOOSE h : Walk(h)) /\ Walk(g)
  BY <1>6
<1>8. RightContext(ctx, w, pos, scan) = g[DOMAIN ctx]
  BY <1>7 DEF RightContext, FoldLeft, MapThenFoldSet, base
<1> DEFINE T == [k \in 0 .. n |-> D]
<1>9. \A s \in SUBSET (1 .. n) :
        g[s] = IF s = {} THEN base
               ELSE RightToken(g[s \ {Max(s)}], ctx[Max(s)], w, pos, scan)
  BY <1>2, <1>7
<1>10. \A k \in 1 .. n : g[1 .. k - 1] \in D => g[1 .. k] \in D
  <2>1. SUFFICES ASSUME NEW k \in 1 .. n, g[1 .. k - 1] \in D PROVE g[1 .. k] \in D
    OBVIOUS
  <2>2. /\ Max(1 .. k) = k /\ (1 .. k) \ {k} = 1 .. k - 1
        /\ 1 .. k \in SUBSET (1 .. n) /\ 1 .. k # {}
    BY <1>2, FoldLast
  <2>3. g[1 .. k] = RightToken(g[1 .. k - 1], ctx[k], w, pos, scan)
    BY <1>9, <2>2
  <2> QED
    BY <1>3, <2>1, <2>3
<1>11. g[{}] \in D
  BY <1>1, <1>9
<1>12. g[1 .. n] \in T[n]
  <2>1. \A k \in 0 .. n : T[k] = D
    OBVIOUS
  <2>2. \A k \in 1 .. n : k \in 0 .. n /\ k - 1 \in 0 .. n
    BY <1>2
  <2>3. g[{}] \in T[0]
    BY <1>2, <1>11, <2>1
  <2>4. \A k \in 1 .. n : g[1 .. k - 1] \in T[k - 1] => g[1 .. k] \in T[k]
    BY <1>10, <2>1, <2>2
  <2> HIDE DEF T, n
  <2> QED
    BY <1>2, <2>3, <2>4, FoldClimbs, ZenonT(30)
<1> QED
  BY <1>2, <1>8, <1>12 DEF D

(* So does that over the left context, whose last token comes first.       *)
LEMMA LeftContextScans ==
  ASSUME NEW w \in Spellings, NEW ctx \in Seq(LeftTokens), NEW pos \in Nat, NEW sofar
  PROVE  LeftContext(ctx, w, pos, sofar) \in Scans(w)
<1> DEFINE rev == Reverse(ctx)
           n == Len(rev)
           D == Scans(w)
           base == [score |-> 0, at |-> pos - 1, far |-> -2, ok |-> TRUE, del |-> -1,
                    prev |-> IF pos > 0 THEN CharAt(w, pos) ELSE "?"]
           step == [p \in (1 .. n) \X D |-> LeftToken(p[2], rev[p[1]], w, pos, sofar)]
           Walk(g) == g = [s \in SUBSET DOMAIN rev |->
                             IF s = {} THEN base
                             ELSE LeftToken(g[s \ {Max(s)}], rev[Max(s)], w, pos, sofar)]
<1>1. base \in D
  <2>1. CharAt(w, pos) \in Chars /\ "?" \in Chars /\ pos - 1 \in Int
    <3>1. "?" \in Chars
      BY DEF Chars
    <3> QED
      BY <3>1, CharString
  <2>2. Len(w) \in Nat
    BY DEF Spellings
  <2> QED
    BY <2>1, <2>2 DEF Scans
<1>2. n \in Nat /\ DOMAIN rev = 1 .. n /\ rev \in Seq(LeftTokens)
  BY DEF Reverse
<1>3. \A i \in 1 .. n, x \in D : LeftToken(x, rev[i], w, pos, sofar) \in D
  BY <1>2, LeftTokenScans
<1> HIDE DEF D, base, rev
<1>4. step \in [(1 .. n) \X D -> D]
  BY <1>3
<1>5. PICK f : IsFold(f, n, D, base, step)
  <2> HIDE DEF step, n
  <2>1. n \in Nat /\ base \in D /\ step \in [(1 .. n) \X D -> D]
    BY <1>1, <1>2, <1>4
  <2> QED
    BY <2>1, FoldExists
<1>6. Walk(f)
  <2>1. SUFFICES ASSUME NEW s \in SUBSET (1 .. n)
                 PROVE  f[s] = IF s = {} THEN base
                               ELSE LeftToken(f[s \ {Max(s)}], rev[Max(s)], w, pos, sofar)
    BY <1>2, <1>5 DEF IsFold
  <2>2. CASE s # {}
    <3>1. PICK m \in 1 .. n : m = Max(s)
      <4>1. s \subseteq Nat /\ \A j \in s : j <= n
        BY <1>2
      <4>2. Max(s) \in s
        BY <1>2, <2>2, <4>1, MaxFound
      <4> QED
        BY <4>2
    <3>2. f[s \ {m}] \in D
      BY <1>5 DEF IsFold
    <3> QED
      BY <1>5, <2>2, <3>1, <3>2 DEF IsFold
  <2> QED
    BY <1>5, <2>2 DEF IsFold
<1>7. PICK g : g = (CHOOSE h : Walk(h)) /\ Walk(g)
  BY <1>6
<1>8. LeftContext(ctx, w, pos, sofar) = g[DOMAIN rev]
  BY <1>7 DEF LeftContext, FoldLeft, MapThenFoldSet, base, rev
<1> DEFINE T == [k \in 0 .. n |-> D]
<1>9. \A s \in SUBSET (1 .. n) :
        g[s] = IF s = {} THEN base
               ELSE LeftToken(g[s \ {Max(s)}], rev[Max(s)], w, pos, sofar)
  BY <1>2, <1>7
<1>10. \A k \in 1 .. n : g[1 .. k - 1] \in D => g[1 .. k] \in D
  <2>1. SUFFICES ASSUME NEW k \in 1 .. n, g[1 .. k - 1] \in D PROVE g[1 .. k] \in D
    OBVIOUS
  <2>2. /\ Max(1 .. k) = k /\ (1 .. k) \ {k} = 1 .. k - 1
        /\ 1 .. k \in SUBSET (1 .. n) /\ 1 .. k # {}
    BY <1>2, FoldLast
  <2>3. g[1 .. k] = LeftToken(g[1 .. k - 1], rev[k], w, pos, sofar)
    BY <1>9, <2>2
  <2> QED
    BY <1>3, <2>1, <2>3
<1>11. g[{}] \in D
  BY <1>1, <1>9
<1>12. g[1 .. n] \in T[n]
  <2>1. \A k \in 0 .. n : T[k] = D
    OBVIOUS
  <2>2. \A k \in 1 .. n : k \in 0 .. n /\ k - 1 \in 0 .. n
    BY <1>2
  <2>3. g[{}] \in T[0]
    BY <1>2, <1>11, <2>1
  <2>4. \A k \in 1 .. n : g[1 .. k - 1] \in T[k - 1] => g[1 .. k] \in T[k]
    BY <1>10, <2>1, <2>2
  <2> HIDE DEF T, n
  <2> QED
    BY <1>2, <2>3, <2>4, FoldClimbs, ZenonT(30)
<1> QED
  BY <1>2, <1>8, <1>12 DEF D

-----------------------------------------------------------------------------
(* Rules.                                                                  *)

(* What matching a rule at a place of w comes to.                          *)
IsMatch(m, w, pos) ==
  /\ m.score \in Int
  /\ m.score < 0 => m = NoMatch
  /\ m.score >= 0 =>
       /\ m.rule \in RuleSet /\ Len(m.rule.match) \in 1 .. Len(w) - pos
       /\ m.rule.suffix /\ "e" \in m.rule.flags =>
            m.rule.strip >= 2 /\ Len(m.rule.match) >= 2
       /\ m.del \in -1 .. Len(w) - 1

(* The rules of a group, as they are stored.                               *)
LEMMA StoredRule ==
  ASSUME NEW key \in DOMAIN Rules, NEW i \in DOMAIN Rules[key]
  PROVE  /\ Rules[key][i] \in RuleSet /\ Len(Rules[key][i].match) \in Nat \ {0}
         /\ Rules[key][i].suffix /\ "e" \in Rules[key][i].flags =>
              Rules[key][i].strip >= 2 /\ Len(Rules[key][i].match) >= 2
<1>1. PICK rule \in RuleSet : rule = Rules[key][i] /\ rule.match # <<>>
  BY RulesAssumption
<1>2. rule.match \in Seq(STRING)
  BY DEF RuleSet
<1>3. Len(rule.match) \in Nat \ {0}
  BY <1>1, <1>2
<1> QED
  BY <1>1, <1>3, EndingsAssumption

(* A stored rule's match is as IsMatch says, or there is none.             *)
LEMMA MatchSound ==
  ASSUME NEW key \in DOMAIN Rules, NEW i \in DOMAIN Rules[key], NEW w \in Spellings,
         NEW pos \in 0 .. Len(w), NEW length \in Nat, NEW scan
  PROVE  IsMatch(MatchRule(Rules[key][i], w, pos, length, scan), w, pos)
<1>1. PICK rule \in RuleSet :
        /\ rule = Rules[key][i] /\ Len(rule.match) \in Nat \ {0}
        /\ rule.suffix /\ "e" \in rule.flags => rule.strip >= 2 /\ Len(rule.match) >= 2
  BY StoredRule
<1>2. /\ rule.left \in Seq(LeftTokens) /\ rule.right \in Seq(RightTokens)
      /\ rule.cond \in BOOLEAN /\ Len(w) \in Nat /\ pos \in Nat
  BY DEF RuleSet, Spellings
<1>3. PICK n \in Nat \ {0} : n = Len(rule.match)
  BY <1>1
<1>4. PICK left \in Scans(w) : left = LeftContext(rule.left, w, pos, scan.sofar)
  BY <1>2, LeftContextScans
<1>5. PICK right \in Scans(w) : right = RightContext(rule.right, w, pos + n, scan)
  <2>1. pos + n \in Nat
    BY <1>2
  <2> QED
    BY <1>2, <2>1, RightContextScans
<1>6. PICK extra \in Nat : extra = IF n > length THEN n - length ELSE 0
  <2>1. CASE n > length
    <3>1. n - length \in Nat
      BY <2>1
    <3> QED
      BY <2>1, <3>1
  <2>2. CASE ~(n > length)
    BY <2>2
  <2> QED
    BY <2>1, <2>2
<1>7. left.score \in Int /\ right.score \in Int /\ right.del \in -1 .. Len(w) - 1
  BY DEF Scans
<1>8. PICK total \in Int :
        total = 1 + 21 * extra + left.score + right.score + (IF rule.cond THEN 1 ELSE 0)
  BY <1>7
<1>9. PICK bonus \in Nat : bonus = IF length = 2 THEN 35 ELSE 0
  OBVIOUS
<1>10. PICK m : m = MatchRule(rule, w, pos, length, scan)
  OBVIOUS
<1>11. CASE IsPlace(w, rule.match, pos) /\ left.ok /\ right.ok /\ total >= 0
  <2>1. m = [score |-> total + bonus, rule |-> rule, del |-> right.del]
    BY <1>3, <1>4, <1>5, <1>6, <1>8, <1>9, <1>10, <1>11 DEF MatchRule
  <2>2. pos + n <= Len(w)
    <3>1. n <= Len(SubSeq(w, pos + 1, Len(w)))
      BY <1>3, <1>11 DEF IsPlace, IsPrefix
    <3>2. Len(SubSeq(w, pos + 1, Len(w))) = Len(w) - pos
      BY <1>2 DEF Spellings
    <3> QED
      BY <1>2, <3>1, <3>2
  <2>3. n \in 1 .. Len(w) - pos
    BY <1>2, <2>2
  <2>4. m.score \in Int /\ m.score >= 0 /\ m.rule = rule /\ m.del = right.del
    BY <1>11, <2>1
  <2> QED
    BY <1>1, <1>3, <1>7, <1>10, <2>3, <2>4 DEF IsMatch
<1>12. CASE ~(IsPlace(w, rule.match, pos) /\ left.ok /\ right.ok /\ total >= 0)
  <2>1. m = NoMatch
    BY <1>3, <1>4, <1>5, <1>6, <1>8, <1>10, <1>12 DEF MatchRule
  <2> QED
    BY <1>1, <1>10, <2>1 DEF IsMatch, NoMatch
<1> QED
  BY <1>11, <1>12

(* The matches of a group's rules, and which of them may be used.          *)
Matches(key, w, pos, scan) ==
  [i \in DOMAIN Rules[key] |-> MatchRule(Rules[key][i], w, pos, Len(key), scan)]
MayUse(m, w, pos, scan) == m.score >= 0 /\ ~EndingSkip(m, w, pos, scan)
Usable(key, w, pos, scan) ==
  [i \in DOMAIN Rules[key] |-> MayUse(Matches(key, w, pos, scan)[i], w, pos, scan)]

(* r is the best of b and the first k matches that may be used, the last   *)
(* of the best ones.                                                       *)
BestOf(r, b, ms, use, k) ==
  \/ r = b /\ \A i \in 1 .. k : use[i] => ms[i].score < b.score
  \/ \E i \in 1 .. k :
       /\ use[i] /\ r = ms[i] /\ ms[i].score >= b.score
       /\ \A j \in 1 .. k :
            use[j] => IF j > i THEN ms[j].score < r.score ELSE ms[j].score <= r.score

(* One rule more.                                                          *)
LEMMA BestOfNext ==
  ASSUME NEW n \in Nat, NEW ms, NEW use \in [1 .. n -> BOOLEAN], NEW b, NEW r,
         b.score \in Int, \A i \in 1 .. n : ms[i].score \in Int,
         NEW k \in 1 .. n, BestOf(r, b, ms, use, k - 1),
         NEW q, q = IF use[k] /\ ms[k].score >= r.score THEN ms[k] ELSE r
  PROVE  BestOf(q, b, ms, use, k)
<1>1. r.score \in Int /\ r.score >= b.score
  BY DEF BestOf
<1>2. ASSUME NEW j \in 1 .. k PROVE j \in 1 .. k - 1 \/ j = k
  OBVIOUS
<1>3. ASSUME NEW j \in 1 .. k - 1, use[j] PROVE ms[j].score <= r.score
  <2>1. ms[j].score \in Int
    OBVIOUS
  <2> QED
    BY <1>1, <1>3, <2>1 DEF BestOf
<1>4. CASE use[k] /\ ms[k].score >= r.score
  <2>1. q = ms[k] /\ q.score \in Int /\ q.score >= r.score /\ q.score >= b.score
    BY <1>1, <1>4
  <2>2. ASSUME NEW j \in 1 .. k, use[j] PROVE ms[j].score <= q.score /\ ~(j > k)
    <3>1. CASE j = k
      BY <2>1, <3>1
    <3>2. CASE j \in 1 .. k - 1
      <4>1. ms[j].score \in Int /\ ms[j].score <= r.score
        BY <1>3, <2>2, <3>2
      <4> QED
        BY <1>1, <2>1, <4>1
    <3> QED
      BY <3>1, <3>2
  <2>3. k \in 1 .. k
    OBVIOUS
  <2> QED
    BY <1>4, <2>1, <2>2, <2>3 DEF BestOf
<1>5. CASE ~(use[k] /\ ms[k].score >= r.score)
  <2>1. q = r
    BY <1>5
  <2>2. use[k] => ms[k].score < r.score
    <3>1. ms[k].score \in Int
      OBVIOUS
    <3> QED
      BY <1>1, <1>5, <3>1
  <2>3. CASE r = b /\ \A i \in 1 .. k - 1 : use[i] => ms[i].score < b.score
    <3>1. \A i \in 1 .. k : use[i] => ms[i].score < b.score
      BY <1>2, <2>2, <2>3
    <3> QED
      BY <2>1, <2>3, <3>1 DEF BestOf
  <2>4. CASE ~(r = b /\ \A i \in 1 .. k - 1 : use[i] => ms[i].score < b.score)
    <3>1. PICK i \in 1 .. k - 1 :
            /\ use[i] /\ r = ms[i] /\ ms[i].score >= b.score
            /\ \A j \in 1 .. k - 1 :
                 use[j] => IF j > i THEN ms[j].score < r.score ELSE ms[j].score <= r.score
      BY <2>4 DEF BestOf
    <3>2. ASSUME NEW j \in 1 .. k, use[j]
          PROVE  IF j > i THEN ms[j].score < r.score ELSE ms[j].score <= r.score
      BY <1>2, <2>2, <3>1, <3>2
    <3>3. i \in 1 .. k
      OBVIOUS
    <3> QED
      BY <2>1, <3>1, <3>2, <3>3 DEF BestOf
  <2> QED
    BY <2>3, <2>4
<1> QED
  BY <1>4, <1>5

(* try_group(): the fold over the rules of a group keeps the best.         *)
LEMMA GroupBest ==
  ASSUME NEW key \in DOMAIN Rules, Len(key) \in Nat, NEW w \in Spellings,
         NEW pos \in 0 .. Len(w), NEW scan, NEW b, b.score \in Int
  PROVE  BestOf(TryGroup(b, key, w, pos, scan), b, Matches(key, w, pos, scan),
                Usable(key, w, pos, scan), Len(Rules[key]))
<1> DEFINE n == Len(Rules[key])
           ms == Matches(key, w, pos, scan)
           use == Usable(key, w, pos, scan)
           D == {b} \cup {ms[i] : i \in 1 .. n}
           One(x, i) == Better(x, MatchRule(Rules[key][i], w, pos, Len(key), scan),
                               w, pos, scan)
           step == [p \in (1 .. n) \X D |-> One(p[2], p[1])]
           Walk(g) == g = [s \in SUBSET DOMAIN Rules[key] |->
                             IF s = {} THEN b ELSE One(g[s \ {Max(s)}], Max(s))]
<1>1. n \in Nat /\ DOMAIN Rules[key] = 1 .. n
  <2>1. Rules[key] \in Seq(RuleSet)
    BY RulesAssumption
  <2> QED
    BY <2>1
<1>2. \A i \in 1 .. n : ms[i] = MatchRule(Rules[key][i], w, pos, Len(key), scan)
  BY <1>1 DEF Matches
<1>3. \A i \in 1 .. n : ms[i].score \in Int
  <2>1. ASSUME NEW i \in 1 .. n PROVE ms[i].score \in Int
    <3>1. i \in DOMAIN Rules[key]
      BY <1>1
    <3>2. IsMatch(MatchRule(Rules[key][i], w, pos, Len(key), scan), w, pos)
      BY <3>1, MatchSound
    <3> QED
      BY <1>2, <3>2 DEF IsMatch
  <2> QED
    BY <2>1
<1>4. use \in [1 .. n -> BOOLEAN]
  BY <1>1 DEF Usable, MayUse
<1>6. ASSUME NEW x, NEW i \in 1 .. n
      PROVE  One(x, i) = IF use[i] /\ ms[i].score >= x.score THEN ms[i] ELSE x
  <2>1. use[i] = MayUse(ms[i], w, pos, scan)
    BY <1>1 DEF Usable
  <2>2. One(x, i) = Better(x, ms[i], w, pos, scan)
    BY <1>2
  <2> HIDE DEF One, ms, use
  <2> QED
    BY <2>1, <2>2 DEF Better, MayUse
<1>7. \A i \in 1 .. n, x \in D : One(x, i) \in D
  <2> HIDE DEF One, ms, use
  <2> QED
    BY <1>6
<1>8. b \in D
  OBVIOUS
<1> HIDE DEF D, One, ms, use
<1>9. step \in [(1 .. n) \X D -> D]
  BY <1>7
<1>10. PICK f : IsFold(f, n, D, b, step)
  <2> HIDE DEF step, n
  <2> QED
    BY <1>1, <1>8, <1>9, FoldExists
<1>11. Walk(f)
  <2>1. SUFFICES ASSUME NEW s \in SUBSET (1 .. n)
                 PROVE  f[s] = IF s = {} THEN b ELSE One(f[s \ {Max(s)}], Max(s))
    BY <1>1, <1>10 DEF IsFold
  <2>2. CASE s # {}
    <3>1. PICK m \in 1 .. n : m = Max(s)
      <4>1. s \subseteq Nat /\ \A j \in s : j <= n
        BY <1>1
      <4>2. Max(s) \in s
        BY <1>1, <2>2, <4>1, MaxFound
      <4> QED
        BY <4>2
    <3>2. f[s \ {m}] \in D
      BY <1>10 DEF IsFold
    <3> QED
      BY <1>10, <2>2, <3>1, <3>2 DEF IsFold
  <2> QED
    BY <1>10, <2>2 DEF IsFold
<1>12. PICK g : g = (CHOOSE h : Walk(h)) /\ Walk(g)
  BY <1>11
<1>13. TryGroup(b, key, w, pos, scan) = g[1 .. n]
  BY <1>1, <1>12 DEF TryGroup, FoldLeft, MapThenFoldSet, One
<1> DEFINE T == [k \in 0 .. n |-> {r \in D : BestOf(r, b, ms, use, k)}]
<1>14. \A s \in SUBSET (1 .. n) :
         g[s] = IF s = {} THEN b ELSE One(g[s \ {Max(s)}], Max(s))
  BY <1>1, <1>12
<1>15. \A k \in 1 .. n : g[1 .. k - 1] \in T[k - 1] => g[1 .. k] \in T[k]
  <2>1. SUFFICES ASSUME NEW k \in 1 .. n, g[1 .. k - 1] \in T[k - 1] PROVE g[1 .. k] \in T[k]
    OBVIOUS
  <2>2. /\ Max(1 .. k) = k /\ (1 .. k) \ {k} = 1 .. k - 1
        /\ 1 .. k \in SUBSET (1 .. n) /\ 1 .. k # {} /\ k \in 0 .. n /\ k - 1 \in 0 .. n
    BY <1>1, FoldLast
  <2>3. g[1 .. k] = One(g[1 .. k - 1], k)
    BY <1>14, <2>2
  <2>4. PICK r \in D : r = g[1 .. k - 1] /\ BestOf(r, b, ms, use, k - 1)
    BY <2>1, <2>2
  <2>5. PICK q : q = One(r, k)
    OBVIOUS
  <2>6. q = IF use[k] /\ ms[k].score >= r.score THEN ms[k] ELSE r
    BY <1>6, <2>5
  <2>7. BestOf(q, b, ms, use, k)
    <3> HIDE DEF n
    <3> QED
      BY <1>1, <1>3, <1>4, <2>4, <2>6, BestOfNext
  <2>8. q \in D /\ q = g[1 .. k]
    BY <1>7, <2>3, <2>4, <2>5
  <2> QED
    BY <2>2, <2>7, <2>8
<1>16. g[{}] \in T[0]
  <2>1. g[{}] = b
    BY <1>14
  <2>2. BestOf(b, b, ms, use, 0)
    BY DEF BestOf
  <2> QED
    BY <1>1, <1>8, <2>1, <2>2
<1>17. g[1 .. n] \in T[n]
  <2> HIDE DEF T, n
  <2> QED
    BY <1>1, <1>15, <1>16, FoldClimbs, ZenonT(30)
<1> QED
  BY <1>1, <1>13, <1>17 DEF ms, use

-----------------------------------------------------------------------------
(* The rule that is taken.                                                 *)

(* Two sequences of one.                                                   *)
LEMMA Pair ==
  ASSUME NEW x, NEW y
  PROVE  <<x>> \o <<y>> = <<x, y>>
<1>1. <<x>> \in Seq({x, y}) /\ <<y>> \in Seq({x, y})
  OBVIOUS
<1>2. Len(<<x>>) = 1 /\ Len(<<y>>) = 1 /\ <<x>>[1] = x /\ <<y>>[1] = y
  OBVIOUS
<1>3. PICK a, b : a = <<x>> /\ b = <<y>>
  OBVIOUS
<1>4. Len(a \o b) = 2 /\ (a \o b)[1] = x /\ (a \o b)[2] = y
  BY <1>1, <1>2, <1>3
<1>5. a \o b \in Seq({x, y})
  BY <1>1, <1>3
<1>6. PICK c : c = a \o b
  OBVIOUS
<1>7. c \in Seq({x, y}) /\ Len(c) = 2
  BY <1>4, <1>5, <1>6
<1>8. DOMAIN c = 1 .. 2 /\ c = [i \in 1 .. 2 |-> c[i]]
  BY <1>7
<1>9. <<x, y>> = [i \in 1 .. 2 |-> c[i]]
  BY <1>4, <1>6
<1> QED
  BY <1>3, <1>6, <1>8, <1>9

(* The keys of a place: those of two characters and of one, or of one.     *)
LEMMA KeysShape ==
  ASSUME NEW w \in Spellings, NEW pos \in 0 .. Len(w), NEW scan
  PROVE  \E a, b : KeysAt(w, pos, scan) = IF pos + 1 < Len(w) THEN << <<a, b>>, <<a>> >>
                                          ELSE << <<a>> >>
<1>1. PICK a, b : a = KeyChar(w, pos, scan) /\ b = CharAt(w, pos + 1)
  OBVIOUS
<1>2. KeysAt(w, pos, scan) =
        (IF pos + 1 < Len(w) THEN << <<a, b>> >> ELSE <<>>) \o << <<a>> >>
  BY <1>1 DEF KeysAt
<1>3. /\ << <<a, b>> >> \o << <<a>> >> = << <<a, b>>, <<a>> >>
      /\ <<>> \o << <<a>> >> = << <<a>> >>
  <2>1. PICK x, y : x = <<a, b>> /\ y = <<a>>
    OBVIOUS
  <2>2. <<x>> \o <<y>> = <<x, y>> /\ <<>> \o <<y>> = <<y>>
    BY Pair
  <2> QED
    BY <2>1, <2>2
<1>4. KeysAt(w, pos, scan) = IF pos + 1 < Len(w) THEN << <<a, b>>, <<a>> >> ELSE << <<a>> >>
  BY <1>2, <1>3
<1> QED
  BY <1>4

(* What one group's rules make of the best so far.                         *)
GroupTakes(f, k, b, q) ==
  \/ /\ q = b
     /\ \A i \in DOMAIN GroupAt(f, k) :
          <<k, i>> \in Offered(f) => MatchOf(f, <<k, i>>).score < b.score
  \/ \E i \in DOMAIN GroupAt(f, k) :
       /\ <<k, i>> \in Offered(f) /\ q = MatchOf(f, <<k, i>>) /\ q.score >= b.score
       /\ \A j \in DOMAIN GroupAt(f, k) :
            <<k, j>> \in Offered(f) =>
              IF j > i THEN MatchOf(f, <<k, j>>).score < q.score
              ELSE MatchOf(f, <<k, j>>).score <= q.score

(* The rules offered are those of the groups that may be used.             *)
LEMMA OfferedRules ==
  ASSUME NEW f, NEW k \in DOMAIN KeysAt(f.w, f.pos, f), NEW i \in DOMAIN GroupAt(f, k)
  PROVE  <<k, i>> \in Offered(f) <=> MayUse(MatchOf(f, <<k, i>>), f.w, f.pos, f)
<1>1. <<k, i>> \in {k} \X DOMAIN GroupAt(f, k)
  OBVIOUS
<1>2. <<k, i>> \in UNION {{m} \X DOMAIN GroupAt(f, m) : m \in DOMAIN KeysAt(f.w, f.pos, f)}
  BY <1>1
<1> QED
  BY <1>2 DEF Offered, MayUse

(* They are matches.                                                       *)
LEMMA MatchesSound ==
  ASSUME NEW f, f.w \in Spellings, f.pos \in 0 .. Len(f.w),
         NEW k \in DOMAIN KeysAt(f.w, f.pos, f), NEW i \in DOMAIN GroupAt(f, k)
  PROVE  IsMatch(MatchOf(f, <<k, i>>), f.w, f.pos)
<1>1. PICK key : key = KeysAt(f.w, f.pos, f)[k]
  OBVIOUS
<1>2. Len(key) \in Nat
  <2>1. PICK a, b : KeysAt(f.w, f.pos, f) = IF f.pos + 1 < Len(f.w) THEN << <<a, b>>, <<a>> >>
                                            ELSE << <<a>> >>
    BY KeysShape
  <2>2. key = <<a, b>> \/ key = <<a>>
    BY <1>1, <2>1
  <2> QED
    BY <2>2
<1>3. key \in DOMAIN Rules /\ GroupAt(f, k) = Rules[key]
  BY <1>1 DEF GroupAt
<1>4. MatchOf(f, <<k, i>>) = MatchRule(Rules[key][i], f.w, f.pos, Len(key), f)
  BY <1>1, <1>3 DEF MatchOf
<1>5. i \in DOMAIN Rules[key]
  BY <1>3
<1> QED
  BY <1>2, <1>3, <1>4, <1>5, MatchSound

(* One group.                                                              *)
LEMMA GroupTakesBest ==
  ASSUME NEW f, f.w \in Spellings, f.pos \in 0 .. Len(f.w),
         NEW k \in DOMAIN KeysAt(f.w, f.pos, f), NEW b, b.score \in Int
  PROVE  GroupTakes(f, k, b, TryGroup(b, KeysAt(f.w, f.pos, f)[k], f.w, f.pos, f))
<1>1. PICK key : key = KeysAt(f.w, f.pos, f)[k]
  OBVIOUS
<1>2. Len(key) \in Nat
  <2>1. PICK a, c : KeysAt(f.w, f.pos, f) = IF f.pos + 1 < Len(f.w) THEN << <<a, c>>, <<a>> >>
                                            ELSE << <<a>> >>
    BY KeysShape
  <2>2. key = <<a, c>> \/ key = <<a>>
    BY <1>1, <2>1
  <2> QED
    BY <2>2
<1>3. PICK q : q = TryGroup(b, key, f.w, f.pos, f)
  OBVIOUS
<1>4. CASE key \in DOMAIN Rules
  <2>1. PICK n \in Nat : n = Len(Rules[key]) /\ DOMAIN Rules[key] = 1 .. n
    <3>1. Rules[key] \in Seq(RuleSet)
      BY <1>4, RulesAssumption
    <3> QED
      BY <3>1
  <2>2. PICK ms, use : /\ ms = Matches(key, f.w, f.pos, f)
                       /\ use = Usable(key, f.w, f.pos, f)
    OBVIOUS
  <2>3. BestOf(q, b, ms, use, n)
    BY <1>2, <1>3, <1>4, <2>1, <2>2, GroupBest
  <2>4. GroupAt(f, k) = Rules[key]
    BY <1>1, <1>4 DEF GroupAt
  <2>5. \A i \in 1 .. n : ms[i] = MatchOf(f, <<k, i>>)
    BY <1>1, <2>1, <2>2, <2>4 DEF Matches, MatchOf
  <2>6. \A i \in 1 .. n : use[i] <=> <<k, i>> \in Offered(f)
    <3>1. ASSUME NEW i \in 1 .. n PROVE use[i] <=> <<k, i>> \in Offered(f)
      <4>1. use[i] = MayUse(MatchOf(f, <<k, i>>), f.w, f.pos, f)
        BY <2>1, <2>2, <2>5 DEF Usable
      <4> QED
        BY <2>1, <2>4, <4>1, OfferedRules
    <3> QED
      BY <3>1
  <2>7. DOMAIN GroupAt(f, k) = 1 .. n
    BY <2>1, <2>4
  <2>8. CASE q = b /\ \A i \in 1 .. n : use[i] => ms[i].score < b.score
    BY <1>1, <1>3, <2>5, <2>6, <2>7, <2>8 DEF GroupTakes
  <2>9. CASE \E i \in 1 .. n :
               /\ use[i] /\ q = ms[i] /\ ms[i].score >= b.score
               /\ \A j \in 1 .. n :
                    use[j] => IF j > i THEN ms[j].score < q.score
                              ELSE ms[j].score <= q.score
    <3>1. PICK i \in 1 .. n :
            /\ use[i] /\ q = ms[i] /\ ms[i].score >= b.score
            /\ \A j \in 1 .. n :
                 use[j] => IF j > i THEN ms[j].score < q.score ELSE ms[j].score <= q.score
      BY <2>9
    <3>2. <<k, i>> \in Offered(f) /\ q = MatchOf(f, <<k, i>>) /\ q.score >= b.score
      BY <2>5, <2>6, <3>1
    <3>3. \A j \in 1 .. n :
            <<k, j>> \in Offered(f) =>
              IF j > i THEN MatchOf(f, <<k, j>>).score < q.score
              ELSE MatchOf(f, <<k, j>>).score <= q.score
      BY <2>5, <2>6, <3>1
    <3> QED
      BY <1>1, <1>3, <2>7, <3>2, <3>3 DEF GroupTakes
  <2> QED
    BY <2>3, <2>8, <2>9 DEF BestOf
<1>5. CASE key \notin DOMAIN Rules
  <2>1. q = b /\ GroupAt(f, k) = <<>>
    BY <1>1, <1>3, <1>5 DEF GroupAt, TryGroup
  <2>2. DOMAIN GroupAt(f, k) = {}
    BY <2>1
  <2> QED
    BY <1>1, <1>3, <2>1, <2>2 DEF GroupTakes
<1> QED
  BY <1>4, <1>5

(* The best of all that are offered, and of equal ones the last.           *)
TakenBest(f, best) ==
  IF Offered(f) = {} THEN best = NoMatch
  ELSE \E r \in Offered(f) :
         /\ best = MatchOf(f, r)
         /\ \A q \in Offered(f) \ {r} :
              IF ComesAfter(q, r) THEN MatchOf(f, q).score < best.score
              ELSE MatchOf(f, q).score <= best.score

(* find_best_rule() takes it, in a word.                                   *)
LEMMA BestFound ==
  ASSUME NEW f, f.w \in Spellings, f.pos \in 0 .. Len(f.w) - 1
  PROVE  /\ IsMatch(FindBestRule(f.w, f.pos, f), f.w, f.pos)
         /\ TakenBest(f, FindBestRule(f.w, f.pos, f))
<1>1. PICK a, c : KeysAt(f.w, f.pos, f) = IF f.pos + 1 < Len(f.w) THEN << <<a, c>>, <<a>> >>
                                          ELSE << <<a>> >>
  <2>1. f.pos \in 0 .. Len(f.w)
    BY DEF Spellings
  <2> QED
    BY <2>1, KeysShape
<1>2. PICK best : best = FindBestRule(f.w, f.pos, f)
  OBVIOUS
<1>3. f.pos \in 0 .. Len(f.w)
  BY DEF Spellings
<1>4. NoMatch.score = -1 /\ IsMatch(NoMatch, f.w, f.pos)
  BY DEF NoMatch, IsMatch
<1>5. \A r \in Offered(f) : \E k, i :
        k \in DOMAIN KeysAt(f.w, f.pos, f) /\ i \in DOMAIN GroupAt(f, k) /\ r = <<k, i>>
  BY DEF Offered
<1>6. ASSUME NEW k \in DOMAIN KeysAt(f.w, f.pos, f), NEW i \in DOMAIN GroupAt(f, k),
             <<k, i>> \in Offered(f)
      PROVE  MatchOf(f, <<k, i>>).score \in Nat
  <2>1. IsMatch(MatchOf(f, <<k, i>>), f.w, f.pos)
    BY <1>3, MatchesSound
  <2>2. MatchOf(f, <<k, i>>).score >= 0
    BY <1>6 DEF Offered
  <2> QED
    BY <2>1, <2>2 DEF IsMatch
<1>7. ASSUME NEW k \in DOMAIN KeysAt(f.w, f.pos, f), NEW b, NEW q,
             GroupTakes(f, k, b, q), IsMatch(b, f.w, f.pos)
      PROVE  IsMatch(q, f.w, f.pos)
  BY <1>3, <1>7, MatchesSound DEF GroupTakes
<1>8. CASE f.pos + 1 < Len(f.w)
  <2>1. KeysAt(f.w, f.pos, f) = << <<a, c>>, <<a>> >> /\ DOMAIN KeysAt(f.w, f.pos, f) = {1, 2}
    BY <1>1, <1>8
  <2>2. PICK two : two = TryGroup(NoMatch, KeysAt(f.w, f.pos, f)[1], f.w, f.pos, f)
    OBVIOUS
  <2>3. GroupTakes(f, 1, NoMatch, two) /\ IsMatch(two, f.w, f.pos)
    <3>1. 1 \in DOMAIN KeysAt(f.w, f.pos, f) /\ NoMatch.score \in Int
      BY <1>4, <2>1
    <3>2. GroupTakes(f, 1, NoMatch, two)
      BY <1>3, <2>2, <3>1, GroupTakesBest
    <3> QED
      BY <1>4, <1>7, <3>1, <3>2
  <2>4. best = TryGroup(two, KeysAt(f.w, f.pos, f)[2], f.w, f.pos, f)
    <3>1. PICK x, y : x = <<KeyChar(f.w, f.pos, f), CharAt(f.w, f.pos + 1)>>
                      /\ y = <<KeyChar(f.w, f.pos, f)>>
      OBVIOUS
    <3>2. KeysAt(f.w, f.pos, f) = <<x>> \o <<y>>
      BY <1>8, <3>1 DEF KeysAt
    <3>3. KeysAt(f.w, f.pos, f)[1] = x /\ KeysAt(f.w, f.pos, f)[2] = y
      BY <3>2, Pair
    <3> QED
      BY <1>2, <1>8, <2>2, <3>1, <3>3 DEF FindBestRule
  <2>5. GroupTakes(f, 2, two, best) /\ IsMatch(best, f.w, f.pos)
    <3>1. two.score \in Int
      BY <2>3 DEF IsMatch
    <3> QED
      BY <1>3, <1>7, <2>1, <2>3, <2>4, <3>1, GroupTakesBest
  <2>6. TakenBest(f, best)
    <3>1. PICK t \in Int, s \in Int : t = two.score /\ s = best.score
      BY <2>3, <2>5 DEF IsMatch
    <3>2. CASE \E i \in DOMAIN GroupAt(f, 2) :
                 /\ <<2, i>> \in Offered(f) /\ best = MatchOf(f, <<2, i>>) /\ s >= t
                 /\ \A j \in DOMAIN GroupAt(f, 2) :
                      <<2, j>> \in Offered(f) =>
                        IF j > i THEN MatchOf(f, <<2, j>>).score < s
                        ELSE MatchOf(f, <<2, j>>).score <= s
      <4>1. PICK i \in DOMAIN GroupAt(f, 2) :
              /\ <<2, i>> \in Offered(f) /\ best = MatchOf(f, <<2, i>>) /\ s >= t
              /\ \A j \in DOMAIN GroupAt(f, 2) :
                   <<2, j>> \in Offered(f) =>
                     IF j > i THEN MatchOf(f, <<2, j>>).score < s
                     ELSE MatchOf(f, <<2, j>>).score <= s
        BY <3>2
      <4>2. ASSUME NEW q \in Offered(f)
            PROVE  IF ComesAfter(q, <<2, i>>) THEN MatchOf(f, q).score < s
                   ELSE MatchOf(f, q).score <= s
        <5>1. PICK k, j : k \in {1, 2} /\ j \in DOMAIN GroupAt(f, k) /\ q = <<k, j>>
          BY <1>5, <2>1
        <5>2. CASE k = 1
          <6>1. ~ComesAfter(q, <<2, i>>)
            BY <5>1, <5>2 DEF ComesAfter
          <6>2. MatchOf(f, q).score \in Nat
            BY <1>6, <2>1, <5>1
          <6>3. MatchOf(f, q).score <= t
            <7>1. \/ two = NoMatch /\ MatchOf(f, q).score < NoMatch.score
                  \/ MatchOf(f, q).score <= two.score \/ MatchOf(f, q).score < two.score
              BY <2>3, <5>1, <5>2 DEF GroupTakes
            <7> QED
              BY <1>4, <3>1, <6>2, <7>1
          <6> QED
            BY <3>1, <4>1, <6>1, <6>2, <6>3
        <5>3. CASE k = 2
          <6>1. ComesAfter(q, <<2, i>>) <=> j > i
            BY <5>1, <5>3 DEF ComesAfter
          <6> QED
            BY <4>1, <5>1, <5>3, <6>1
        <5> QED
          BY <5>1, <5>2, <5>3
      <4> QED
        BY <3>1, <4>1, <4>2 DEF TakenBest
    <3>3. CASE /\ best = two
               /\ \A i \in DOMAIN GroupAt(f, 2) :
                    <<2, i>> \in Offered(f) => MatchOf(f, <<2, i>>).score < t
      <4>1. CASE /\ two = NoMatch
                 /\ \A i \in DOMAIN GroupAt(f, 1) :
                      <<1, i>> \in Offered(f) => MatchOf(f, <<1, i>>).score < -1
        <5>1. Offered(f) = {}
          <6>1. SUFFICES ASSUME NEW q \in Offered(f) PROVE FALSE
            OBVIOUS
          <6>2. PICK k, j : k \in {1, 2} /\ j \in DOMAIN GroupAt(f, k) /\ q = <<k, j>>
            BY <1>5, <2>1
          <6>3. MatchOf(f, q).score \in Nat
            BY <1>6, <2>1, <6>2
          <6>4. t = -1
            BY <1>4, <3>1, <4>1
          <6>5. MatchOf(f, q).score < -1
            BY <3>3, <4>1, <6>2, <6>4
          <6> QED
            BY <6>3, <6>5
        <5> QED
          BY <3>3, <4>1, <5>1 DEF TakenBest
      <4>2. CASE \E i \in DOMAIN GroupAt(f, 1) :
                   /\ <<1, i>> \in Offered(f) /\ two = MatchOf(f, <<1, i>>)
                   /\ \A j \in DOMAIN GroupAt(f, 1) :
                        <<1, j>> \in Offered(f) =>
                          IF j > i THEN MatchOf(f, <<1, j>>).score < t
                          ELSE MatchOf(f, <<1, j>>).score <= t
        <5>1. PICK i \in DOMAIN GroupAt(f, 1) :
                /\ <<1, i>> \in Offered(f) /\ two = MatchOf(f, <<1, i>>)
                /\ \A j \in DOMAIN GroupAt(f, 1) :
                     <<1, j>> \in Offered(f) =>
                       IF j > i THEN MatchOf(f, <<1, j>>).score < t
                       ELSE MatchOf(f, <<1, j>>).score <= t
          BY <4>2
        <5>2. ASSUME NEW q \in Offered(f)
              PROVE  IF ComesAfter(q, <<1, i>>) THEN MatchOf(f, q).score < t
                     ELSE MatchOf(f, q).score <= t
          <6>1. PICK k, j : k \in {1, 2} /\ j \in DOMAIN GroupAt(f, k) /\ q = <<k, j>>
            BY <1>5, <2>1
          <6>2. CASE k = 1
            <7>1. ComesAfter(q, <<1, i>>) <=> j > i
              BY <6>1, <6>2 DEF ComesAfter
            <7> QED
              BY <5>1, <6>1, <6>2, <7>1
          <6>3. CASE k = 2
            <7>1. MatchOf(f, q).score < t
              BY <3>3, <6>1, <6>3
            <7>2. ComesAfter(q, <<1, i>>)
              BY <6>1, <6>3 DEF ComesAfter
            <7> QED
              BY <7>1, <7>2
          <6> QED
            BY <6>1, <6>2, <6>3
        <5> QED
          BY <3>1, <3>3, <5>1, <5>2 DEF TakenBest
      <4> QED
        BY <1>4, <2>3, <3>1, <4>1, <4>2 DEF GroupTakes
    <3> QED
      BY <2>5, <3>1, <3>2, <3>3 DEF GroupTakes
  <2> QED
    BY <1>2, <2>5, <2>6
<1>9. CASE ~(f.pos + 1 < Len(f.w))
  <2>1. KeysAt(f.w, f.pos, f) = << <<a>> >> /\ DOMAIN KeysAt(f.w, f.pos, f) = {1}
    BY <1>1, <1>9
  <2>2. best = TryGroup(NoMatch, KeysAt(f.w, f.pos, f)[1], f.w, f.pos, f)
    <3>1. KeysAt(f.w, f.pos, f) = << <<KeyChar(f.w, f.pos, f)>> >>
      BY <1>9 DEF KeysAt
    <3> QED
      BY <1>2, <1>9, <3>1 DEF FindBestRule
  <2>3. GroupTakes(f, 1, NoMatch, best) /\ IsMatch(best, f.w, f.pos)
    <3>1. 1 \in DOMAIN KeysAt(f.w, f.pos, f) /\ NoMatch.score \in Int
      BY <1>4, <2>1
    <3>2. GroupTakes(f, 1, NoMatch, best)
      BY <1>3, <2>2, <3>1, GroupTakesBest
    <3> QED
      BY <1>4, <1>7, <3>1, <3>2
  <2>4. PICK s \in Int : s = best.score
    BY <2>3 DEF IsMatch
  <2>5. CASE /\ best = NoMatch
             /\ \A i \in DOMAIN GroupAt(f, 1) :
                  <<1, i>> \in Offered(f) => MatchOf(f, <<1, i>>).score < -1
    <3>1. Offered(f) = {}
      <4>1. SUFFICES ASSUME NEW q \in Offered(f) PROVE FALSE
        OBVIOUS
      <4>2. PICK j \in DOMAIN GroupAt(f, 1) : q = <<1, j>>
        BY <1>5, <2>1
      <4>3. MatchOf(f, q).score \in Nat
        BY <1>6, <2>1, <4>2
      <4>4. MatchOf(f, q).score < -1
        BY <2>5, <4>2
      <4> QED
        BY <4>3, <4>4
    <3> QED
      BY <1>2, <2>3, <2>5, <3>1 DEF TakenBest
  <2>6. CASE \E i \in DOMAIN GroupAt(f, 1) :
               /\ <<1, i>> \in Offered(f) /\ best = MatchOf(f, <<1, i>>)
               /\ \A j \in DOMAIN GroupAt(f, 1) :
                    <<1, j>> \in Offered(f) =>
                      IF j > i THEN MatchOf(f, <<1, j>>).score < s
                      ELSE MatchOf(f, <<1, j>>).score <= s
    <3>1. PICK i \in DOMAIN GroupAt(f, 1) :
            /\ <<1, i>> \in Offered(f) /\ best = MatchOf(f, <<1, i>>)
            /\ \A j \in DOMAIN GroupAt(f, 1) :
                 <<1, j>> \in Offered(f) =>
                   IF j > i THEN MatchOf(f, <<1, j>>).score < s
                   ELSE MatchOf(f, <<1, j>>).score <= s
      BY <2>6
    <3>2. ASSUME NEW q \in Offered(f)
          PROVE  IF ComesAfter(q, <<1, i>>) THEN MatchOf(f, q).score < s
                 ELSE MatchOf(f, q).score <= s
      <4>1. PICK j \in DOMAIN GroupAt(f, 1) : q = <<1, j>>
        BY <1>5, <2>1
      <4>2. ComesAfter(q, <<1, i>>) <=> j > i
        BY <4>1 DEF ComesAfter
      <4> QED
        BY <3>1, <4>1, <4>2
    <3> QED
      BY <1>2, <2>3, <2>4, <3>1, <3>2 DEF TakenBest
  <2> QED
    BY <1>4, <2>3, <2>4, <2>5, <2>6 DEF GroupTakes
<1> QED
  BY <1>8, <1>9

-----------------------------------------------------------------------------
(* Frames.                                                                 *)

AnswerFrames == [kind : {"answer"}, w : {<<>>}, heard : Levels]
FreshWords == [kind : {"word"}, w : Spellings, cap : BOOLEAN, arm : {1}, plan : {<<>>},
               heard : {Silent}]
RulesFrames ==
  {f \in [kind : {"rules"}, w : Spellings, allow : BOOLEAN, alt : SUBSET Nat, only : BOOLEAN,
          removed : BOOLEAN, pos : Nat, sofar : Seq(Sounds), rep : SUBSET Nat, heard : Levels] :
     f.pos <= Len(f.w) /\ f.rep \subseteq 0 .. Len(f.w) - 1}

(* What may be asked in less than n; the steps of a word's plan.           *)
CallsUnder(n) ==
  {c \in AnswerFrames \cup FreshWords \cup RulesFrames : c.kind # "answer" => Depth(c) < n}
Steps(w) == [mode : {"try", "need", "probe", "after"}, want : Silent .. Never,
             call : CallsUnder(2 * Len(w) + 1)]
WordsOf(w) == [kind : {"word"}, w : {w}, cap : BOOLEAN, arm : 1 .. Arms + 1,
               plan : Seq(Steps(w)), heard : Levels]
Frames == AnswerFrames \cup (UNION {WordsOf(w) : w \in Spellings}) \cup RulesFrames

(* Spellings cut, or with a letter more.                                   *)
LEMMA CutSpelling ==
  ASSUME NEW w \in Spellings, NEW n \in Nat, n <= Len(w)
  PROVE  Cut(w, n) \in Spellings /\ Len(Cut(w, n)) = Len(w) - n
  BY DEF Cut, Spellings

(* A letter put back.                                                      *)
LEMMA LongerSpelling ==
  ASSUME NEW w \in Spellings
  PROVE  /\ E(w) \in Spellings /\ Len(E(w)) = Len(w) + 1
         /\ Y(w) \in Spellings /\ Len(Y(w)) = Len(w) + 1
<1>1. "e" \in Chars /\ "y" \in Chars
  BY DEF Chars
<1> QED
  BY <1>1 DEF E, Y, Spellings

(* The $alt flags of a word are numbers.                                   *)
LEMMA AltNumbers ==
  ASSUME NEW w
  PROVE  Alt(w) \in SUBSET Nat
  BY WordsAssumption DEF Alt

(* What a call is.                                                         *)
LEMMA AnswerCall ==
  ASSUME NEW level \in Levels, NEW n
  PROVE  Answer(level) \in AnswerFrames /\ Answer(level) \in CallsUnder(n)
  BY DEF Answer, AnswerFrames, CallsUnder

(* What a dictionary's phonemes are heard as.                              *)
LEMMA SoundLevel ==
  ASSUME NEW w
  PROVE  Sound(w) \in Levels
  BY DEF Sound, Levels, Silent, Dull, Voiced

(* A call of the rules is one about less when its word is shorter.         *)
LEMMA RulesCallFrame ==
  ASSUME NEW w \in Spellings, NEW allow \in BOOLEAN, NEW alt \in SUBSET Nat,
         NEW only \in BOOLEAN, NEW removed \in BOOLEAN, NEW n \in Nat, 2 * Len(w) < n
  PROVE  /\ RulesCall(w, allow, alt, only, removed) \in RulesFrames
         /\ RulesCall(w, allow, alt, only, removed) \in CallsUnder(n)
<1>1. PICK c : c = RulesCall(w, allow, alt, only, removed)
  OBVIOUS
<1>2. c \in [kind : {"rules"}, w : Spellings, allow : BOOLEAN, alt : SUBSET Nat, only : BOOLEAN,
             removed : BOOLEAN, pos : Nat, sofar : Seq(Sounds), rep : SUBSET Nat,
             heard : Levels]
  <2>1. Silent \in Levels
    BY DEF Silent, Voiced, Levels
  <2> QED
    BY <1>1, <2>1 DEF RulesCall
<1>3. c.pos <= Len(c.w) /\ c.rep \subseteq 0 .. Len(c.w) - 1 /\ c.kind = "rules" /\ c.w = w
  BY <1>1 DEF RulesCall, Spellings
<1>4. Depth(c) = 2 * Len(w)
  BY <1>3 DEF Depth, Spellings
<1> QED
  BY <1>1, <1>2, <1>3, <1>4 DEF RulesFrames, CallsUnder

(* So is a call of a word, which weighs one more than its rules.           *)
LEMMA WordCallFrame ==
  ASSUME NEW w \in Spellings, NEW cap \in BOOLEAN, NEW n \in Nat, 2 * Len(w) + 1 < n
  PROVE  WordCall(w, cap) \in FreshWords /\ WordCall(w, cap) \in CallsUnder(n)
<1>1. WordCall(w, cap) \in FreshWords /\ WordCall(w, cap).kind = "word" /\ WordCall(w, cap).w = w
  BY DEF WordCall, FreshWords
<1>2. Depth(WordCall(w, cap)) = 2 * Len(w) + 1
  BY <1>1 DEF Depth
<1> QED
  BY <1>1, <1>2 DEF CallsUnder

(* The rules under the word's own flags.                                   *)
LEMMA OwnRulesCall ==
  ASSUME NEW w \in Spellings, NEW n \in Nat, 2 * Len(w) < n
  PROVE  OwnRules(w) \in CallsUnder(n)
  BY AltNumbers, RulesCallFrame DEF OwnRules

(* The dictionary's answer, or the rules.                                  *)
LEMMA DictOrRulesCall ==
  ASSUME NEW w \in Spellings, NEW only \in BOOLEAN, NEW n \in Nat, 2 * Len(w) < n
  PROVE  DictOrRules(w, only) \in CallsUnder(n)
  BY AltNumbers, RulesCallFrame, SoundLevel, AnswerCall DEF DictOrRules

(* What get_stem_phonemes() and do_stem_ph_s() ask: an answer, or the      *)
(* rules of the stem, never of the stem with its e.                        *)
LEMMA StemsCall ==
  ASSUME NEW w \in Spellings, NEW n \in Nat, 2 * Len(w) < n
  PROVE  Stem(w) \in CallsUnder(n) /\ StemOfS(w) \in CallsUnder(n)
<1>1. Silent \in Levels
  BY DEF Silent, Voiced, Levels
<1>2. \A level \in Levels : Answer(level) \in CallsUnder(n)
  BY AnswerCall
<1>3. \A v : Sound(v) \in Levels
  BY SoundLevel
<1>4. \A alt \in SUBSET Nat : RulesCall(w, TRUE, alt, FALSE, FALSE) \in CallsUnder(n)
  BY RulesCallFrame
<1>5. Alt(w) \in SUBSET Nat /\ {1} \in SUBSET Nat /\ {} \in SUBSET Nat
  BY AltNumbers
<1>6. Stem(w) \in CallsUnder(n)
  BY <1>1, <1>2, <1>3, <1>4, <1>5 DEF Stem
<1>7. StemOfS(w) \in CallsUnder(n)
  BY <1>1, <1>2, <1>3, <1>4, <1>5 DEF StemOfS
<1> QED
  BY <1>6, <1>7

(* A fresh call is a frame.                                                *)
LEMMA CallsAreFrames ==
  ASSUME NEW n, NEW c \in CallsUnder(n)
  PROVE  c \in Frames
<1>1. CASE c \in FreshWords
  <2>1. PICK w \in Spellings, cap \in BOOLEAN :
          c = [kind |-> "word", w |-> w, cap |-> cap, arm |-> 1, plan |-> <<>>, heard |-> Silent]
    BY <1>1 DEF FreshWords
  <2>2. <<>> \in Seq(Steps(w)) /\ 1 \in 1 .. Arms + 1 /\ Silent \in Levels
    BY DEF Arms, Silent, Voiced, Levels
  <2>3. c \in WordsOf(w)
    BY <2>1, <2>2 DEF WordsOf
  <2> QED
    BY <2>3 DEF Frames
<1>2. CASE c \in AnswerFrames
  BY <1>2 DEF Frames
<1>3. CASE c \in RulesFrames
  BY <1>3 DEF Frames
<1>4. c \in AnswerFrames \cup FreshWords \cup RulesFrames
  BY DEF CallsUnder
<1> QED
  BY <1>1, <1>2, <1>3, <1>4

-----------------------------------------------------------------------------
(* Plans.                                                                  *)

Planned(w) == Seq(Steps(w))

(* A question about less is a step of each kind, and a plan by itself.     *)
LEMMA StepKinds ==
  ASSUME NEW w, NEW c \in CallsUnder(2 * Len(w) + 1), NEW want \in Silent .. Never
  PROVE  /\ Try(c, want) \in Steps(w) /\ <<Try(c, want)>> \in Planned(w)
         /\ Need(c, want) \in Steps(w) /\ <<Need(c, want)>> \in Planned(w)
         /\ Probe(c) \in Steps(w) /\ <<Probe(c)>> \in Planned(w)
         /\ After(c) \in Steps(w) /\ <<After(c)>> \in Planned(w)
<1>1. Never \in Silent .. Never
  BY DEF Never, Silent
<1>2. /\ Try(c, want) \in Steps(w) /\ Need(c, want) \in Steps(w)
      /\ Probe(c) \in Steps(w) /\ After(c) \in Steps(w)
  BY <1>1 DEF Try, Need, Probe, After, Step, Steps
<1>3. \A s \in Steps(w) : <<s>> \in Seq(Steps(w))
  OBVIOUS
<1> QED
  BY <1>2, <1>3 DEF Planned

(* The levels that a step may ask for.                                     *)
LEMMA WantedLevels == Dull \in Silent .. Never /\ Voiced \in Silent .. Never
                      /\ Never \in Silent .. Never
  BY DEF Dull, Voiced, Silent, Never

(* An arm that passes has an empty plan.                                   *)
LEMMA EmptyPlan ==
  ASSUME NEW w
  PROVE  <<>> \in Planned(w)
  BY DEF Planned

(* Plans are joined, and left out under a condition.                       *)
LEMMA PlansJoin ==
  ASSUME NEW w, NEW p \in Planned(w), NEW q \in Planned(w), NEW condition
  PROVE  p \o q \in Planned(w) /\ If(condition, p) \in Planned(w)
  BY DEF Planned, If

(* A word in a dictionary is answered at once.                             *)
LEMMA KnownPlan ==
  ASSUME NEW w, NEW v
  PROVE  Known(v) \subseteq Planned(w)
<1>1. Answer(Sound(v)) \in CallsUnder(2 * Len(w) + 1)
  BY SoundLevel, AnswerCall
<1> QED
  BY <1>1, StepKinds, WantedLevels DEF Known

(* A stem of no more letters may be asked for.                             *)
LEMMA StemPlan ==
  ASSUME NEW w \in Spellings, NEW v \in Spellings, Len(v) <= Len(w),
         NEW want \in Silent .. Never
  PROVE  /\ <<Try(Stem(v), want)>> \in Planned(w) /\ TryStem(v) \in Planned(w)
         /\ <<Need(Stem(v), want)>> \in Planned(w) /\ <<Probe(Stem(v))>> \in Planned(w)
         /\ <<Try(StemOfS(v), want)>> \in Planned(w)
         /\ <<Try(OwnRules(v), want)>> \in Planned(w)
         /\ <<Try(DictOrRules(v, FALSE), want)>> \in Planned(w)
         /\ <<Try(DictOrRules(v, TRUE), want)>> \in Planned(w)
         /\ <<After(DictOrRules(v, FALSE))>> \in Planned(w)
<1>1. 2 * Len(w) + 1 \in Nat /\ 2 * Len(v) < 2 * Len(w) + 1
  BY DEF Spellings
<1>2. PICK n \in Nat : n = 2 * Len(w) + 1 /\ 2 * Len(v) < n
  BY <1>1
<1>3. Stem(v) \in CallsUnder(n) /\ StemOfS(v) \in CallsUnder(n)
  BY <1>2, StemsCall
<1>4. OwnRules(v) \in CallsUnder(n)
  BY <1>2, OwnRulesCall
<1>5. DictOrRules(v, FALSE) \in CallsUnder(n) /\ DictOrRules(v, TRUE) \in CallsUnder(n)
  BY <1>2, DictOrRulesCall
<1>6. \A c \in CallsUnder(n), goal \in Silent .. Never :
        /\ <<Try(c, goal)>> \in Planned(w) /\ <<Need(c, goal)>> \in Planned(w)
        /\ <<Probe(c)>> \in Planned(w) /\ <<After(c)>> \in Planned(w)
  BY <1>2, StepKinds
<1> QED
  BY <1>3, <1>4, <1>5, <1>6, WantedLevels DEF TryStem

(* What the plans of -ing and -ed are made of, for a base of the word.     *)
LEMMA StemsWithE ==
  ASSUME NEW w \in Spellings, NEW base \in Spellings, Len(base) + 1 <= Len(w), NEW cvrc
  PROVE  /\ LastWithE(base) \in Planned(w) /\ FirstWithE(base) \in Planned(w)
         /\ NasalProbe(base, cvrc) \in Planned(w)
         /\ TryStem(E(base)) \in Planned(w) /\ TryStem(base) \in Planned(w)
<1>1. E(base) \in Spellings /\ Len(E(base)) <= Len(w) /\ Len(base) <= Len(w)
  <2>1. E(base) \in Spellings /\ Len(E(base)) = Len(base) + 1
    BY LongerSpelling
  <2> QED
    BY <2>1 DEF Spellings
<1>2. /\ <<Try(Stem(E(base)), Voiced)>> \in Planned(w) /\ <<Probe(Stem(base))>> \in Planned(w)
      /\ TryStem(E(base)) \in Planned(w) /\ TryStem(base) \in Planned(w)
  BY <1>1, StemPlan, WantedLevels
<1>3. \A p \in Planned(w) : \A condition : If(condition, p) \in Planned(w)
  BY PlansJoin
<1> QED
  BY <1>2, <1>3 DEF LastWithE, FirstWithE, NasalProbe

(* ing_magic_e_stem(): the base is probed before it is tried.              *)
LEMMA MagicEPlans ==
  ASSUME NEW w \in Spellings, NEW base \in Spellings, Len(base) <= Len(w),
         NEW cvc, NEW tries \in Planned(w)
  PROVE  MagicE(base, cvc, tries) \subseteq Planned(w)
<1>1. <<Probe(Stem(base))>> \in Planned(w)
  BY StemPlan, WantedLevels
<1>2. \A p, q \in Planned(w) : \A c1, c2 : If(c1, p) \o If(c2, q) \in Planned(w)
  BY PlansJoin
<1> QED
  BY <1>1, <1>2 DEF MagicE

(* A consonant twice at the end, or an i, taken off and given back.        *)
LEMMA ShorterStems ==
  ASSUME NEW w \in Spellings, NEW base \in Spellings, Len(base) + 1 <= Len(w)
  PROVE  /\ Doubled(base) => TryStem(Cut(base, 1)) \in Planned(w)
         /\ Ends(base, <<"i">>) => TryStem(Y(Cut(base, 1))) \in Planned(w)
<1>1. Len(base) \in Nat /\ Len(w) \in Nat
  BY DEF Spellings
<1>2. ASSUME 1 <= Len(base)
      PROVE  TryStem(Cut(base, 1)) \in Planned(w) /\ TryStem(Y(Cut(base, 1))) \in Planned(w)
  <2>1. PICK v \in Spellings : v = Cut(base, 1) /\ Len(v) = Len(base) - 1
    BY <1>2, CutSpelling
  <2>2. Y(v) \in Spellings /\ Len(Y(v)) = Len(v) + 1
    BY LongerSpelling
  <2>3. Len(v) <= Len(w) /\ Len(Y(v)) <= Len(w)
    BY <1>1, <2>1, <2>2
  <2> QED
    BY <2>1, <2>2, <2>3, StemPlan, WantedLevels
<1>3. Doubled(base) => 1 <= Len(base)
  BY <1>1 DEF Doubled
<1>4. Ends(base, <<"i">>) => 1 <= Len(base)
  <2>1. Len(Reverse(<<"i">>)) = 1 /\ Len(Reverse(base)) = Len(base)
    BY <1>1 DEF Reverse
  <2> QED
    BY <1>1, <2>1 DEF Ends, IsSuffix, IsPrefix
<1> QED
  BY <1>2, <1>3, <1>4

(* A word is no shorter than its ending.                                   *)
LEMMA EndsLength ==
  ASSUME NEW w \in Spellings, NEW ending \in Spellings, Ends(w, ending)
  PROVE  Len(ending) <= Len(w)
<1>1. Len(Reverse(ending)) = Len(ending) /\ Len(Reverse(w)) = Len(w)
  BY DEF Reverse, Spellings
<1> QED
  BY <1>1 DEF Ends, IsSuffix, IsPrefix

(* -ing.                                                                   *)
LEMMA IngPlans ==
  ASSUME NEW w \in Spellings
  PROVE  Ing(w) \subseteq Planned(w)
<1>1. <<>> \in Planned(w)
  BY EmptyPlan
<1>2. CASE Len(w) < 5 \/ ~Ends(w, <<"i", "n", "g">>)
  BY <1>1, <1>2 DEF Ing, Passes
<1>3. CASE Len(w) >= 5
  <2>1. PICK base \in Spellings : base = Cut(w, 3) /\ Len(base) + 1 <= Len(w)
    <3>1. Cut(w, 3) \in Spellings /\ Len(Cut(w, 3)) = Len(w) - 3
      BY <1>3, CutSpelling
    <3> QED
      BY <1>3, <3>1 DEF Spellings
  <2>2. /\ LastWithE(base) \in Planned(w) /\ FirstWithE(base) \in Planned(w)
        /\ NasalProbe(base, TRUE) \in Planned(w)
        /\ TryStem(E(base)) \in Planned(w) /\ TryStem(base) \in Planned(w)
    BY <2>1, StemsWithE
  <2>3. <<Try(OwnRules(E(base)), Dull)>> \in Planned(w)
    <3>1. E(base) \in Spellings /\ Len(E(base)) <= Len(w)
      BY <2>1, LongerSpelling
    <3> QED
      BY <3>1, StemPlan, WantedLevels
  <2>4. \A p, q \in Planned(w) : p \o q \in Planned(w)
    BY PlansJoin
  <2>5. \A p \in Planned(w) : \A condition : If(condition, p) \in Planned(w)
    BY PlansJoin
  <2>6. ASSUME NEW cvc PROVE IngStems(base, cvc) \subseteq Planned(w)
    <3>1. PICK tries \in Planned(w) :
            tries = If(E(base) \in strend_words, <<Try(OwnRules(E(base)), Dull)>>)
                      \o TryStem(E(base)) \o TryStem(base)
      BY <2>2, <2>3, <2>4, <2>5
    <3>2. MagicE(base, cvc, tries) \subseteq Planned(w)
      BY <2>1, MagicEPlans
    <3>3. FirstWithE(base) \o TryStem(base) \o LastWithE(base) \in Planned(w)
      BY <2>2, <2>4
    <3> QED
      BY <3>1, <3>2, <3>3 DEF IngStems
  <2>7. PICK again \in Planned(w) :
          again = If(Doubled(base), TryStem(Cut(base, 1)))
                    \o If(Ends(base, <<"i">>), TryStem(Y(Cut(base, 1))))
    <3>1. If(Doubled(base), TryStem(Cut(base, 1))) \in Planned(w)
      BY <1>1, <2>1, ShorterStems DEF If
    <3>2. If(Ends(base, <<"i">>), TryStem(Y(Cut(base, 1)))) \in Planned(w)
      BY <1>1, <2>1, ShorterStems DEF If
    <3> QED
      BY <2>4, <3>1, <3>2
  <2>8. PICK found : /\ found = UNION {IngStems(base, cvc) : cvc \in Patterns(base, TRUE)}
                     /\ found \subseteq Planned(w)
    BY <2>6
  <2>9. PICK probe \in Planned(w) : probe = NasalProbe(base, TRUE)
    BY <2>2
  <2>10. Ing(w) \subseteq Passes \cup {probe \o stems \o again : stems \in found}
    BY <2>1, <2>7, <2>8, <2>9 DEF Ing
  <2>11. \A stems \in found : probe \o stems \o again \in Planned(w)
    BY <2>4, <2>8
  <2> QED
    BY <1>1, <2>10, <2>11 DEF Passes
<1> QED
  BY <1>2, <1>3 DEF Spellings

(* The afterthoughts are about the word's own rules.                       *)
LEMMA AfterPlans ==
  ASSUME NEW w \in Spellings, NEW alt \in SUBSET Nat
  PROVE  Afterthoughts(w, alt) \subseteq Planned(w)
<1>1. PICK n \in Nat : n = 2 * Len(w) + 1 /\ 2 * Len(w) < n
  BY DEF Spellings
<1>2. RulesCall(w, FALSE, alt, FALSE, FALSE) \in CallsUnder(n)
  BY <1>1, RulesCallFrame
<1>3. <<After(RulesCall(w, FALSE, alt, FALSE, FALSE))>> \in Planned(w)
  BY <1>1, <1>2, StepKinds, WantedLevels
<1> QED
  BY <1>3, EmptyPlan DEF Afterthoughts, Passes

(* -ed.                                                                    *)
LEMMA EdPlan ==
  ASSUME NEW w, NEW p \in Ed(w)
  PROVE  p = <<>> \/ \E cvc : p \in EdBy(w, Cut(w, 2), cvc)
  BY DEF Ed, Passes

(* check_suffix_ed(), whether or not the base is a candidate.              *)
LEMMA EdPlans ==
  ASSUME NEW w \in Spellings
  PROVE  Ed(w) \subseteq Planned(w)
<1>1. <<>> \in Planned(w)
  BY EmptyPlan
<1>2. CASE Len(w) < 5
  BY <1>1, <1>2 DEF Ed, Passes
<1>3. CASE Len(w) >= 5
  <2>1. PICK base \in Spellings : base = Cut(w, 2) /\ Len(base) + 1 <= Len(w)
    <3>1. Cut(w, 2) \in Spellings /\ Len(Cut(w, 2)) = Len(w) - 2
      BY <1>3, CutSpelling
    <3> QED
      BY <1>3, <3>1 DEF Spellings
  <2>2. /\ LastWithE(base) \in Planned(w) /\ FirstWithE(base) \in Planned(w)
        /\ NasalProbe(base, FALSE) \in Planned(w)
        /\ TryStem(E(base)) \in Planned(w) /\ TryStem(base) \in Planned(w)
    BY <2>1, StemsWithE
  <2>3. \A p, q \in Planned(w) : p \o q \in Planned(w)
    BY PlansJoin
  <2>4. \A condition : (condition => Doubled(base)) =>
          If(condition, TryStem(Cut(base, 1))) \in Planned(w)
    BY <1>1, <2>1, ShorterStems DEF If
  <2> DEFINE probe == NasalProbe(base, FALSE)
             first == If(Ends(base, <<"i">>), TryStem(Y(Cut(base, 1))))
             again == If(Doubled(base), TryStem(Cut(base, 1)) \o TryStem(base))
             afters == Afterthoughts(w, Alt(w))
  <2>5. probe \in Planned(w)
    BY <2>2
  <2>6. first \in Planned(w)
    BY <1>1, <2>1, ShorterStems DEF If
  <2>7. again \in Planned(w)
    <3>1. Doubled(base) => TryStem(Cut(base, 1)) \o TryStem(base) \in Planned(w)
      BY <2>1, <2>2, <2>3, ShorterStems
    <3> QED
      BY <1>1, <3>1 DEF If
  <2>8. EdPlain(base) \in Planned(w)
    <3>1. PICK double, prefer : EdPlain(base) =
            If(double /\ prefer, TryStem(Cut(base, 1))) \o FirstWithE(base) \o TryStem(base)
              \o If(double /\ ~prefer, TryStem(Cut(base, 1))) \o LastWithE(base)
            /\ (double => Doubled(base))
      BY DEF EdPlain
    <3>2. /\ If(double /\ prefer, TryStem(Cut(base, 1))) \in Planned(w)
          /\ If(double /\ ~prefer, TryStem(Cut(base, 1))) \in Planned(w)
      BY <2>4, <3>1
    <3> QED
      BY <2>2, <2>3, <3>1, <3>2
  <2>9. ASSUME NEW cvc PROVE EdStems(base, cvc) \subseteq Planned(w)
    <3>1. PICK tries \in Planned(w) : tries = TryStem(E(base)) \o TryStem(base)
      BY <2>2, <2>3
    <3>2. MagicE(base, cvc, tries) \subseteq Planned(w)
      BY <2>1, MagicEPlans
    <3> QED
      BY <2>8, <3>1, <3>2 DEF EdStems
  <2>10. afters \subseteq Planned(w)
    <3>1. Alt(w) \in SUBSET Nat
      BY AltNumbers
    <3> QED
      BY <3>1, AfterPlans
  <2> HIDE DEF probe, first, again, afters
  <2>11. \A stems, after \in Planned(w) :
           probe \o first \o stems \o again \o after \in Planned(w)
    BY <2>3, <2>5, <2>6, <2>7
  <2>12. ASSUME NEW cvc, NEW p \in EdBy(w, base, cvc) PROVE p \in Planned(w)
    <3>1. CASE WantsE(base, cvc) /\ HasPrefixAtStart(E(base))
      <4>1. p = probe
        BY <2>12, <3>1 DEF EdBy, probe
      <4> QED
        BY <2>5, <4>1
    <3>2. ASSUME EdBy(w, base, cvc) = {probe \o first \o stems \o again \o after :
                                         stems \in EdStems(base, cvc), after \in afters}
          PROVE  p \in Planned(w)
      <4>1. PICK stems \in EdStems(base, cvc), after \in afters :
              p = probe \o first \o stems \o again \o after
        BY <2>12, <3>2
      <4> QED
        BY <2>9, <2>10, <2>11, <4>1
    <3>3. CASE ~WantsE(base, cvc)
      BY <3>2, <3>3 DEF EdBy, probe, first, again, afters
    <3>4. CASE ~HasPrefixAtStart(E(base))
      BY <3>2, <3>4 DEF EdBy, probe, first, again, afters
    <3> QED
      BY <3>1, <3>3, <3>4
  <2> QED
    BY <1>1, <2>1, <2>12, EdPlan
<1> QED
  BY <1>2, <1>3 DEF Spellings

(* The plural.                                                             *)
LEMMA PluralPlans ==
  ASSUME NEW w \in Spellings
  PROVE  /\ Ies(w) \subseteq Planned(w) /\ DictS(w) \subseteq Planned(w)
         /\ MagicEs(w) \subseteq Planned(w)
         /\ ChShEs(w) \subseteq Planned(w) /\ Xes(w) \subseteq Planned(w)
<1>1. <<>> \in Planned(w) /\ Len(w) \in Nat
  BY EmptyPlan DEF Spellings
<1>2. \A n \in 1 .. 3 : n <= Len(w) => Cut(w, n) \in Spellings /\ Len(Cut(w, n)) = Len(w) - n
  BY CutSpelling
<1>3. \A p, q \in Planned(w) : p \o q \in Planned(w)
  BY PlansJoin
<1>4. \A p \in Planned(w) : \A condition : If(condition, p) \in Planned(w)
  BY PlansJoin
<1>5. Ies(w) \subseteq Planned(w)
  <2>1. CASE Len(w) < 4 \/ ~Ends(w, <<"i", "e", "s">>)
    BY <1>1, <2>1 DEF Ies, Passes
  <2>2. CASE Len(w) >= 4
    <3>1. PICK v \in Spellings : v = Y(Cut(w, 3)) /\ Len(v) <= Len(w)
      <4>1. Cut(w, 3) \in Spellings /\ Len(Cut(w, 3)) = Len(w) - 3
        BY <1>1, <1>2, <2>2
      <4>2. Y(Cut(w, 3)) \in Spellings /\ Len(Y(Cut(w, 3))) = Len(Cut(w, 3)) + 1
        BY <4>1, LongerSpelling
      <4> QED
        BY <1>1, <4>1, <4>2
    <3>2. PICK need \in Planned(w) : need = <<Need(Stem(v), Voiced)>>
      BY <3>1, StemPlan, WantedLevels
    <3>3. Afterthoughts(w, {}) \subseteq Planned(w)
      BY AfterPlans
    <3>4. Ies(w) \subseteq Passes \cup {need \o after : after \in Afterthoughts(w, {})}
      BY <3>1, <3>2 DEF Ies
    <3> QED
      BY <1>1, <1>3, <3>2, <3>3, <3>4 DEF Passes
  <2> QED
    BY <1>1, <2>1, <2>2
<1>6. DictS(w) \subseteq Planned(w)
  <2>1. CASE Len(w) < 3 \/ ~PluralS(w)
    BY <1>1, <2>1 DEF DictS, Passes
  <2>2. CASE Len(w) >= 3
    <3>1. PICK s, t \in Spellings : /\ s = Cut(w, 1) /\ Len(s) <= Len(w)
                                     /\ t = Cut(w, 2) /\ Len(t) <= Len(w)
      BY <1>1, <1>2, <2>2
    <3>2. <<Try(StemOfS(s), Voiced)>> \in Planned(w)
      BY <3>1, StemPlan, WantedLevels
    <3>3. \A want \in {Voiced, Never} : <<Try(StemOfS(t), want)>> \in Planned(w)
      BY <3>1, StemPlan, WantedLevels
    <3>4. ASSUME NEW p \in DictS(w) PROVE p \in Planned(w)
      <4>1. p = <<>> \/ \E want \in {Voiced, Never} : \E c1, c2 :
              p = If(c1, <<Try(StemOfS(s), Voiced)>>) \o If(c2, <<Try(StemOfS(t), want)>>)
        BY <3>1 DEF DictS, Passes
      <4>2. ASSUME NEW want \in {Voiced, Never}, NEW c1, NEW c2
            PROVE  If(c1, <<Try(StemOfS(s), Voiced)>>) \o If(c2, <<Try(StemOfS(t), want)>>)
                     \in Planned(w)
        BY <1>3, <1>4, <3>2, <3>3
      <4> QED
        BY <1>1, <4>1, <4>2
    <3> QED
      BY <3>4
  <2> QED
    BY <1>1, <2>1, <2>2
<1>7. MagicEs(w) \subseteq Planned(w)
  <2>1. CASE Len(w) < 4
    BY <1>1, <2>1 DEF MagicEs, Passes
  <2>2. CASE Len(w) >= 4
    <3>1. PICK v \in Spellings : v = Cut(w, 1) /\ Len(v) <= Len(w)
      BY <1>1, <1>2, <2>2
    <3>2. \A only \in BOOLEAN : <<Try(DictOrRules(v, only), Voiced)>> \in Planned(w)
      BY <3>1, StemPlan, WantedLevels
    <3>3. \A p \in MagicEs(w) :
            p = <<>> \/ \E only \in BOOLEAN : p = <<Try(DictOrRules(v, only), Voiced)>>
      BY <3>1 DEF MagicEs, Passes
    <3> QED
      BY <1>1, <3>2, <3>3
  <2> QED
    BY <1>1, <2>1, <2>2
<1>8. ASSUME NEW endings PROVE SibilantEs(w, endings) \subseteq Planned(w)
  <2>1. CASE Len(w) < 4
    <3>1. ~(Len(w) >= 4)
      BY <1>1, <2>1
    <3>2. SibilantEs(w, endings) = {<<>>}
      BY <3>1, Zenon DEF SibilantEs, Passes
    <3> QED
      BY <1>1, <3>2
  <2>2. CASE Len(w) >= 4
    <3>1. PICK v \in Spellings : v = Cut(w, 2) /\ Len(v) <= Len(w)
      BY <1>1, <1>2, <2>2
    <3>2. <<Try(DictOrRules(v, FALSE), Voiced)>> \in Planned(w)
      BY <3>1, StemPlan, WantedLevels
    <3> QED
      BY <1>1, <3>1, <3>2 DEF SibilantEs, Passes
  <2> QED
    BY <1>1, <2>1, <2>2
<1>9. ChShEs(w) \subseteq Planned(w) /\ Xes(w) \subseteq Planned(w)
  BY <1>1, <1>8 DEF ChShEs, Xes, Passes
<1> QED
  BY <1>5, <1>6, <1>7, <1>8, <1>9

(* -arily, behind which the stem keeps its ari, and the possessive.        *)
LEMMA ArilyPlans ==
  ASSUME NEW w \in Spellings
  PROVE  Arily(w) \subseteq Planned(w)
<1>1. <<>> \in Planned(w) /\ Len(w) \in Nat
  BY EmptyPlan DEF Spellings
<1>2. CASE Len(w) < 8
  BY <1>1, <1>2 DEF Arily, Passes
<1>3. CASE Len(w) >= 8
  <2>1. Cut(w, 5) \in Spellings /\ Len(Cut(w, 5)) = Len(w) - 5
    BY <1>3, CutSpelling
  <2>2. <<"a", "r", "i">> \in Spellings /\ Len(<<"a", "r", "i">>) = 3
    <3>1. "a" \in Chars /\ "r" \in Chars /\ "i" \in Chars
      BY DEF Chars
    <3> QED
      BY <3>1 DEF Spellings
  <2>3. PICK v \in Spellings : v = Cut(w, 5) \o <<"a", "r", "i">> /\ Len(v) <= Len(w)
    <3>1. PICK stem \in Spellings, ari \in Spellings :
            /\ stem = Cut(w, 5) /\ Len(stem) = Len(w) - 5
            /\ ari = <<"a", "r", "i">> /\ Len(ari) = 3
      BY <2>1, <2>2
    <3>2. stem \o ari \in Spellings /\ Len(stem \o ari) = Len(w) - 5 + 3
      BY <3>1 DEF Spellings
    <3>3. Len(stem \o ari) <= Len(w)
      BY <1>1, <3>2
    <3> QED
      BY <3>1, <3>2, <3>3
  <2>4. \A want \in {Dull, Never} : <<Try(DictOrRules(v, FALSE), want)>> \in Planned(w)
    BY <2>3, StemPlan, WantedLevels
  <2>5. \A p \in Arily(w) :
          p = <<>> \/ \E want \in {Dull, Never} : p = <<Try(DictOrRules(v, FALSE), want)>>
    BY <2>3 DEF Arily, Passes
  <2> QED
    BY <1>1, <2>4, <2>5
<1> QED
  BY <1>1, <1>2, <1>3

(* A step that asks for a shorter word.                                    *)
LEMMA ShorterWord ==
  ASSUME NEW w \in Spellings, NEW v \in Spellings, Len(v) < Len(w), NEW want \in Silent .. Never
  PROVE  /\ <<Need(WordCall(v, FALSE), want)>> \in Planned(w)
         /\ Need(WordCall(v, FALSE), want) \in Steps(w)
         /\ <<Probe(WordCall(v, FALSE))>> \in Planned(w)
<1>1. PICK n \in Nat : n = 2 * Len(w) + 1 /\ 2 * Len(v) + 1 < n
  BY DEF Spellings
<1>2. WordCall(v, FALSE) \in CallsUnder(n)
  BY <1>1, WordCallFrame
<1> QED
  BY <1>1, <1>2, StepKinds

(* check_possessive(): the base is a shorter word, spoken by the           *)
(* dictionary or by the rules.                                             *)
LEMMA PossessivePlans ==
  ASSUME NEW w \in Spellings
  PROVE  Possessive(w) \subseteq Planned(w)
<1>1. <<>> \in Planned(w) /\ Len(w) \in Nat
  BY EmptyPlan DEF Spellings
<1>2. CASE Len(w) < 3
  BY <1>1, <1>2 DEF Possessive, Passes
<1>3. CASE Len(w) >= 3
  <2>1. PICK v \in Spellings : v = Cut(w, 2) /\ Len(v) < Len(w) /\ Len(v) <= Len(w)
    <3>1. Cut(w, 2) \in Spellings /\ Len(Cut(w, 2)) = Len(w) - 2
      BY <1>3, CutSpelling
    <3> QED
      BY <1>1, <3>1
  <2>2. <<Need(WordCall(v, FALSE), Dull)>> \in Planned(w)
    BY <2>1, ShorterWord, WantedLevels
  <2>3. <<After(DictOrRules(v, FALSE))>> \in Planned(w)
    BY <2>1, StemPlan, WantedLevels
  <2>4. <<Need(WordCall(v, FALSE), Dull), After(DictOrRules(v, FALSE))>> \in Planned(w)
    <3>1. \A s, t : <<s>> \in Planned(w) /\ <<t>> \in Planned(w) => <<s, t>> \in Planned(w)
      BY DEF Planned
    <3> QED
      BY <2>2, <2>3, <3>1
  <2> QED
    BY <1>1, <2>1, <2>4 DEF Possessive, Passes
<1> QED
  BY <1>1, <1>2, <1>3

(* A word behind a compound prefix.                                        *)
LEMMA CompoundPlans ==
  ASSUME NEW w \in Spellings
  PROVE  CompoundPrefixes(w) \subseteq Planned(w)
<1>1. <<>> \in Planned(w) /\ Len(w) \in Nat
  BY EmptyPlan DEF Spellings
<1>2. PICK i : i = SelectInSeq(compound_prefixes, LAMBDA prefix : PrefixFits(prefix, w))
  OBVIOUS
<1>3. CASE Len(w) < 5 \/ i = 0
  BY <1>1, <1>2, <1>3 DEF CompoundPrefixes, Passes
<1>4. CASE Len(w) >= 5 /\ i # 0
  <2>1. PICK fit : /\ fit = {k \in 1 .. Len(compound_prefixes) :
                                  PrefixFits(compound_prefixes[k], w)}
                   /\ i = IF fit # {} THEN Min(fit) ELSE 0
    BY <1>2 DEF SelectInSeq
  <2>2. i \in fit
    <3>1. fit \subseteq Nat /\ fit # {}
      BY <1>4, <2>1, WordsAssumption
    <3> QED
      BY <2>1, <3>1, MinFound
  <2>3. compound_prefixes[i] \in Seq(STRING) /\ Len(compound_prefixes[i]) >= 4
    <3>1. i \in 1 .. Len(compound_prefixes) /\ PrefixFits(compound_prefixes[i], w)
      BY <2>1, <2>2
    <3>2. compound_prefixes[i] \in Seq(STRING)
      BY <3>1, WordsAssumption
    <3> QED
      BY <3>1, <3>2 DEF PrefixFits
  <2>4. PICK n \in Nat : n = Len(compound_prefixes[i]) /\ n >= 4
    BY <2>3
  <2>5. PICK rest \in Spellings : rest = SubSeq(w, n + 1, Len(w)) /\ Len(rest) < Len(w)
    <3>1. SubSeq(w, n + 1, Len(w)) \in Spellings
      BY <2>4 DEF Spellings
    <3>2. Len(SubSeq(w, n + 1, Len(w))) < Len(w)
      <4>1. PICK m \in Nat : m = Len(w) /\ m >= 5
        BY <1>1, <1>4
      <4>2. \A a, b \in Nat : Len(SubSeq(w, a, b)) = IF a <= b THEN b - a + 1 ELSE 0
        BY DEF Spellings
      <4>3. PICK k \in Nat : k = n + 1 /\ k >= 5
        BY <2>4
      <4>4. Len(SubSeq(w, k, m)) = IF k <= m THEN m - k + 1 ELSE 0
        BY <4>1, <4>2, <4>3
      <4>5. (IF k <= m THEN m - k + 1 ELSE 0) < m
        BY <4>1, <4>3
      <4> QED
        BY <4>1, <4>3, <4>4, <4>5
    <3> QED
      BY <3>1, <3>2
  <2>6. <<Probe(WordCall(rest, FALSE))>> \in Planned(w)
    BY <2>5, ShorterWord, WantedLevels
  <2>7. <<Try(Answer(Voiced), Dull)>> \in Planned(w)
    <3>1. Voiced \in Levels
      BY DEF Voiced, Levels, Silent
    <3> QED
      BY <3>1, AnswerCall, StepKinds, WantedLevels
  <2>8. <<Probe(WordCall(rest, FALSE)), Try(Answer(Voiced), Dull)>> \in Planned(w)
    <3>1. \A s, t : <<s>> \in Planned(w) /\ <<t>> \in Planned(w) => <<s, t>> \in Planned(w)
      BY DEF Planned
    <3> QED
      BY <2>6, <2>7, <3>1
  <2> QED
    BY <1>1, <1>2, <2>4, <2>5, <2>8 DEF CompoundPrefixes, Passes
<1> QED
  BY <1>1, <1>3, <1>4

(* A segment of a word with a hyphen is shorter than the word.             *)
LEMMA SegmentShort ==
  ASSUME NEW w \in Spellings, Hyphens(w) # {}, NEW i \in 1 .. Len(w)
  PROVE  Segment(w, i) \in {v \in Spellings : Len(v) < Len(w)}
<1>1. PICK n \in Nat : n = Len(w) /\ i \in 1 .. n
  BY DEF Spellings
<1>2. PICK h \in 1 .. n : h \in Hyphens(w)
  BY <1>1 DEF Hyphens, Spellings
<1>3. PICK ends : ends = {g \in Hyphens(w) \cup {n + 1} : g >= i}
  OBVIOUS
<1>4. ends \subseteq Nat /\ n + 1 \in ends
  BY <1>1, <1>3 DEF Hyphens, Spellings
<1>5. PICK end \in Nat : end = Min(ends) /\ end \in ends /\ \A g \in ends : end <= g
  BY <1>4, MinFound
<1>6. end - 1 \in 0 .. n /\ (i = 1 => end - 1 < n)
  <2>1. end <= n + 1 /\ end >= i
    BY <1>3, <1>4, <1>5
  <2>2. i = 1 => end <= h
    BY <1>2, <1>3, <1>5
  <2> QED
    BY <1>1, <1>2, <2>1, <2>2
<1>7. PICK last \in 0 .. n : last = end - 1 /\ (i = 1 => last < n)
  BY <1>6
<1>8. Segment(w, i) = SubSeq(w, i, last)
  BY <1>1, <1>3, <1>5, <1>7 DEF Segment
<1>9. /\ SubSeq(w, i, last) \in Spellings
      /\ Len(SubSeq(w, i, last)) = IF i <= last THEN last - i + 1 ELSE 0
  BY <1>1 DEF Spellings
<1>10. (IF i <= last THEN last - i + 1 ELSE 0) < n
  BY <1>1, <1>7
<1> QED
  BY <1>1, <1>8, <1>9, <1>10

(* So is each of the segments, in the order they are found.                *)
LEMMA SegmentsShort ==
  ASSUME NEW w \in Spellings, Hyphens(w) # {}
  PROVE  Segments(w) \in Seq({v \in Spellings : Len(v) < Len(w)})
<1> DEFINE places == [j \in DOMAIN w |-> j]
           n == Len(w)
           D == Seq({v \in Spellings : Len(v) < Len(w)})
           One(x, i) == IF i = 1 \/ i - 1 \in Hyphens(w) THEN Append(x, Segment(w, i)) ELSE x
           step == [p \in (1 .. n) \X D |-> One(p[2], p[1])]
           Walk(g) == g = [s \in SUBSET DOMAIN places |->
                             IF s = {} THEN <<>> ELSE One(g[s \ {Max(s)}], places[Max(s)])]
<1>1. <<>> \in D
  OBVIOUS
<1>2. n \in Nat /\ DOMAIN places = 1 .. n /\ \A i \in 1 .. n : places[i] = i
  BY DEF Spellings
<1>3. \A i \in 1 .. n, x \in D : One(x, i) \in D
  BY SegmentShort
<1> HIDE DEF D, One, places
<1>4. step \in [(1 .. n) \X D -> D]
  BY <1>3
<1>5. PICK f : IsFold(f, n, D, <<>>, step)
  <2> HIDE DEF step, n
  <2>1. n \in Nat /\ <<>> \in D /\ step \in [(1 .. n) \X D -> D]
    BY <1>1, <1>2, <1>4
  <2> QED
    BY <2>1, FoldExists
<1>6. Walk(f)
  <2>1. SUFFICES ASSUME NEW s \in SUBSET (1 .. n)
                 PROVE  f[s] = IF s = {} THEN <<>> ELSE One(f[s \ {Max(s)}], places[Max(s)])
    BY <1>2, <1>5 DEF IsFold
  <2>2. CASE s # {}
    <3>1. PICK m \in 1 .. n : m = Max(s)
      <4>1. s \subseteq Nat /\ \A j \in s : j <= n
        BY <1>2
      <4>2. Max(s) \in s
        BY <1>2, <2>2, <4>1, MaxFound
      <4> QED
        BY <4>2
    <3>2. f[s \ {m}] \in D /\ places[m] = m
      BY <1>2, <1>5 DEF IsFold
    <3> QED
      BY <1>5, <2>2, <3>1, <3>2 DEF IsFold
  <2> QED
    BY <1>5, <2>2 DEF IsFold
<1>7. PICK g : g = (CHOOSE h : Walk(h)) /\ Walk(g)
  BY <1>6
<1>8. Segments(w) = g[DOMAIN places]
  BY <1>7 DEF Segments, FoldLeftDomain, FoldLeft, MapThenFoldSet, One, places
<1> DEFINE T == [k \in 0 .. n |-> D]
<1>9. \A s \in SUBSET (1 .. n) :
        g[s] = IF s = {} THEN <<>> ELSE One(g[s \ {Max(s)}], places[Max(s)])
  <2>1. Walk(g) /\ DOMAIN places = 1 .. n
    BY <1>2, <1>7
  <2> HIDE DEF n
  <2> QED
    BY <2>1
<1>10. \A k \in 1 .. n : g[1 .. k - 1] \in D => g[1 .. k] \in D
  <2>1. SUFFICES ASSUME NEW k \in 1 .. n, g[1 .. k - 1] \in D PROVE g[1 .. k] \in D
    OBVIOUS
  <2>2. /\ Max(1 .. k) = k /\ (1 .. k) \ {k} = 1 .. k - 1
        /\ 1 .. k \in SUBSET (1 .. n) /\ 1 .. k # {}
    BY <1>2, FoldLast
  <2>3. g[1 .. k] = One(g[1 .. k - 1], k)
    BY <1>2, <1>9, <2>2
  <2> QED
    BY <1>3, <2>1, <2>3
<1>11. g[{}] \in D
  BY <1>1, <1>9
<1>12. g[1 .. n] \in T[n]
  <2>1. \A k \in 0 .. n : T[k] = D
    OBVIOUS
  <2>2. \A k \in 1 .. n : k \in 0 .. n /\ k - 1 \in 0 .. n
    BY <1>2
  <2>3. g[{}] \in T[0]
    BY <1>2, <1>11, <2>1
  <2>4. \A k \in 1 .. n : g[1 .. k - 1] \in T[k - 1] => g[1 .. k] \in T[k]
    BY <1>10, <2>1, <2>2
  <2> HIDE DEF T, n
  <2> QED
    BY <1>2, <2>3, <2>4, FoldClimbs, ZenonT(30)
<1> QED
  BY <1>2, <1>8, <1>12 DEF D

(* A plan for each segment.                                                *)
LEMMA HyphenPlans ==
  ASSUME NEW w \in Spellings
  PROVE  Hyphenated(w) \subseteq Planned(w)
<1>1. <<>> \in Planned(w) /\ Len(w) \in Nat
  BY EmptyPlan DEF Spellings
<1>2. PICK first : first = SelectInSeq(w, LAMBDA c : c = "-")
  OBVIOUS
<1>3. CASE first <= 1 \/ first = Len(w)
  BY <1>1, <1>2, <1>3 DEF Hyphenated, Passes
<1>4. CASE ~(first <= 1 \/ first = Len(w))
  <2>1. Hyphens(w) # {}
    <3>1. PICK all : /\ all = {i \in 1 .. Len(w) : w[i] = "-"}
                         /\ first = IF all # {} THEN Min(all) ELSE 0
      BY <1>2 DEF SelectInSeq
    <3>2. all = Hyphens(w)
      BY <3>1 DEF Hyphens, Spellings
    <3> QED
      BY <1>4, <3>1, <3>2
  <2>2. PICK parts : parts = Segments(w) /\ parts \in Seq({v \in Spellings : Len(v) < Len(w)})
    BY <2>1, SegmentsShort
  <2> DEFINE PartCall(part) == IF ToSet(part) \cap Letters = {} THEN Answer(Silent)
                               ELSE WordCall(part, FALSE)
             plan == [k \in DOMAIN parts |-> Need(PartCall(parts[k]), Dull)]
  <2>3. Hyphenated(w) = {plan}
    BY <1>2, <1>4, <2>2 DEF Hyphenated
  <2>4. ASSUME NEW k \in DOMAIN parts PROVE Need(PartCall(parts[k]), Dull) \in Steps(w)
    <3>1. parts[k] \in Spellings /\ Len(parts[k]) < Len(w)
      BY <2>2
    <3>2. Need(WordCall(parts[k], FALSE), Dull) \in Steps(w)
      BY <3>1, ShorterWord, WantedLevels
    <3>3. Need(Answer(Silent), Dull) \in Steps(w)
      <4>1. Silent \in Levels
        BY DEF Silent, Voiced, Levels
      <4> QED
        BY <4>1, AnswerCall, StepKinds, WantedLevels
    <3> QED
      BY <3>2, <3>3
  <2>5. plan \in Planned(w)
    <3> HIDE DEF PartCall
    <3>1. DOMAIN parts = 1 .. Len(parts) /\ Len(parts) \in Nat
      BY <2>2
    <3>2. plan \in [1 .. Len(parts) -> Steps(w)]
      BY <2>4, <3>1
    <3> QED
      BY <3>1, <3>2 DEF Planned
  <2> QED
    BY <2>3, <2>5
<1> QED
  BY <1>3, <1>4

(* Every arm's plans.                                                      *)
LEMMA PlansShort ==
  ASSUME NEW f, f.w \in Spellings, f.arm \in 1 .. Arms
  PROVE  Plans(f) \subseteq Planned(f.w)
<1>1. PICK w \in Spellings : w = f.w
  OBVIOUS
<1>2. <<>> \in Planned(w) /\ \A v : Known(v) \subseteq Planned(w)
  BY EmptyPlan, KnownPlan
<1>3. /\ CapitalDict(w, f.cap) \subseteq Planned(w) /\ MainDict(w) \subseteq Planned(w)
      /\ SingleLetter(w) \subseteq Planned(w)
  BY <1>2 DEF CapitalDict, MainDict, SingleLetter, Passes
<1>4. RulesFallback(w) \subseteq Planned(w)
  <2>1. <<Try(OwnRules(w), Dull)>> \in Planned(w)
    <3>1. Len(w) <= Len(w)
      BY DEF Spellings
    <3> QED
      BY <3>1, StemPlan, WantedLevels
  <2> QED
    BY <2>1 DEF RulesFallback
<1>5. /\ Hyphenated(w) \subseteq Planned(w) /\ Possessive(w) \subseteq Planned(w)
      /\ Ing(w) \subseteq Planned(w) /\ Ed(w) \subseteq Planned(w)
      /\ Arily(w) \subseteq Planned(w) /\ CompoundPrefixes(w) \subseteq Planned(w)
  BY HyphenPlans, PossessivePlans, IngPlans, EdPlans, ArilyPlans, CompoundPlans
<1>6. /\ Ies(w) \subseteq Planned(w) /\ DictS(w) \subseteq Planned(w)
      /\ MagicEs(w) \subseteq Planned(w)
      /\ ChShEs(w) \subseteq Planned(w) /\ Xes(w) \subseteq Planned(w)
  BY PluralPlans
<1> HIDE DEF Planned
<1> QED
  BY <1>1, <1>3, <1>4, <1>5, <1>6 DEF Plans, Arms

(* What is left of a plan.                                                 *)
LEMMA LeftPlanned ==
  ASSUME NEW w, NEW plan \in Planned(w), NEW heard
  PROVE  Left(plan, heard) \in Planned(w)
<1>1. PICK next, use : /\ use = {i \in 1 .. Len(plan) : ~Idle(plan[i], heard)}
                       /\ next = IF use # {} THEN Min(use) ELSE 0
                       /\ Left(plan, heard) = IF next = 0 THEN <<>>
                                              ELSE SubSeq(plan, next, Len(plan))
  BY DEF Left, SelectInSeq
<1>2. next = 0 \/ next \in 1 .. Len(plan)
  <2>1. use \subseteq Nat
    BY <1>1
  <2>2. use # {} => next \in use
    BY <1>1, <2>1, MinFound
  <2> QED
    BY <1>1, <2>2
<1>3. CASE next = 0
  BY <1>1, <1>3, EmptyPlan
<1>4. CASE next \in 1 .. Len(plan)
  <2>1. SubSeq(plan, next, Len(plan)) \in Seq(Steps(w))
    BY <1>4 DEF Planned
  <2>2. next # 0
    BY <1>4
  <2> QED
    BY <1>1, <2>1, <2>2 DEF Planned
<1> QED
  BY <1>2, <1>3, <1>4

-----------------------------------------------------------------------------
(* The calls of a rule.                                                    *)

(* A word without its ending is shorter, by two letters if the ending may  *)
(* have cost it an e.                                                      *)
LEMMA StrippedShort ==
  ASSUME NEW f, f.w \in Spellings, NEW rule, rule.strip \in Nat,
         Len(rule.match) \in 1 .. Len(f.w)
  PROVE  /\ Stripped(f, rule) \in Spellings /\ Len(Stripped(f, rule)) < Len(f.w)
         /\ rule.strip >= 2 /\ Len(rule.match) >= 2 => Len(Stripped(f, rule)) + 1 < Len(f.w)
<1>1. PICK w \in Spellings, m \in Nat : w = f.w /\ m = Len(w)
  BY DEF Spellings
<1>2. PICK n \in 1 .. m :
        /\ n = IF rule.strip = 0 \/ rule.strip > m THEN Len(rule.match) ELSE rule.strip
        /\ rule.strip >= 2 /\ Len(rule.match) >= 2 => n >= 2
  <2>1. CASE rule.strip = 0 \/ rule.strip > m
    BY <1>1, <2>1
  <2>2. CASE ~(rule.strip = 0 \/ rule.strip > m)
    <3>1. rule.strip \in 1 .. m
      BY <1>1, <2>2
    <3> QED
      BY <2>2, <3>1
  <2> QED
    BY <2>1, <2>2
<1>3. PICK stem \in Spellings : stem = Cut(w, n) /\ Len(stem) = m - n
  <2>1. n \in Nat /\ n <= Len(w)
    BY <1>1, <1>2
  <2> QED
    BY <1>1, <2>1, CutSpelling
<1>4. Stripped(f, rule) = IF "i" \in rule.flags /\ Ends(stem, <<"i">>)
                          THEN Y(Cut(stem, 1)) ELSE stem
  BY <1>1, <1>2, <1>3 DEF Stripped
<1>5. ASSUME Ends(stem, <<"i">>)
      PROVE  Y(Cut(stem, 1)) \in Spellings /\ Len(Y(Cut(stem, 1))) = Len(stem)
  <2>1. 1 <= Len(stem)
    <3>1. <<"i">> \in Spellings /\ Len(<<"i">>) = 1
      <4>1. "i" \in Chars
        BY DEF Chars
      <4> QED
        BY <4>1 DEF Spellings
    <3> QED
      BY <1>5, <3>1, EndsLength
  <2>2. PICK v \in Spellings : v = Cut(stem, 1) /\ Len(v) = Len(stem) - 1
    BY <2>1, CutSpelling
  <2>3. Y(v) \in Spellings /\ Len(Y(v)) = Len(v) + 1
    BY LongerSpelling
  <2> QED
    BY <1>1, <1>2, <1>3, <2>2, <2>3
<1>6. PICK v \in Spellings : v = Stripped(f, rule) /\ Len(v) = m - n
  BY <1>3, <1>4, <1>5
<1> QED
  BY <1>1, <1>2, <1>6

(* append_magic_e_if_needed(): the stem with its e back is shorter than    *)
(* the word, as the ending was longer than the e.                          *)
LEMMA StemOfShort ==
  ASSUME NEW f, f.w \in Spellings, NEW rule, rule.strip \in Nat,
         Len(rule.match) \in 1 .. Len(f.w),
         "e" \in rule.flags => rule.strip >= 2 /\ Len(rule.match) >= 2
  PROVE  StemOf(f, rule) \in Spellings /\ Len(StemOf(f, rule)) < Len(f.w)
<1>1. PICK v \in Spellings : /\ v = Stripped(f, rule) /\ Len(v) < Len(f.w)
                             /\ "e" \in rule.flags => Len(v) + 1 < Len(f.w)
  BY StrippedShort
<1>2. E(v) \in Spellings /\ Len(E(v)) = Len(v) + 1
  BY LongerSpelling
<1>3. CASE "e" \in rule.flags
  <2>1. StemOf(f, rule) = v \/ StemOf(f, rule) = E(v)
    BY <1>1 DEF StemOf
  <2> QED
    BY <1>1, <1>2, <1>3, <2>1
<1>4. CASE "e" \notin rule.flags
  BY <1>1, <1>4 DEF StemOf
<1> QED
  BY <1>3, <1>4

(* stem_phoneme_from_dict() asks about the stem, or answers.               *)
LEMMA StemCallShort ==
  ASSUME NEW w \in Spellings, NEW stem \in Spellings, Len(stem) < Len(w), NEW rule,
         NEW alt \in SUBSET Nat
  PROVE  StemCall(stem, rule, alt) \in CallsUnder(2 * Len(w))
<1>1. PICK n \in Nat : n = 2 * Len(w) /\ 2 * Len(stem) < n
  BY DEF Spellings
<1>2. Silent \in Levels
  BY DEF Silent, Voiced, Levels
<1>3. \A level \in Levels : Answer(level) \in CallsUnder(n)
  BY AnswerCall
<1>4. \A v : Sound(v) \in Levels
  BY SoundLevel
<1>5. alt \cup Alt(IF stem \in DOMAIN word_alt_flags THEN stem ELSE E(stem)) \in SUBSET Nat
  BY AltNumbers
<1>6. RulesCall(stem, TRUE,
                alt \cup Alt(IF stem \in DOMAIN word_alt_flags THEN stem ELSE E(stem)),
                FALSE, TRUE) \in CallsUnder(n)
  BY <1>1, <1>5, RulesCallFrame
<1> QED
  BY <1>1, <1>2, <1>3, <1>4, <1>6 DEF StemCall

(* prefix_rule_suffix_phonemes() asks about what is behind the prefix.     *)
LEMMA RestCallShort ==
  ASSUME NEW w \in Spellings, NEW rest \in Spellings, Len(rest) < Len(w)
  PROVE  RestCall(rest) \in CallsUnder(2 * Len(w))
<1>1. PICK n \in Nat : n = 2 * Len(w) /\ 2 * Len(rest) < n /\ 2 * Len(rest) + 1 < n
  BY DEF Spellings
<1>2. OwnRules(rest) \in CallsUnder(n) /\ WordCall(rest, FALSE) \in CallsUnder(n)
  BY <1>1, OwnRulesCall, WordCallFrame
<1> QED
  BY <1>1, <1>2 DEF RestCall

-----------------------------------------------------------------------------
(* The stack.                                                              *)

(* A frame is one of three kinds.                                          *)
LEMMA FrameKinds ==
  ASSUME NEW f \in Frames
  PROVE  /\ f.kind \in {"answer", "word", "rules"}
         /\ f.kind = "answer" => f \in AnswerFrames
         /\ f.kind = "word" => f.w \in Spellings /\ f \in WordsOf(f.w)
         /\ f.kind = "rules" => f \in RulesFrames /\ f.w \in Spellings
<1>1. CASE f \in AnswerFrames
  <2>1. f.kind = "answer"
    BY <1>1 DEF AnswerFrames
  <2> QED
    BY <1>1, <2>1
<1>2. CASE \E w \in Spellings : f \in WordsOf(w)
  <2>1. PICK w \in Spellings : f \in WordsOf(w)
    BY <1>2
  <2>2. f.kind = "word" /\ f.w = w
    BY <2>1 DEF WordsOf
  <2> QED
    BY <2>1, <2>2
<1>3. CASE f \in RulesFrames
  <2>1. f.kind = "rules" /\ f.w \in Spellings
    BY <1>3 DEF RulesFrames
  <2> QED
    BY <1>3, <2>1
<1> QED
  BY <1>1, <1>2, <1>3 DEF Frames

(* Its fields are what the type invariant says.                            *)
LEMMA FrameSound ==
  ASSUME NEW f \in Frames
  PROVE  FrameOK(f) /\ Depth(f) \in Nat /\ Len(f.w) \in Nat /\ f.heard \in Levels
<1>1. CASE f.kind = "answer"
  <2>1. f \in AnswerFrames
    BY <1>1, FrameKinds
  <2>2. f.w = <<>> /\ f.heard \in Levels
    BY <2>1 DEF AnswerFrames
  <2> QED
    BY <1>1, <2>2 DEF FrameOK, Depth
<1>2. CASE f.kind = "word"
  <2>1. f.w \in Spellings /\ f \in WordsOf(f.w)
    BY <1>2, FrameKinds
  <2>2. f.arm \in 1 .. Arms + 1 /\ f.heard \in Levels /\ Len(f.w) \in Nat
    BY <2>1 DEF WordsOf, Spellings
  <2> QED
    BY <1>2, <2>2 DEF FrameOK, Depth
<1>3. CASE f.kind = "rules"
  <2>1. f \in RulesFrames /\ f.w \in Spellings
    BY <1>3, FrameKinds
  <2>2. /\ f.pos \in Nat /\ f.pos <= Len(f.w) /\ f.rep \subseteq 0 .. Len(f.w) - 1
        /\ f.heard \in Levels /\ Len(f.w) \in Nat
    BY <2>1 DEF RulesFrames, Spellings
  <2> QED
    BY <1>3, <2>2 DEF FrameOK, Depth, Places
<1> QED
  BY <1>1, <1>2, <1>3, FrameKinds

(* A frame below another asked for it.                                     *)
Awaits(f) == f.kind # "answer" /\ (f.kind = "word" => f.plan # <<>>)
Stacked(s) ==
  /\ s \in Seq(Frames)
  /\ \A i \in 2 .. Len(s) : s[i].kind # "answer" => Depth(s[i]) < Depth(s[i - 1])
  /\ \A i \in 1 .. Len(s) - 1 : Awaits(s[i])

(* The top frame goes on, about the same word.                             *)
LEMMA StackBecomes ==
  ASSUME NEW s, Stacked(s), s # <<>>, NEW f \in Frames, f.w = Last(s).w, f.kind = Last(s).kind
  PROVE  /\ Stacked(Append(Front(s), f)) /\ Last(Append(Front(s), f)) = f
         /\ Append(Front(s), f) # <<>>
<1>1. PICK n \in Nat : n = Len(s) /\ n >= 1
  BY DEF Stacked
<1>2. PICK t \in Seq(Frames) : t = Append(Front(s), f)
  <2>1. s \in Seq(Frames)
    BY DEF Stacked
  <2>2. Append(Front(s), f) \in Seq(Frames)
    BY <2>1 DEF Front
  <2> QED
    BY <2>2
<1>3. Len(t) = n /\ t[n] = f /\ \A i \in 1 .. n - 1 : t[i] = s[i]
  BY <1>1, <1>2 DEF Stacked, Front
<1>4. Depth(f) = Depth(s[n]) /\ f.kind = s[n].kind
  BY <1>1 DEF Depth, Last
<1>5. \A i \in 1 .. n : Depth(t[i]) = Depth(s[i]) /\ t[i].kind = s[i].kind
  <2>1. \A i \in 1 .. n : i = n \/ i \in 1 .. n - 1
    BY <1>1
  <2> QED
    BY <1>3, <1>4, <2>1
<1>6. \A i \in 2 .. n : t[i].kind # "answer" => Depth(t[i]) < Depth(t[i - 1])
  <2>1. ASSUME NEW i \in 2 .. n, t[i].kind # "answer" PROVE Depth(t[i]) < Depth(t[i - 1])
    <3>1. i \in 1 .. n /\ i - 1 \in 1 .. n
      OBVIOUS
    <3>2. Depth(s[i]) < Depth(s[i - 1])
      BY <1>1, <1>5, <2>1, <3>1 DEF Stacked
    <3> QED
      BY <1>5, <3>1, <3>2
  <2> QED
    BY <2>1
<1>7. \A i \in 1 .. n - 1 : Awaits(t[i])
  BY <1>1, <1>3 DEF Stacked
<1> QED
  BY <1>1, <1>2, <1>3, <1>6, <1>7 DEF Stacked, Last

(* It waits, and a call about less is put upon it.                         *)
LEMMA StackCalls ==
  ASSUME NEW s, Stacked(s), s # <<>>, NEW f \in Frames, f.w = Last(s).w, f.kind = Last(s).kind,
         Awaits(f), NEW c \in CallsUnder(Depth(f))
  PROVE  Stacked(Front(s) \o <<f, c>>)
<1>1. PICK t : t = Append(Front(s), f) /\ Stacked(t) /\ Last(t) = f /\ t # <<>>
  BY StackBecomes
<1>2. PICK n \in Nat : n = Len(t) /\ n >= 1 /\ t[n] = f
  BY <1>1 DEF Stacked, Last
<1>3. c \in Frames /\ (c.kind # "answer" => Depth(c) < Depth(f))
  BY CallsAreFrames DEF CallsUnder
<1>4. PICK u \in Seq(Frames) : u = Append(t, c)
  <2>1. t \in Seq(Frames)
    BY <1>1 DEF Stacked
  <2>2. Append(t, c) \in Seq(Frames)
    BY <1>3, <2>1
  <2> QED
    BY <2>2
<1>5. Front(s) \o <<f, c>> = u
  <2>1. Front(s) \in Seq(Frames)
    BY DEF Stacked, Front
  <2> QED
    BY <1>1, <1>3, <1>4, <2>1
<1>6. Len(u) = n + 1 /\ u[n + 1] = c /\ \A i \in 1 .. n : u[i] = t[i]
  BY <1>1, <1>2, <1>4 DEF Stacked
<1>7. \A i \in 2 .. n + 1 : u[i].kind # "answer" => Depth(u[i]) < Depth(u[i - 1])
  <2>1. ASSUME NEW i \in 2 .. n + 1, u[i].kind # "answer" PROVE Depth(u[i]) < Depth(u[i - 1])
    <3>1. CASE i = n + 1
      <4>1. u[i] = c /\ u[i - 1] = f
        BY <1>2, <1>6, <3>1
      <4> QED
        BY <1>3, <2>1, <4>1
    <3>2. CASE i \in 2 .. n
      <4>1. u[i] = t[i] /\ u[i - 1] = t[i - 1]
        BY <1>6, <3>2
      <4> QED
        BY <1>1, <1>2, <2>1, <3>2, <4>1 DEF Stacked
    <3> QED
      BY <1>2, <3>1, <3>2
  <2> QED
    BY <2>1
<1>8. \A i \in 1 .. n : Awaits(u[i])
  <2>1. ASSUME NEW i \in 1 .. n PROVE Awaits(u[i])
    <3>1. u[i] = t[i]
      BY <1>6
    <3>2. CASE i = n
      BY <1>2, <3>1, <3>2
    <3>3. CASE i \in 1 .. n - 1
      BY <1>1, <1>2, <3>1, <3>3 DEF Stacked
    <3> QED
      BY <3>2, <3>3
  <2> QED
    BY <2>1
<1>9. Len(u) - 1 = n
  BY <1>2, <1>6
<1>10. Stacked(u)
  BY <1>4, <1>6, <1>7, <1>8, <1>9 DEF Stacked
<1> QED
  BY <1>5, <1>10

(* The top frame is gone; the one below waits.                             *)
LEMMA StackReturns ==
  ASSUME NEW s, Stacked(s), s # <<>>
  PROVE  Stacked(Front(s)) /\ (Front(s) # <<>> => Awaits(Last(Front(s))))
<1>1. PICK n \in Nat : n = Len(s) /\ n >= 1
  BY DEF Stacked
<1>2. PICK t \in Seq(Frames) : t = Front(s)
  <2>1. s \in Seq(Frames)
    BY DEF Stacked
  <2>2. Front(s) \in Seq(Frames)
    BY <2>1 DEF Front
  <2> QED
    BY <2>2
<1>3. Len(t) = n - 1 /\ \A i \in 1 .. n - 1 : t[i] = s[i]
  BY <1>1, <1>2 DEF Stacked, Front
<1>4. \A i \in 2 .. n - 1 : t[i].kind # "answer" => Depth(t[i]) < Depth(t[i - 1])
  BY <1>1, <1>3 DEF Stacked
<1>5. \A i \in 1 .. n - 1 : Awaits(t[i])
  BY <1>1, <1>3 DEF Stacked
<1>6. t # <<>> => n - 1 \in 1 .. n - 1
  BY <1>1, <1>3
<1> QED
  BY <1>2, <1>3, <1>4, <1>5, <1>6 DEF Stacked, Last

(* The inductive invariant.                                                *)
IInv ==
  /\ Stacked(stack)
  /\ result \in Levels \cup {Waiting}
  /\ result # Waiting /\ stack # <<>> => Awaits(Top)

(* Facts of a state in which there is a call.                              *)
LEMMA TopFrame ==
  ASSUME IInv, stack # <<>>
  PROVE  Top \in Frames
<1>1. stack \in Seq(Frames)
  BY DEF IInv, Stacked
<1>2. Len(stack) \in 1 .. Len(stack)
  BY <1>1
<1> QED
  BY <1>1, <1>2 DEF Top, Last

(* What becomes of the invariant when the top changes, asks or returns.    *)
LEMMA Becomes ==
  ASSUME IInv, stack # <<>>, NEW f \in Frames, f.w = Top.w, f.kind = Top.kind,
         Become(f), result' = Waiting
  PROVE  IInv'
<1>1. Stacked(stack')
  BY StackBecomes DEF IInv, Become, Top
<1> QED
  BY <1>1 DEF IInv

(* The same of the state: a call keeps the invariant.                      *)
LEMMA Calls ==
  ASSUME IInv, stack # <<>>, result = Waiting, NEW f \in Frames, f.w = Top.w,
         f.kind = Top.kind, Awaits(f), NEW c \in CallsUnder(Depth(f)), Call(f, c)
  PROVE  IInv'
<1>1. Stacked(stack')
  BY StackCalls DEF IInv, Call, Top
<1> QED
  BY <1>1 DEF IInv, Call

(* A return keeps the invariant.                                           *)
LEMMA Returns ==
  ASSUME IInv, stack # <<>>, NEW level \in Levels, Return(level)
  PROVE  IInv'
<1>1. Stacked(stack') /\ (stack' # <<>> => Awaits(Last(stack')))
  BY StackReturns DEF IInv, Return
<1> QED
  BY <1>1 DEF IInv, Return, Top

(* The first call is a word.                                               *)
LEMMA Starts == Init => IInv
<1>1. SUFFICES ASSUME Init PROVE IInv
  OBVIOUS
<1>2. PICK text \in Texts : stack = <<WordCall(text.w, text.cap)>>
  BY <1>1 DEF Init
<1>3. text.w \in Spellings /\ text.cap \in BOOLEAN
  <2>1. text.w \in Seq(STRING) /\ text.cap \in BOOLEAN
    BY WordsAssumption
  <2>2. PICK v \in Seq(STRING) : v = text.w
    BY <2>1
  <2>3. PICK n \in Nat : n = Len(v) /\ DOMAIN v = 1 .. n /\ \A i \in 1 .. n : v[i] \in STRING
    BY <2>2
  <2>4. v = [i \in 1 .. n |-> v[i]] /\ \A i \in 1 .. n : v[i] \in Chars
    <3>1. v = [i \in 1 .. n |-> v[i]]
      BY <2>3
    <3>2. \A i \in 1 .. n : v[i] \in Chars
      BY <2>3 DEF Chars
    <3> QED
      BY <3>1, <3>2
  <2>5. v \in Spellings
    BY <2>4 DEF Spellings
  <2> QED
    BY <2>1, <2>2, <2>5
<1>4. PICK n \in Nat : 2 * Len(text.w) + 1 < n
  <2>1. Len(text.w) \in Nat
    BY <1>3 DEF Spellings
  <2>2. 2 * Len(text.w) + 2 \in Nat /\ 2 * Len(text.w) + 1 < 2 * Len(text.w) + 2
    BY <2>1
  <2> QED
    BY <2>2
<1>5. PICK c \in Frames : c = WordCall(text.w, text.cap)
  BY <1>3, <1>4, WordCallFrame, CallsAreFrames
<1>6. stack \in Seq(Frames) /\ Len(stack) = 1
  BY <1>2, <1>5
<1>7. Stacked(stack)
  BY <1>6 DEF Stacked
<1> QED
  BY <1>1, <1>7 DEF Init, IInv

-----------------------------------------------------------------------------
(* A word's steps.                                                         *)

(* The plan that an arm makes is about less.                               *)
LEMMA TakePlanKeeps == IInv /\ TakePlan => IInv'
<1>1. SUFFICES ASSUME IInv, TakePlan PROVE IInv'
  OBVIOUS
<1>2. /\ stack # <<>> /\ result = Waiting /\ Top.kind = "word" /\ Top.arm <= Arms
      /\ UNCHANGED result
  BY <1>1 DEF TakePlan, Working
<1>3. PICK f \in Frames : f = Top
  BY <1>1, <1>2, TopFrame
<1>4. f.w \in Spellings /\ f \in WordsOf(f.w)
  BY <1>2, <1>3, FrameKinds
<1>5. PICK plan \in Plans(f) : Become([f EXCEPT !.arm = @ + 1, !.plan = plan])
  BY <1>1, <1>3 DEF TakePlan
<1>6. f.arm \in 1 .. Arms /\ f.arm + 1 \in 1 .. Arms + 1
  BY <1>2, <1>3, <1>4 DEF WordsOf, Arms
<1>7. plan \in Seq(Steps(f.w))
  BY <1>4, <1>5, <1>6, PlansShort DEF Planned
<1>8. PICK arm \in 1 .. Arms + 1 : arm = f.arm + 1
  BY <1>6
<1>9. PICK g : g = [f EXCEPT !.arm = arm, !.plan = plan]
  OBVIOUS
<1>10. g \in WordsOf(f.w) /\ g.w = f.w /\ g.kind = f.kind
  BY <1>4, <1>7, <1>9 DEF WordsOf
<1>11. g \in Frames
  BY <1>4, <1>10 DEF Frames
<1> QED
  BY <1>1, <1>2, <1>3, <1>5, <1>8, <1>9, <1>10, <1>11, Becomes

(* The call was in a plan, and so is about less.                           *)
LEMMA AskKeeps == IInv /\ Ask => IInv'
<1>1. SUFFICES ASSUME IInv, Ask PROVE IInv'
  OBVIOUS
<1>2. stack # <<>> /\ result = Waiting /\ Top.kind = "word" /\ Top.plan # <<>>
  BY <1>1 DEF Ask, Working
<1>3. PICK f \in Frames : f = Top
  BY <1>1, <1>2, TopFrame
<1>4. f.w \in Spellings /\ f \in WordsOf(f.w)
  BY <1>2, <1>3, FrameKinds
<1>5. f.plan \in Seq(Steps(f.w)) /\ f.plan # <<>>
  BY <1>2, <1>3, <1>4 DEF WordsOf
<1>6. Head(f.plan) \in Steps(f.w)
  BY <1>5
<1>7. Depth(f) = 2 * Len(f.w) + 1
  BY <1>2, <1>3 DEF Depth
<1>8. Head(f.plan).call \in CallsUnder(Depth(f))
  BY <1>6, <1>7 DEF Steps
<1>9. Awaits(f)
  BY <1>2, <1>3 DEF Awaits
<1>10. Call(f, Head(f.plan).call)
  BY <1>1, <1>3 DEF Ask
<1> QED
  BY <1>1, <1>2, <1>3, <1>8, <1>9, <1>10, Calls

(* The louder of two levels is one of them.                                *)
LEMMA LouderLevel ==
  ASSUME NEW a \in Levels, NEW b \in Levels
  PROVE  Louder(a, b) \in Levels
  BY DEF Louder

(* The rest of a plan is a plan.                                           *)
LEMMA HearStepKeeps == IInv /\ HearStep => IInv'
<1>1. SUFFICES ASSUME IInv, HearStep PROVE IInv'
  OBVIOUS
<1>2. stack # <<>> /\ result # Waiting /\ Top.kind = "word" /\ result' = Waiting
  BY <1>1 DEF HearStep
<1>3. PICK f \in Frames : f = Top
  BY <1>1, <1>2, TopFrame
<1>4. f.w \in Spellings /\ f \in WordsOf(f.w)
  BY <1>2, <1>3, FrameKinds
<1>5. f.plan \in Seq(Steps(f.w)) /\ f.plan # <<>> /\ f.heard \in Levels
  <2>1. Awaits(f)
    BY <1>1, <1>2, <1>3 DEF IInv
  <2> QED
    BY <1>2, <1>3, <1>4, <2>1 DEF Awaits, WordsOf
<1>6. Tail(f.plan) \in Planned(f.w)
  <2>1. \A steps : \A p \in Seq(steps) : p # <<>> => Tail(p) \in Seq(steps)
    OBVIOUS
  <2> QED
    BY <1>5, <2>1, Zenon DEF Planned
<1>7. PICK got \in Levels : got = IF result >= Head(f.plan).want THEN result ELSE Silent
  <2>1. result \in Levels /\ Silent \in Levels
    BY <1>1, <1>2 DEF IInv, Silent, Voiced, Levels
  <2> QED
    BY <2>1
<1>8. PICK heard \in Levels : heard = Louder(f.heard, got)
  BY <1>5, LouderLevel
<1>9. PICK lost : lost = (Head(f.plan).mode = "need" /\ got = Silent)
  OBVIOUS
<1>10. PICK level \in Levels : level = IF lost THEN Silent ELSE heard
  <2>1. Silent \in Levels
    BY DEF Silent, Voiced, Levels
  <2> QED
    BY <1>8, <2>1
<1>11. PICK plan \in Planned(f.w) : plan = IF lost THEN <<>> ELSE Left(Tail(f.plan), heard)
  <2>1. <<>> \in Planned(f.w) /\ Left(Tail(f.plan), heard) \in Planned(f.w)
    BY <1>6, EmptyPlan, LeftPlanned
  <2> QED
    BY <2>1
<1>12. PICK g : g = [f EXCEPT !.heard = level, !.plan = plan]
  OBVIOUS
<1>13. g \in WordsOf(f.w) /\ g.w = f.w /\ g.kind = f.kind
  BY <1>4, <1>12 DEF WordsOf, Planned
<1>14. g \in Frames
  BY <1>4, <1>13 DEF Frames
<1>15. Become(g)
  BY <1>1, <1>3, <1>7, <1>8, <1>9, <1>10, <1>11, <1>12 DEF HearStep
<1> QED
  BY <1>1, <1>2, <1>3, <1>13, <1>14, <1>15, Becomes

(* A word and an answer return what they heard.                           *)
LEMMA ClaimKeeps == IInv /\ (Claim \/ Told) => IInv'
<1>1. SUFFICES ASSUME IInv, Claim \/ Told PROVE IInv'
  OBVIOUS
<1>2. stack # <<>> /\ Return(Top.heard)
  BY <1>1 DEF Claim, Told, Working
<1>3. Top.heard \in Levels
  BY <1>1, <1>2, TopFrame, FrameSound
<1> QED
  BY <1>1, <1>2, <1>3, Returns

-----------------------------------------------------------------------------
(* The steps of the rules.                                                 *)

(* A frame of rules whose scan goes on.                                    *)
LEMMA RulesGoOn ==
  ASSUME NEW f \in RulesFrames, NEW pos \in 0 .. Len(f.w), NEW sofar \in Seq(Sounds),
         NEW rep \in SUBSET (0 .. Len(f.w) - 1), NEW heard \in Levels
  PROVE  /\ [f EXCEPT !.pos = pos] \in RulesFrames
         /\ [f EXCEPT !.pos = pos, !.sofar = sofar] \in RulesFrames
         /\ [f EXCEPT !.pos = pos, !.sofar = sofar, !.rep = rep] \in RulesFrames
         /\ [f EXCEPT !.sofar = sofar] \in RulesFrames
         /\ [f EXCEPT !.pos = pos, !.heard = heard] \in RulesFrames
<1>1. f.w \in Spellings /\ Len(f.w) \in Nat
  BY DEF RulesFrames, Spellings
<1>2. pos \in Nat /\ pos <= Len(f.w) /\ rep \in SUBSET Nat
  BY <1>1
<1>3. [f EXCEPT !.pos = pos] \in RulesFrames
  BY <1>2 DEF RulesFrames
<1>4. [f EXCEPT !.pos = pos, !.sofar = sofar] \in RulesFrames
  BY <1>2 DEF RulesFrames
<1>5. [f EXCEPT !.pos = pos, !.sofar = sofar, !.rep = rep] \in RulesFrames
  BY <1>2 DEF RulesFrames
<1>6. [f EXCEPT !.sofar = sofar] \in RulesFrames
  BY <1>2 DEF RulesFrames
<1>7. [f EXCEPT !.pos = pos, !.heard = heard] \in RulesFrames
  BY <1>2 DEF RulesFrames
<1> QED
  BY <1>3, <1>4, <1>5, <1>6, <1>7

(* One place of the scan: the rule taken moves the scan on inside the      *)
(* word; a stem or a rest that is called for is shorter.                   *)
LEMMA ScanKeeps == IInv /\ Scan => IInv'
<1>1. SUFFICES ASSUME IInv, Scan PROVE IInv'
  OBVIOUS
<1>2. stack # <<>> /\ result = Waiting /\ Top.kind = "rules" /\ Top.pos < Len(Top.w)
  BY <1>1 DEF Scan, Scanning, Working
<1>3. PICK f \in RulesFrames : f = Top /\ f \in Frames
  BY <1>1, <1>2, TopFrame, FrameKinds
<1>4. /\ f.w \in Spellings /\ f.pos \in 0 .. Len(f.w) - 1 /\ f.kind = "rules"
      /\ f.sofar \in Seq(Sounds) /\ f.rep \in SUBSET (0 .. Len(f.w) - 1)
      /\ f.alt \in SUBSET Nat /\ Len(f.w) \in Nat
  BY <1>2, <1>3 DEF RulesFrames, Spellings
<1>5. \A g \in RulesFrames : g \in Frames
  BY DEF Frames
<1>6. PICK m : m = Best /\ IsMatch(m, f.w, f.pos) /\
               (Skip(m) \/ Speak(m) \/ SpeakEnding(m) \/ StripSuffix(m) \/ PassPrefix(m)
                  \/ StripPrefix(m))
  <2>1. IsMatch(Best, f.w, f.pos)
    BY <1>3, <1>4, BestFound DEF Best
  <2> QED
    BY <1>1, <2>1 DEF Scan
<1>7. ASSUME m.score >= 0
      PROVE  /\ Behind(m) \in f.pos + 1 .. Len(f.w) /\ Spoken(m) \in Seq(Sounds)
             /\ <<m.rule.ph>> \in Seq(Sounds) /\ m.rule \in RuleSet
  <2>1. m.rule \in RuleSet /\ Len(m.rule.match) \in 1 .. Len(f.w) - f.pos
    BY <1>6, <1>7 DEF IsMatch
  <2>2. m.rule.ph \in Sounds
    BY <2>1 DEF RuleSet
  <2>3. Behind(m) = f.pos + Len(m.rule.match)
    BY <1>3 DEF Behind
  <2>4. Behind(m) \in f.pos + 1 .. Len(f.w)
    BY <1>4, <2>1, <2>3
  <2> QED
    BY <1>3, <1>4, <2>1, <2>2, <2>4 DEF Spoken
<1>8. Depth(f) = 2 * Len(f.w) /\ Awaits(f)
  BY <1>4 DEF Depth, Awaits
<1>9. ASSUME NEW g \in RulesFrames, g.w = f.w, Become(g), UNCHANGED result PROVE IInv'
  <2>1. g \in Frames /\ g.kind = Top.kind /\ g.w = Top.w /\ result' = Waiting
    BY <1>2, <1>3, <1>4, <1>5, <1>9 DEF RulesFrames
  <2> QED
    BY <1>1, <1>2, <1>9, <2>1, Becomes
<1>10. ASSUME NEW g \in RulesFrames, g.w = f.w, NEW c \in CallsUnder(2 * Len(f.w)), Call(g, c)
       PROVE  IInv'
  <2>1. g \in Frames /\ g.kind = "rules" /\ g.kind = Top.kind /\ g.w = Top.w
    BY <1>2, <1>3, <1>5, <1>10 DEF RulesFrames
  <2>2. Depth(g) = 2 * Len(f.w) /\ Awaits(g)
    BY <1>4, <1>10, <2>1 DEF Depth, Awaits
  <2> QED
    BY <1>1, <1>2, <1>10, <2>1, <2>2, Calls
<1> DEFINE To(pos) == [f EXCEPT !.pos = pos]
           Say(pos, sofar) == [f EXCEPT !.pos = pos, !.sofar = sofar]
           Mute(pos, sofar, rep) == [f EXCEPT !.pos = pos, !.sofar = sofar, !.rep = rep]
<1>11. ASSUME NEW pos \in 0 .. Len(f.w), NEW sofar \in Seq(Sounds),
              NEW rep \in SUBSET (0 .. Len(f.w) - 1)
       PROVE  /\ To(pos) \in RulesFrames /\ To(pos).w = f.w
              /\ Say(pos, sofar) \in RulesFrames /\ Say(pos, sofar).w = f.w
              /\ Mute(pos, sofar, rep) \in RulesFrames /\ Mute(pos, sofar, rep).w = f.w
  <2>1. f.heard \in Levels
    BY DEF RulesFrames
  <2>2. /\ To(pos) \in RulesFrames /\ Say(pos, sofar) \in RulesFrames
        /\ Mute(pos, sofar, rep) \in RulesFrames
    BY <2>1, RulesGoOn
  <2>3. To(pos).w = f.w /\ Say(pos, sofar).w = f.w /\ Mute(pos, sofar, rep).w = f.w
    BY DEF RulesFrames
  <2> QED
    BY <2>2, <2>3
<1> HIDE DEF To, Say, Mute
<1>12. CASE Skip(m)
  <2>1. PICK pos \in 0 .. Len(f.w) : pos = f.pos + 1
    BY <1>4
  <2>2. PICK g \in RulesFrames : g = To(pos) /\ g.w = f.w
    BY <1>4, <1>11
  <2>3. Become(g) /\ UNCHANGED result
    BY <1>3, <1>12, <2>1, <2>2 DEF Skip, To
  <2> QED
    BY <1>9, <2>2, <2>3
<1>13. CASE Speak(m)
  <2>1. m.score >= 0 /\ UNCHANGED result
    BY <1>13 DEF Speak
  <2>2. PICK rep \in SUBSET (0 .. Len(f.w) - 1) :
          rep = IF m.del >= 0 THEN f.rep \cup {m.del} ELSE f.rep
    <3>1. m.del \in -1 .. Len(f.w) - 1
      BY <1>6, <2>1 DEF IsMatch
    <3>2. m.del >= 0 => m.del \in 0 .. Len(f.w) - 1
      BY <1>4, <3>1
    <3> QED
      BY <1>4, <3>2
  <2>3. PICK pos \in 0 .. Len(f.w), sofar \in Seq(Sounds) : pos = Behind(m) /\ sofar = Spoken(m)
    BY <1>4, <1>7, <2>1
  <2>4. PICK g \in RulesFrames : g = Mute(pos, sofar, rep) /\ g.w = f.w
    BY <1>11
  <2>5. Become(g)
    BY <1>3, <1>13, <2>2, <2>3, <2>4 DEF Speak, Mute
  <2> QED
    BY <1>9, <2>1, <2>4, <2>5
<1>14. CASE SpeakEnding(m) \/ PassPrefix(m)
  <2>1. m.score >= 0 /\ UNCHANGED result
    BY <1>14 DEF SpeakEnding, PassPrefix, Say
  <2>2. PICK pos \in 0 .. Len(f.w), sofar \in Seq(Sounds) : pos = Behind(m) /\ sofar = Spoken(m)
    BY <1>4, <1>7, <2>1
  <2>3. PICK g \in RulesFrames : g = Say(pos, sofar) /\ g.w = f.w
    BY <1>4, <1>11
  <2>4. Become(g)
    BY <1>3, <1>14, <2>2, <2>3 DEF SpeakEnding, PassPrefix, Say
  <2> QED
    BY <1>9, <2>1, <2>3, <2>4
<1>15. CASE StripSuffix(m)
  <2>1. m.score >= 0 /\ m.rule.suffix
    BY <1>15 DEF StripSuffix, Terminal
  <2>2. PICK pos \in 0 .. Len(f.w), sofar \in Seq(Sounds) : pos = Len(f.w) /\ sofar = <<m.rule.ph>>
    <3>1. Len(f.w) \in 0 .. Len(f.w) /\ <<m.rule.ph>> \in Seq(Sounds)
      BY <1>4, <1>7, <2>1
    <3> QED
      BY <3>1
  <2>3. PICK g \in RulesFrames : g = Say(pos, sofar) /\ g.w = f.w
    BY <1>4, <1>11
  <2>4. PICK stem \in Spellings : stem = StemOf(f, m.rule) /\ Len(stem) < Len(f.w)
    <3>1. m.rule.strip \in Nat /\ Len(m.rule.match) \in 1 .. Len(f.w)
      <4>1. m.rule \in RuleSet /\ Len(m.rule.match) \in 1 .. Len(f.w) - f.pos
        BY <1>6, <2>1 DEF IsMatch
      <4>2. m.rule.strip \in Nat
        BY <4>1 DEF RuleSet
      <4>3. PICK k, n \in Int : k = Len(m.rule.match) /\ n = Len(f.w)
        BY <1>4, <4>1
      <4>4. f.pos \in Nat /\ k \in 1 .. n - f.pos
        BY <1>4, <4>1, <4>3
      <4>5. k \in 1 .. n
        BY <4>3, <4>4
      <4> QED
        BY <4>2, <4>3, <4>5
    <3>2. "e" \in m.rule.flags => m.rule.strip >= 2 /\ Len(m.rule.match) >= 2
      BY <1>6, <2>1 DEF IsMatch
    <3> QED
      BY <1>4, <3>1, <3>2, StemOfShort
  <2>5. StemCall(stem, m.rule, f.alt) \in CallsUnder(2 * Len(f.w))
    BY <1>4, <2>4, StemCallShort
  <2>6. Call(g, StemCall(stem, m.rule, f.alt))
    BY <1>3, <1>15, <2>2, <2>3, <2>4 DEF StripSuffix, Say
  <2> QED
    BY <1>10, <2>3, <2>5, <2>6
<1>16. CASE StripPrefix(m)
  <2>1. m.score >= 0 /\ Behind(m) < Len(f.w)
    BY <1>3, <1>16 DEF StripPrefix, Passing
  <2>2. PICK pos \in 0 .. Len(f.w), sofar \in Seq(Sounds) :
          pos = Behind(m) /\ sofar = Spoken(m) /\ pos >= 1
    BY <1>4, <1>7, <2>1
  <2>3. PICK g \in RulesFrames : g = Say(pos, sofar) /\ g.w = f.w
    BY <1>4, <1>11
  <2>4. PICK rest \in Spellings :
          rest = SubSeq(f.w, Behind(m) + 1, Len(f.w)) /\ Len(rest) < Len(f.w)
    <3>1. PICK n \in Nat, k \in Nat : n = Len(f.w) /\ k = pos + 1 /\ pos < n /\ k >= 2 /\ k <= n
      BY <1>4, <2>1, <2>2
    <3>2. SubSeq(f.w, k, n) \in Spellings /\ Len(SubSeq(f.w, k, n)) = n - k + 1
      BY <1>4, <3>1 DEF Spellings
    <3>3. n - k + 1 < n
      BY <3>1
    <3> QED
      BY <2>2, <3>1, <3>2, <3>3
  <2>5. RestCall(rest) \in CallsUnder(2 * Len(f.w))
    BY <1>4, <2>4, RestCallShort
  <2>6. Call(g, RestCall(rest))
    BY <1>3, <1>16, <2>2, <2>3, <2>4 DEF StripPrefix, Say
  <2> QED
    BY <1>10, <2>3, <2>5, <2>6
<1> QED
  BY <1>6, <1>12, <1>13, <1>14, <1>15, <1>16

(* What a scan has spoken is heard as one of the levels.                   *)
LEMMA SoundsLevel ==
  ASSUME NEW sofar
  PROVE  Level(sofar) \in Levels
  BY DEF Level, Levels, Silent, Dull, Voiced

(* The scan hears its stem or its rest, and goes on or ends.               *)
LEMMA HearCallKeeps == IInv /\ HearCall => IInv'
<1>1. SUFFICES ASSUME IInv, HearCall PROVE IInv'
  OBVIOUS
<1>2. stack # <<>> /\ result # Waiting /\ Top.kind = "rules" /\ result' = Waiting
  BY <1>1 DEF HearCall
<1>3. PICK f \in RulesFrames : f = Top /\ f \in Frames
  BY <1>1, <1>2, TopFrame, FrameKinds
<1>4. result \in Levels /\ Len(f.w) \in 0 .. Len(f.w) /\ <<>> \in Seq(Sounds)
  BY <1>1, <1>2, <1>3 DEF IInv, RulesFrames, Spellings
<1>5. PICK g, h \in RulesFrames : /\ g = [f EXCEPT !.sofar = <<>>]
                                  /\ h = [f EXCEPT !.pos = Len(f.w), !.heard = result]
  BY <1>4, RulesGoOn
<1>6. g.w = f.w /\ g.kind = f.kind /\ h.w = f.w /\ h.kind = f.kind /\ g \in Frames /\ h \in Frames
  BY <1>3, <1>5 DEF Frames, RulesFrames
<1>7. Become(g) \/ Become(h)
  BY <1>1, <1>3, <1>5 DEF HearCall
<1> QED
  BY <1>1, <1>2, <1>3, <1>6, <1>7, Becomes

(* The end of the word is reached.                                         *)
LEMMA FinishKeeps == IInv /\ Finish => IInv'
<1>1. SUFFICES ASSUME IInv, Finish PROVE IInv'
  OBVIOUS
<1>2. stack # <<>> /\ Return(Louder(Level(Top.sofar), Top.heard))
  BY <1>1 DEF Finish, Working
<1>3. Top.heard \in Levels
  BY <1>1, <1>2, TopFrame, FrameSound
<1> QED
  BY <1>1, <1>2, <1>3, SoundsLevel, LouderLevel, Returns

(* All steps.                                                              *)
LEMMA StepKeeps == IInv /\ [Next \/ Done]_vars => IInv'
<1>1. IInv /\ UNCHANGED vars => IInv'
  BY DEF vars, IInv, Top
<1>2. IInv /\ Done => IInv'
  BY <1>1 DEF Done
<1> QED
  BY <1>1, <1>2, TakePlanKeeps, AskKeeps, HearStepKeeps, ClaimKeeps, ScanKeeps, HearCallKeeps,
     FinishKeeps DEF Next

-----------------------------------------------------------------------------
(* What the runs check.                                                    *)

(* The type invariant, from the inductive one.                             *)
LEMMA SoundTypes == IInv => TypeOK
<1>1. SUFFICES ASSUME IInv PROVE TypeOK
  OBVIOUS
<1>2. \A i \in DOMAIN stack : stack[i] \in Frames
  BY <1>1 DEF IInv, Stacked
<1> QED
  BY <1>1, <1>2, FrameSound DEF IInv, TypeOK

(* A scan stands in a word, where the best rule is found.                  *)
LEMMA SoundBest == IInv => BestRuleTaken
<1>1. SUFFICES ASSUME IInv, Scanning PROVE TakenBest(Top, Best)
  BY DEF BestRuleTaken, TakenBest
<1>2. stack # <<>> /\ Top.kind = "rules" /\ Top.pos < Len(Top.w)
  BY <1>1 DEF Scanning, Working
<1>3. Top \in RulesFrames
  BY <1>1, <1>2, TopFrame, FrameKinds
<1>4. Top.w \in Spellings /\ Top.pos \in 0 .. Len(Top.w) - 1
  BY <1>2, <1>3 DEF RulesFrames, Spellings
<1> QED
  BY <1>4, BestFound DEF Best

(* The calls stand as the inductive invariant says.                        *)
THEOREM WordsHold == Spec => []IInv
<1>1. Init => IInv
  BY Starts
<1>2. IInv /\ [Next \/ Done]_vars => IInv'
  BY StepKeeps
<1> QED
  BY <1>1, <1>2, PTL DEF Spec

(* Each frame's fields are of their kinds, and a scan stays in its word.   *)
THEOREM WordsTyped == Spec => []TypeOK
  BY WordsHold, SoundTypes, PTL

(* The recursion of words and rules ends: a call is about a shorter word,  *)
(* or about the rules of the same one.                                     *)
THEOREM RecursionShortens == Spec => []CallsShorten
<1>1. IInv => CallsShorten
  BY DEF IInv, Stacked, CallsShorten
<1> QED
  BY <1>1, WordsHold, PTL

(* find_best_rule() takes the best of the rules that match and may be      *)
(* used, over both groups, and the last of the best.                       *)
THEOREM BestIsTaken == Spec => []BestRuleTaken
  BY WordsHold, SoundBest, PTL

=============================================================================
