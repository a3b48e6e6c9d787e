----------------------------- MODULE ModelProofs -----------------------------
(***************************************************************************)
(* gguf_open() and the two clients of the reader, for files of every       *)
(* length and content: nothing past the end of a file is read or given     *)
(* out, a context's weights can be read as long as it lives, and whatever  *)
(* fails gives everything back.                                            *)
(***************************************************************************)
EXTENDS Model, Numbers

-----------------------------------------------------------------------------
(* The cursor.                                                             *)

(* The file that is mapped.                                                *)
Ready ==
  /\ file \in Seq(0 .. Word - 1) /\ 2 * Len(file) < Word
  /\ g.bytes = Len(file)

Cursors == [at : Nat, far : Nat]

(* Cursors that made the code read nothing past the end.                   *)
Reach == {c \in Cursors : c.at <= g.bytes + 1 /\ c.far <= g.bytes}

(* The larger of two numbers.                                              *)
LEMMA MaxOfTwo ==
  ASSUME NEW a \in Nat, NEW b \in Nat
  PROVE  Max({a, b}) = IF a >= b THEN a ELSE b
<1>1. \A m \in {a, b} : m <= a + b
  OBVIOUS
<1>2. Max({a, b}) \in {a, b} /\ \A m \in {a, b} : m <= Max({a, b})
  BY <1>1, MaxFound
<1> QED
  BY <1>2

(* The smaller of two numbers.                                             *)
LEMMA MinOfTwo ==
  ASSUME NEW a \in Nat, NEW b \in Nat
  PROVE  Min({a, b}) = IF a <= b THEN a ELSE b
<1>1. Min({a, b}) \in {a, b} /\ \A m \in {a, b} : Min({a, b}) <= m
  BY MinFound
<1> QED
  BY <1>1

(* A cell holds a number below Word.                                       *)
LEMMA CellNumber ==
  ASSUME Ready, NEW p \in Nat
  PROVE  Cell(p) \in 0 .. Word - 1 /\ Cell(p) \in Nat
<1>1. Word \in Nat \ {0}
  BY WordAssumption
<1>2. CASE p < Len(file)
  <2>1. p + 1 \in 1 .. Len(file)
    BY <1>2 DEF Ready
  <2>2. PICK S : S = 0 .. Word - 1
    OBVIOUS
  <2>3. file \in Seq(S)
    BY <2>2 DEF Ready
  <2>4. \A i \in 1 .. Len(file) : file[i] \in S
    BY <2>3
  <2> QED
    BY <1>2, <2>1, <2>2, <2>4 DEF Cell
<1>3. CASE ~(p < Len(file))
  BY <1>1, <1>3 DEF Cell
<1> QED
  BY <1>1, <1>2, <1>3

(* The cursor past a number.                                               *)
LEMMA TakeNumber ==
  ASSUME NEW c \in Cursors
  PROVE  Take(c) = [at |-> c.at + 1,
                    far |-> IF c.far >= c.at + 1 THEN c.far ELSE c.at + 1]
<1>1. c.at \in Nat /\ c.far \in Nat /\ c.at + 1 \in Nat
  BY DEF Cursors
<1> QED
  BY <1>1, MaxOfTwo DEF Take

(* The cursor past two numbers.                                            *)
LEMMA TakeTwo ==
  ASSUME Ready, NEW c \in Cursors, Have(c, 2), c.far <= g.bytes
  PROVE  /\ Take(Take(c)) \in Reach /\ Take(Take(c)) \in Cursors
         /\ Take(Take(c)).at = c.at + 2 /\ c.at + 2 <= g.bytes
<1>1. c.at \in Nat /\ c.far \in Nat /\ g.bytes \in Nat /\ c.at + 2 <= g.bytes
  BY DEF Cursors, Ready, Have
<1>2. PICK f \in Nat : f <= g.bytes /\ Take(c) = [at |-> c.at + 1, far |-> f]
  BY <1>1, TakeNumber
<1>3. Take(c) \in Cursors
  BY <1>1, <1>2 DEF Cursors
<1>4. PICK e \in Nat : e <= g.bytes /\ Take(Take(c)) = [at |-> c.at + 1 + 1, far |-> e]
  BY <1>1, <1>2, <1>3, TakeNumber
<1> QED
  BY <1>1, <1>4 DEF Reach, Cursors

(* The cursor past a string: it may have wrapped, but only its length was  *)
(* read.                                                                   *)
LEMMA TakeString ==
  ASSUME Ready, NEW c \in Cursors, Have(c, 1), c.far <= g.bytes
  PROVE  /\ TakeStr(c) \in Cursors /\ TakeStr(c).far <= g.bytes
         /\ TakeStr(c).at \in 0 .. Word - 1
         /\ c.at + 1 + Cell(c.at) <= g.bytes => TakeStr(c).at = c.at + 1 + Cell(c.at)
<1>1. c.at \in Nat /\ c.far \in Nat /\ g.bytes \in Nat /\ Word \in Nat \ {0}
      /\ g.bytes < Word /\ c.at + 1 <= g.bytes
  BY WordAssumption DEF Cursors, Ready, Have
<1>2. PICK n \in 0 .. Word - 1 : n = Cell(c.at)
  BY <1>1, CellNumber
<1>3. PICK f \in Nat : f <= g.bytes /\ Take(c) = [at |-> c.at + 1, far |-> f]
  BY <1>1, TakeNumber
<1>4. TakeStr(c) = [at |-> (c.at + 1 + n) % Word, far |-> f]
  BY <1>2, <1>3 DEF TakeStr
<1>5. (c.at + 1 + n) % Word \in 0 .. Word - 1
  BY <1>1, <1>2
<1>6. c.at + 1 + n <= g.bytes => (c.at + 1 + n) % Word = c.at + 1 + n
  BY <1>1, <1>2
<1> QED
  BY <1>1, <1>2, <1>3, <1>4, <1>5, <1>6 DEF Cursors

-----------------------------------------------------------------------------
(* gguf_value_skip().                                                      *)

(* What is said of the calls for smaller work: they stay in reach and go   *)
(* on, and no more values take no cell.                                    *)
Sound(rest) ==
  \A x \in Work : x.cur \in Reach =>
    /\ rest[x] \in Reach /\ rest[x].at >= x.cur.at
    /\ x.n = 0 => rest[x] = x.cur

(* One value takes a cell or more, or the cursor is past the end.          *)
LEMMA OneValue ==
  ASSUME Ready, NEW rest, Sound(rest), NEW c \in Reach, Within(c), NEW type \in Nat
  PROVE  /\ PastOne(c, type, rest) \in Reach /\ PastOne(c, type, rest).at > c.at
         /\ type \in Fixed =>
              PastOne(c, type, rest).at \in {c.at + 1, g.bytes + 1}
<1>1. /\ c \in Cursors /\ c.at \in Nat /\ c.far \in Nat /\ g.bytes \in Nat
      /\ c.at <= g.bytes /\ c.far <= g.bytes
  BY DEF Reach, Cursors, Ready, Within
<1>2. Fail(c) \in Reach /\ Fail(c).at = g.bytes + 1
  BY <1>1 DEF Fail, Reach, Cursors
<1>3. CASE type \in Fixed
  <2>0. type # Str /\ type # Arr
    BY <1>3 DEF Arr, Str, Fixed, U32, Float
  <2>1. CASE Have(c, 1)
    <3>1. PastOne(c, type, rest) = [c EXCEPT !.at = @ + 1]
      BY <1>3, <2>0, <2>1 DEF PastOne
    <3>2. [c EXCEPT !.at = @ + 1] \in Reach /\ [c EXCEPT !.at = @ + 1].at = c.at + 1
      BY <1>1, <2>1 DEF Have, Reach, Cursors
    <3> QED
      BY <1>1, <3>1, <3>2
  <2>2. CASE ~Have(c, 1)
    <3>1. PastOne(c, type, rest) = Fail(c)
      BY <1>3, <2>0, <2>2 DEF PastOne
    <3> QED
      BY <1>1, <1>2, <3>1
  <2> QED
    BY <2>1, <2>2
<1>4. CASE type = Str
  <2>0. type \notin Fixed /\ type # Arr
    BY <1>4 DEF Arr, Str, Fixed, U32, Float
  <2>1. CASE Have(c, 1) /\ Have(Take(c), Cell(c.at))
    <3>1. PastOne(c, type, rest) = TakeStr(c)
      BY <1>4, <2>0, <2>1 DEF PastOne
    <3>2. PICK n \in Nat : n = Cell(c.at)
      BY <1>1, CellNumber
    <3>3. c.at + 1 + n <= g.bytes
      <4>1. Take(c).at = c.at + 1
        BY <1>1, TakeNumber
      <4> QED
        BY <1>1, <2>1, <3>2, <4>1 DEF Have
    <3>4. TakeStr(c) \in Cursors /\ TakeStr(c).far <= g.bytes
          /\ TakeStr(c).at = c.at + 1 + n
      BY <1>1, <2>1, <3>2, <3>3, TakeString
    <3> QED
      BY <1>1, <2>0, <3>1, <3>2, <3>3, <3>4 DEF Reach
  <2>2. CASE ~(Have(c, 1) /\ Have(Take(c), Cell(c.at)))
    <3>1. PastOne(c, type, rest) = Fail(c)
      BY <1>4, <2>0, <2>2 DEF PastOne
    <3> QED
      BY <1>1, <1>2, <2>0, <3>1
  <2> QED
    BY <2>1, <2>2
<1>5. CASE type = Arr
  <2>0. type \notin Fixed /\ type # Str
    BY <1>5 DEF Arr, Str, Fixed, U32, Float
  <2>1. CASE Have(c, 2)
    <3> DEFINE x == [cur |-> Take(Take(c)), type |-> Cell(c.at), n |-> Cell(c.at + 1)]
    <3>1. PastOne(c, type, rest) = rest[x]
      BY <1>5, <2>0, <2>1 DEF PastOne
    <3>2. Take(Take(c)) \in Reach /\ Take(Take(c)).at = c.at + 2
      BY <1>1, <2>1, TakeTwo
    <3>3. Cell(c.at) \in Nat /\ Cell(c.at + 1) \in Nat
      BY <1>1, CellNumber
    <3>4. x \in Work /\ x.cur \in Reach /\ x.cur.at = c.at + 2
      BY <3>2, <3>3 DEF Work, Reach, Cursors
    <3> HIDE DEF x
    <3>5. rest[x] \in Reach /\ rest[x].at >= c.at + 2
      BY <3>4 DEF Sound
    <3> QED
      BY <1>1, <2>0, <3>1, <3>5 DEF Reach, Cursors
  <2>2. CASE ~Have(c, 2)
    <3>1. PastOne(c, type, rest) = Fail(c)
      BY <1>5, <2>0, <2>2 DEF PastOne
    <3> QED
      BY <1>1, <1>2, <2>0, <3>1
  <2> QED
    BY <2>1, <2>2
<1>6. CASE type \notin Fixed /\ type # Str /\ type # Arr
  <2>1. PastOne(c, type, rest) = Fail(c)
    BY <1>6 DEF PastOne
  <2> QED
    BY <1>1, <1>2, <1>6, <2>1
<1> QED
  BY <1>3, <1>4, <1>5, <1>6

(* So do several, if those after the first do.                             *)
LEMMA SomeValues ==
  ASSUME Ready, NEW rest, Sound(rest), NEW x \in Work, x.cur \in Reach
  PROVE  /\ PastSome(x, rest) \in Reach /\ PastSome(x, rest).at >= x.cur.at
         /\ x.n = 0 => PastSome(x, rest) = x.cur
         /\ x.n # 0 /\ Within(x.cur) => PastSome(x, rest).at > x.cur.at
<1>1. x.cur.at \in Nat /\ x.n \in Nat /\ x.type \in Nat
  BY DEF Work
<1>2. CASE x.n = 0 \/ ~Within(x.cur)
  <2>1. PastSome(x, rest) = x.cur
    BY <1>2 DEF PastSome
  <2> QED
    BY <1>1, <1>2, <2>1
<1>3. CASE x.n # 0 /\ Within(x.cur)
  <2>1. PICK d : d = PastOne(x.cur, x.type, rest)
    OBVIOUS
  <2>2. d \in Reach /\ d.at > x.cur.at
    BY <1>1, <1>3, <2>1, OneValue
  <2> DEFINE y == [cur |-> d, type |-> x.type, n |-> x.n - 1]
  <2>3. PastSome(x, rest) = rest[y]
    BY <1>3, <2>1 DEF PastSome
  <2>4. y \in Work /\ y.cur \in Reach /\ y.cur.at = d.at /\ d.at \in Nat
    BY <1>1, <1>3, <2>2 DEF Work, Reach, Cursors
  <2> HIDE DEF y
  <2>5. rest[y] \in Reach /\ rest[y].at >= d.at
    BY <2>4 DEF Sound
  <2>6. rest[y].at \in Nat
    BY <2>5 DEF Reach, Cursors
  <2> QED
    BY <1>1, <1>3, <2>2, <2>3, <2>4, <2>5, <2>6
<1> QED
  BY <1>2, <1>3

(* The calls, by how many more may follow.                                 *)
IsPast(m, n) ==
  m = [k \in 0 .. n |-> [x \in Work |-> IF k = 0 THEN x.cur ELSE PastSome(x, m[k - 1])]]

(* There is such a function for every number.                              *)
LEMMA PastExists == \A n \in Nat : \E m : IsPast(m, n)
<1> DEFINE Bad == {n \in Nat : ~ \E m : IsPast(m, n)}
<1>1. SUFFICES ASSUME Bad # {} PROVE FALSE
  OBVIOUS
<1>2. Bad \subseteq Nat
  OBVIOUS
<1> HIDE DEF Bad
<1>3. \E n \in Bad : \A k \in Bad : n <= k
  BY <1>1, <1>2, LeastNumber
<1> USE DEF Bad
<1>4. PICK n \in Bad : \A k \in Bad : n <= k
  BY <1>3
<1>5. CASE n = 0
  <2> DEFINE m == [k \in 0 .. 0 |-> [x \in Work |-> x.cur]]
  <2>1. IsPast(m, 0)
    BY DEF IsPast
  <2> QED
    BY <1>4, <1>5, <2>1
<1>6. CASE n # 0
  <2>1. n \in Nat /\ n - 1 \in Nat /\ n - 1 \notin Bad
    BY <1>4, <1>6
  <2>2. PICK m : IsPast(m, n - 1)
    BY <2>1
  <2> DEFINE f == [k \in 0 .. n |-> IF k = n THEN [x \in Work |-> PastSome(x, m[n - 1])]
                                    ELSE m[k]]
  <2>3. \A k \in 0 .. n - 1 : f[k] = m[k]
    BY <2>1
  <2>4. ASSUME NEW k \in 0 .. n
        PROVE  f[k] = [x \in Work |-> IF k = 0 THEN x.cur ELSE PastSome(x, f[k - 1])]
    <3>1. CASE k = n
      <4>1. f[n - 1] = m[n - 1] /\ k # 0
        BY <1>6, <2>1, <2>3, <3>1
      <4> QED
        BY <2>1, <3>1, <4>1
    <3>2. CASE k # n
      <4>1. k \in 0 .. n - 1 /\ (k # 0 => k - 1 \in 0 .. n - 1)
        BY <2>1, <3>2
      <4>2. m[k] = [x \in Work |-> IF k = 0 THEN x.cur ELSE PastSome(x, m[k - 1])]
        BY <2>2, <4>1 DEF IsPast
      <4>3. f[k] = m[k] /\ (k # 0 => f[k - 1] = m[k - 1])
        BY <2>3, <4>1
      <4> HIDE DEF f
      <4> QED
        BY <4>2, <4>3
    <3> QED
      BY <3>1, <3>2
  <2>5. IsPast(f, n)
    <3>1. f = [k \in 0 .. n |-> f[k]]
      OBVIOUS
    <3> HIDE DEF f
    <3> QED
      BY <2>4, <3>1 DEF IsPast
  <2> QED
    BY <1>4, <2>5
<1> QED
  BY <1>5, <1>6

(* They all stay in reach.                                                 *)
LEMMA PastSound ==
  ASSUME Ready, NEW n \in Nat, NEW m, IsPast(m, n)
  PROVE  \A k \in 0 .. n : Sound(m[k])
<1> DEFINE Bad == {k \in 0 .. n : ~Sound(m[k])}
<1>1. SUFFICES ASSUME Bad # {} PROVE FALSE
  OBVIOUS
<1>2. Bad \subseteq Nat
  OBVIOUS
<1> HIDE DEF Bad
<1>3. \E k \in Bad : \A j \in Bad : k <= j
  BY <1>1, <1>2, LeastNumber
<1> USE DEF Bad
<1>4. PICK k \in Bad : \A j \in Bad : k <= j
  BY <1>3
<1>5. m[k] = [x \in Work |-> IF k = 0 THEN x.cur ELSE PastSome(x, m[k - 1])]
  BY <1>4 DEF IsPast
<1>6. CASE k = 0
  <2>1. \A x \in Work : m[k][x] = x.cur /\ x.cur.at \in Nat
    BY <1>5, <1>6 DEF Work
  <2>2. Sound(m[k])
    BY <2>1 DEF Sound
  <2> QED
    BY <1>4, <2>2
<1>7. CASE k # 0
  <2>1. Sound(m[k - 1])
    BY <1>4, <1>7
  <2>2. \A x \in Work : m[k][x] = PastSome(x, m[k - 1])
    BY <1>5, <1>7
  <2>3. Sound(m[k])
    <3>1. SUFFICES ASSUME NEW x \in Work, x.cur \in Reach
                   PROVE  /\ m[k][x] \in Reach /\ m[k][x].at >= x.cur.at
                          /\ x.n = 0 => m[k][x] = x.cur
      BY DEF Sound
    <3>2. PICK rest : rest = m[k - 1]
      OBVIOUS
    <3>3. m[k][x] = PastSome(x, rest) /\ Sound(rest)
      BY <2>1, <2>2, <3>2
    <3> QED
      BY <3>1, <3>3, SomeValues
  <2> QED
    BY <1>4, <2>3
<1> QED
  BY <1>6, <1>7

(* gguf_value_skip() reads nothing past the end; unless it fails it passes *)
(* a cell or more, and just one for a type of fixed width.                 *)
LEMMA SkipStays ==
  ASSUME Ready, NEW c \in Reach, Within(c), NEW type \in Nat
  PROVE  /\ Skip(c, type) \in Reach /\ Skip(c, type).at > c.at
         /\ type \in Fixed => Skip(c, type).at \in {c.at + 1, g.bytes + 1}
<1>1. g.bytes \in Nat /\ c \in Cursors
  BY DEF Ready, Reach
<1> DEFINE m == CHOOSE f : IsPast(f, g.bytes + 1)
           x == [cur |-> c, type |-> type, n |-> 1]
<1>2. \E f : IsPast(f, g.bytes + 1)
  BY <1>1, PastExists
<1>3. IsPast(m, g.bytes + 1)
  BY <1>2
<1>4. Skip(c, type) = m[g.bytes + 1][x]
  BY DEF Skip, IsPast
<1>5. x \in Work /\ x.cur = c /\ x.type = type /\ x.n = 1
  BY <1>1 DEF Work, Cursors
<1> HIDE DEF m, x
<1>6. Sound(m[g.bytes])
  BY <1>1, <1>3, PastSound
<1>7. Skip(c, type) = PastSome(x, m[g.bytes])
  <2>1. m[g.bytes + 1] = [y \in Work |-> PastSome(y, m[g.bytes])]
    <3>1. \A k \in 0 .. g.bytes + 1 :
            m[k] = [y \in Work |-> IF k = 0 THEN y.cur ELSE PastSome(y, m[k - 1])]
      BY <1>3 DEF IsPast
    <3>2. /\ g.bytes + 1 \in 0 .. g.bytes + 1 /\ g.bytes + 1 # 0
          /\ (g.bytes + 1) - 1 = g.bytes
      BY <1>1
    <3> QED
      BY <3>1, <3>2
  <2> QED
    BY <1>4, <1>5, <2>1
<1>8. PICK d : d = PastOne(c, type, m[g.bytes])
  OBVIOUS
<1>9. d \in Reach /\ d.at > c.at /\ (type \in Fixed => d.at \in {c.at + 1, g.bytes + 1})
  BY <1>6, <1>8, OneValue
<1>10. Skip(c, type) = d
  <2>1. PastSome(x, m[g.bytes]) = m[g.bytes][[cur |-> d, type |-> type, n |-> 0]]
    BY <1>5, <1>8 DEF PastSome
  <2>2. [cur |-> d, type |-> type, n |-> 0] \in Work
    BY <1>9 DEF Work, Reach, Cursors
  <2> QED
    BY <1>6, <1>7, <1>9, <2>1, <2>2 DEF Sound
<1> QED
  BY <1>9, <1>10

-----------------------------------------------------------------------------
(* The entries of the tables.                                              *)

Kvs == [key : Nat, n : Nat, type : Nat, raw : Nat, end : Nat]
Tensors == [key : Nat, n : Nat, shape : Seq(Nat), type : Nat, offset : Nat]

(* The value of an entry lies in the file.                                 *)
Inside(e) ==
  /\ e.raw < e.end /\ e.end <= Len(file)
  /\ e.type \in Fixed => e.end = e.raw + 1

(* A cursor that can be added to, and has read nothing past the end.       *)
Tame(c) == c \in [at : 0 .. Word - 1, far : Nat] /\ c.far <= Len(file)

(* gguf_parse_one_kv() from a cursor in the file, whatever the file says.  *)
LEMMA KvInside ==
  ASSUME Ready, NEW c \in Cursors, c.at \in 1 .. Len(file), c.far <= Len(file)
  PROVE  /\ Tame(KvAt(c).past)
         /\ KvAt(c).ok => /\ KvAt(c).kv \in Kvs /\ Inside(KvAt(c).kv)
                          /\ KvAt(c).past.at \in 1 .. Len(file)
<1>1. /\ g.bytes = Len(file) /\ g.bytes \in Nat /\ Word \in Nat \ {0}
      /\ g.bytes + 1 < Word /\ c.at \in Nat /\ c.far \in Nat
  <2>1. 2 * g.bytes < Word /\ g.bytes \in Nat /\ Word \in Nat \ {0} /\ g.bytes >= 1
    BY WordAssumption DEF Ready
  <2> QED
    BY <2>1 DEF Ready, Cursors
<1> DEFINE named == TakeStr(c)
           typed == Take(named)
           type == Cell(named.at)
           whole == Have(c, 1) /\ Within(named) /\ Have(named, 1)
<1>2. CASE ~Have(c, 1)
  <2>1. KvAt(c).past = c /\ KvAt(c).ok = FALSE
    BY <1>2 DEF KvAt
  <2>2. Tame(c)
    BY <1>1 DEF Tame, Cursors
  <2> QED
    BY <2>1, <2>2
<1>3. CASE Have(c, 1)
  <2>1. named \in Cursors /\ named.far <= g.bytes /\ named.at \in 0 .. Word - 1
    BY <1>1, <1>3, TakeString
  <2>2. CASE ~whole
    <3>1. KvAt(c).past = named /\ KvAt(c).ok = FALSE
      BY <1>3, <2>2 DEF KvAt
    <3>2. Tame(named)
      <4> HIDE DEF named
      <4> QED
        BY <1>1, <2>1 DEF Tame, Cursors
    <3> QED
      BY <3>1, <3>2
  <2>3. CASE whole
    <3>1. named.at + 1 <= g.bytes /\ named.at \in Nat /\ named.far \in Nat
      <4> HIDE DEF named
      <4> QED
        BY <1>1, <2>1, <2>3 DEF Have, Cursors
    <3>2. PICK t : t = named.at + 1 /\ typed.at = t /\ typed \in Reach /\ Within(typed)
      <4>1. PICK v \in Cursors : v = named
        BY <2>1
      <4>2. Take(v) = [at |-> v.at + 1, far |-> IF v.far >= v.at + 1 THEN v.far ELSE v.at + 1]
        BY TakeNumber
      <4>3. Take(v) \in Reach /\ Within(Take(v)) /\ Take(v).at = v.at + 1
        <5>1. v.at \in Nat /\ v.far \in Nat /\ v.far <= g.bytes /\ v.at + 1 <= g.bytes
          BY <2>1, <3>1, <4>1
        <5> QED
          BY <1>1, <4>2, <5>1 DEF Reach, Cursors, Within
      <4> QED
        BY <4>1, <4>3
    <3>3. type \in Nat
      BY <3>1, CellNumber
    <3>4. PICK past : past = Skip(typed, type)
      OBVIOUS
    <3>5. /\ past \in Reach /\ past.at > t
          /\ type \in Fixed => past.at \in {t + 1, g.bytes + 1}
      BY <3>2, <3>3, <3>4, SkipStays
    <3>6. KvAt(c).past = past /\ (KvAt(c).ok <=> Within(past))
          /\ KvAt(c).kv = [key |-> c.at + 1, n |-> Cell(c.at), type |-> type, raw |-> t,
                           end |-> past.at]
      BY <1>3, <2>3, <3>2, <3>4 DEF KvAt
    <3>7. Cell(c.at) \in Nat
      BY <1>1, CellNumber
    <3>8. PICK y \in Nat : y = type
      BY <3>3
    <3> HIDE DEF typed, type, named, whole
    <3>9. past.at \in Nat /\ past.far \in Nat /\ past.at <= g.bytes + 1 /\ past.far <= g.bytes
          /\ t \in Nat /\ past \in [at : Nat, far : Nat]
      BY <3>1, <3>2, <3>5 DEF Reach, Cursors
    <3>10. Tame(past)
      BY <1>1, <3>9 DEF Tame
    <3>11. ASSUME Within(past)
           PROVE  KvAt(c).kv \in Kvs /\ Inside(KvAt(c).kv) /\ past.at \in 1 .. Len(file)
      <4>1. past.at <= g.bytes
        BY <3>11 DEF Within
      <4>2. y \in Fixed => past.at = t + 1
        BY <1>1, <3>5, <3>8, <3>9, <4>1
      <4>3. KvAt(c).kv = [key |-> c.at + 1, n |-> Cell(c.at), type |-> y, raw |-> t,
                          end |-> past.at]
        BY <3>6, <3>8
      <4>4. KvAt(c).kv \in Kvs
        BY <1>1, <3>7, <3>9, <4>3 DEF Kvs
      <4>5. Inside(KvAt(c).kv)
        BY <1>1, <3>5, <3>9, <4>1, <4>2, <4>3 DEF Inside
      <4> QED
        BY <1>1, <3>5, <3>9, <4>1, <4>4, <4>5
    <3> QED
      BY <3>6, <3>10, <3>11
  <2> QED
    BY <2>2, <2>3
<1> QED
  BY <1>2, <1>3

(* gguf_parse_one_tensor(): at most four extents are read.                 *)
LEMMA TensorInside ==
  ASSUME Ready, NEW c \in Cursors, c.at \in 1 .. Len(file), c.far <= Len(file)
  PROVE  /\ Tame(TensorAt(c).past)
         /\ TensorAt(c).ok => /\ TensorAt(c).t \in Tensors /\ Len(TensorAt(c).t.shape) <= 4
                              /\ TensorAt(c).past.at \in 1 .. Len(file)
<1>1. /\ g.bytes = Len(file) /\ g.bytes \in Nat /\ Word \in Nat \ {0}
      /\ g.bytes + 1 < Word /\ c.at \in Nat /\ c.far \in Nat
  <2>1. 2 * g.bytes < Word /\ g.bytes \in Nat /\ Word \in Nat \ {0} /\ g.bytes >= 1
    BY WordAssumption DEF Ready
  <2> QED
    BY <2>1 DEF Ready, Cursors
<1> DEFINE named == TakeStr(c)
           dims == Cell(named.at)
           shape == Take(named)
           head == Have(c, 1) /\ Within(named) /\ Have(named, 1)
<1>2. CASE ~Have(c, 1)
  <2>1. TensorAt(c).past = c /\ TensorAt(c).ok = FALSE
    BY <1>2 DEF TensorAt
  <2>2. Tame(c)
    BY <1>1 DEF Tame, Cursors
  <2> QED
    BY <2>1, <2>2
<1>3. CASE Have(c, 1)
  <2>1. named \in Cursors /\ named.far <= g.bytes /\ named.at \in 0 .. Word - 1
    BY <1>1, <1>3, TakeString
  <2>2. CASE ~head
    <3>1. TensorAt(c).past = named /\ TensorAt(c).ok = FALSE
      BY <1>3, <2>2 DEF TensorAt
    <3>2. Tame(named)
      <4> HIDE DEF named
      <4> QED
        BY <1>1, <2>1 DEF Tame, Cursors
    <3> QED
      BY <3>1, <3>2
  <2>3. CASE head
    <3>1. named.at + 1 <= g.bytes /\ named.at \in Nat /\ named.far \in Nat
      <4> HIDE DEF named
      <4> QED
        BY <1>1, <2>1, <2>3 DEF Have, Cursors
    <3>2. PICK v \in Cursors : v = shape /\ v.at >= 1 /\ v.at <= g.bytes /\ v.far <= g.bytes
      <4>1. PICK w \in Cursors : w = named
        BY <2>1
      <4>2. Take(w) = [at |-> w.at + 1, far |-> IF w.far >= w.at + 1 THEN w.far ELSE w.at + 1]
        BY TakeNumber
      <4>3. w.at \in Nat /\ w.far \in Nat /\ w.far <= g.bytes /\ w.at + 1 <= g.bytes
        BY <2>1, <3>1, <4>1
      <4>4. Take(w) \in Cursors /\ Take(w).at >= 1 /\ Take(w).at <= g.bytes
            /\ Take(w).far <= g.bytes
        BY <1>1, <4>2, <4>3 DEF Cursors
      <4> QED
        BY <4>1, <4>4
    <3>3. PICK n \in Nat : n = dims
      BY <3>1, CellNumber
    <3> DEFINE last == v.at + n + 2
               cells == [d \in 1 .. Min({n, 4}) |-> Cell(v.at + d - 1)]
    <3>4. /\ TensorAt(c).ok <=> DimsFit(n, v)
          /\ TensorAt(c).t = [key |-> c.at + 1, n |-> Cell(c.at), shape |-> cells,
                              type |-> Cell(last - 2), offset |-> Cell(last - 1)]
          /\ TensorAt(c).past = IF DimsFit(n, v) THEN [at |-> last, far |-> Max({v.far, last})]
                                ELSE v
      BY <1>3, <2>3, <3>2, <3>3 DEF TensorAt
    <3>5. v.at \in Nat /\ v.far \in Nat
      BY <3>2 DEF Cursors
    <3>6. Tame(v)
      BY <1>1, <3>2, <3>5 DEF Tame, Cursors
    <3>7. ASSUME DimsFit(n, v)
          PROVE  /\ TensorAt(c).t \in Tensors /\ Len(TensorAt(c).t.shape) <= 4
                 /\ [at |-> last, far |-> Max({v.far, last})] \in [at : 0 .. Word - 1, far : Nat]
                 /\ Max({v.far, last}) <= g.bytes /\ last \in 1 .. Len(file)
      <4>1. n <= 4 /\ last <= g.bytes /\ last \in Nat /\ last - 2 \in Nat /\ last - 1 \in Nat
        <5>1. PICK p \in Nat : p = v.at
          BY <3>5
        <5>2. n <= 4 /\ n + 2 <= g.bytes - p
          BY <3>7, <5>1 DEF DimsFit, Have
        <5>3. last = p + n + 2 /\ g.bytes \in Nat
          BY <1>1, <5>1
        <5> HIDE DEF last
        <5> QED
          BY <5>2, <5>3
      <4>2. Max({v.far, last}) \in Nat /\ Max({v.far, last}) <= g.bytes
        BY <3>2, <3>5, <4>1, MaxOfTwo
      <4>3. cells = [d \in 1 .. n |-> Cell(v.at + d - 1)]
        BY <4>1, MinOfTwo
      <4>4. \A d \in 1 .. n : Cell(v.at + d - 1) \in Nat
        <5>1. \A d \in 1 .. n : v.at + d - 1 \in Nat
          BY <3>5
        <5> QED
          BY <5>1, CellNumber
      <4>5. cells \in Seq(Nat) /\ Len(cells) = n
        <5>1. PICK h \in [1 .. n -> Nat] : h = cells
          BY <4>3, <4>4
        <5>2. h \in Seq(Nat) /\ Len(h) = n
          OBVIOUS
        <5> QED
          BY <5>1, <5>2
      <4>6. Cell(c.at) \in Nat /\ Cell(last - 2) \in Nat /\ Cell(last - 1) \in Nat
        BY <1>1, <4>1, CellNumber
      <4> HIDE DEF cells, last
      <4>7. TensorAt(c).t \in Tensors /\ TensorAt(c).t.shape = cells
        BY <1>1, <3>4, <4>5, <4>6 DEF Tensors
      <4>8. last \in 1 .. Len(file) /\ last \in 0 .. Word - 1
        BY <1>1, <3>2, <3>5, <4>1, SMTT(30) DEF last
      <4> QED
        BY <4>1, <4>2, <4>5, <4>7, <4>8
    <3> HIDE DEF last, cells, named, dims, shape, head
    <3> QED
      BY <1>1, <3>2, <3>4, <3>5, <3>6, <3>7 DEF Tame
  <2> QED
    BY <2>2, <2>3
<1> QED
  BY <1>2, <1>3

-----------------------------------------------------------------------------
(* The invariant of the reader.                                            *)

Parsing == {"header", "kvs", "kv", "bad", "tensors", "tensor"}

Structs ==
  [mapped : BOOLEAN, bytes : Nat, path : BOOLEAN, nKv : Nat, nTensors : Nat,
   kvs : {NULL} \cup Seq(Kvs), tensors : {NULL} \cup Seq(Tensors),
   align : 0 .. Word - 1, data : Nat]

Typed ==
  /\ place \in Parsing \cup {"closed", "open", "aborted"}
  /\ g \in Structs
  /\ Tame(cur)
  /\ file \in Seq(0 .. Word - 1) /\ 2 * Len(file) < Word

(* While a file is parsed it is mapped, and the cursor is in it at every   *)
(* loop's head; afterwards the mapping is there or released.               *)
Mapped == g.mapped = TRUE /\ g.bytes = Len(file)

Placed ==
  /\ place \in {"kvs", "kv", "tensors", "tensor", "open"} => cur.at \in 1 .. Len(file)
  /\ place \in Parsing => Mapped
  /\ place = "open" => Mapped \/ (g.mapped = FALSE /\ g.bytes = 0)

(* The tables parsed so far; those of a closed file are gone.              *)
Tables ==
  /\ place \in {"kv", "tensors", "tensor", "open"} =>
       g.kvs \in Seq(Kvs) /\ \A j \in 1 .. Len(g.kvs) : Inside(g.kvs[j])
  /\ place \in {"tensors", "tensor", "open"} => Len(g.kvs) = g.nKv
  /\ place \in {"tensor", "open"} =>
       /\ g.tensors \in Seq(Tensors)
       /\ \A j \in 1 .. Len(g.tensors) : Len(g.tensors[j].shape) <= 4
  /\ place = "open" =>
       /\ Len(g.tensors) = g.nTensors
       /\ \A j \in 1 .. Len(g.tensors) : g.data + g.tensors[j].offset <= Len(file)
       /\ cur.at <= g.data
       /\ IsPowerOfTwo(g.align) => g.data % g.align = 0
  /\ place = "closed" =>
       g.mapped = FALSE /\ g.path = FALSE /\ g.kvs = NULL /\ g.tensors = NULL

ReaderInv == Typed /\ Placed /\ Tables

(* While it parses, the reader is ready for the lemmas above.              *)
LEMMA ParsingReady ==
  ASSUME ReaderInv, place \in Parsing
  PROVE  /\ Ready /\ Mapped /\ cur \in Cursors /\ cur.far <= Len(file)
         /\ cur.at \in 0 .. Word - 1 /\ Len(file) \in Nat /\ Word \in Nat \ {0}
<1>1. Word \in Nat \ {0}
  BY WordAssumption
<1>2. cur \in [at : 0 .. Word - 1, far : Nat]
  BY DEF ReaderInv, Typed, Tame
<1> QED
  BY <1>1, <1>2 DEF ReaderInv, Typed, Placed, Mapped, Ready, Tame, Cursors

(* gguf_close() leaves nothing.                                            *)
LEMMA ReaderClose ==
  ASSUME ReaderInv, Close
  PROVE  ReaderInv'
<1>1. place' = "closed" /\ file' = <<>> /\ cur' = Start
      /\ g' = [g EXCEPT !.kvs = NULL, !.tensors = NULL, !.path = FALSE,
                        !.mapped = FALSE, !.bytes = 0]
  BY DEF Close
<1>2. Typed'
  <2>1. Word \in Nat \ {0}
    BY WordAssumption
  <2>2. <<>> \in Seq(0 .. Word - 1) /\ Len(<<>>) = 0
    OBVIOUS
  <2>3. Tame(cur)'
    BY <1>1, <2>1, <2>2 DEF Tame, Start
  <2>4. g' \in Structs
    BY <1>1 DEF ReaderInv, Typed, Structs
  <2> QED
    BY <1>1, <2>1, <2>2, <2>3, <2>4 DEF Typed
<1>3. Placed'
  BY <1>1 DEF Placed, Parsing
<1>4. Tables'
  <2>1. g'.mapped = FALSE /\ g'.path = FALSE /\ g'.kvs = NULL /\ g'.tensors = NULL
    BY <1>1 DEF ReaderInv, Typed, Structs
  <2> QED
    BY <1>1, <2>1 DEF Tables
<1> QED
  BY <1>2, <1>3, <1>4 DEF ReaderInv

(* An abort changes nothing.                                               *)
LEMMA ReaderAbort ==
  ASSUME ReaderInv, Abort
  PROVE  ReaderInv'
<1>1. place' = "aborted" /\ UNCHANGED <<file, g, cur>>
  BY DEF Abort
<1>2. Typed'
  BY <1>1 DEF ReaderInv, Typed, Tame
<1>3. Placed' /\ Tables'
  BY <1>1 DEF Placed, Tables, Parsing
<1> QED
  BY <1>2, <1>3 DEF ReaderInv

(* gguf_mmap_file(): the file is mapped whole, or not at all.              *)
LEMMA ReaderMmap ==
  ASSUME ReaderInv, NEW f \in Files, MmapFile(f)
  PROVE  ReaderInv' /\ (place' = "header" => Mapped') /\ place' # "open"
<1>1. /\ Word \in Nat \ {0} /\ DefaultAlign \in 0 .. Word - 1
      /\ f \in Seq(0 .. Word - 1) /\ 2 * Len(f) < Word
  BY WordAssumption
<1>2. file' = f /\ cur' = Start /\ place' \in {"header", "closed", "aborted"}
  BY DEF MmapFile
<1>3. Len(f) \in Nat
  BY <1>1
<1>4. Tame(cur)'
  BY <1>1, <1>2, <1>3 DEF Tame, Start
<1>5. Zeroed \in Structs
  BY <1>1 DEF Zeroed, Structs
<1>6. CASE place' = "header"
  <2>1. g' = [Zeroed EXCEPT !.mapped = TRUE, !.bytes = Len(f), !.path = TRUE]
    BY <1>6 DEF MmapFile
  <2>2. g' \in Structs /\ g'.mapped = TRUE /\ g'.bytes = Len(f)
    BY <1>3, <1>5, <2>1 DEF Structs
  <2>3. Typed'
    BY <1>1, <1>2, <1>4, <1>6, <2>2 DEF Typed, Parsing
  <2>4. Placed' /\ Mapped' /\ Tables'
    BY <1>2, <1>6, <2>2 DEF Placed, Mapped, Tables, Parsing
  <2> QED
    BY <1>6, <2>3, <2>4 DEF ReaderInv
<1>7. CASE place' = "closed"
  <2>1. g' = Zeroed
    BY <1>7 DEF MmapFile
  <2>2. Typed'
    BY <1>1, <1>2, <1>4, <1>5, <1>7, <2>1 DEF Typed
  <2>3. Placed' /\ Tables'
    BY <1>7, <2>1 DEF Placed, Tables, Parsing, Zeroed
  <2> QED
    BY <1>7, <2>2, <2>3 DEF ReaderInv
<1>8. CASE place' = "aborted"
  <2>1. g' = [Zeroed EXCEPT !.mapped = TRUE, !.bytes = Len(f)]
    BY <1>8 DEF MmapFile
  <2>2. g' \in Structs
    BY <1>3, <1>5, <2>1 DEF Structs
  <2>3. Typed'
    BY <1>1, <1>2, <1>4, <1>8, <2>2 DEF Typed
  <2>4. Placed' /\ Tables'
    BY <1>8 DEF Placed, Tables, Parsing
  <2> QED
    BY <1>8, <2>3, <2>4 DEF ReaderInv
<1> QED
  BY <1>2, <1>6, <1>7, <1>8

(* The counts are believed, but the cursor is where it was proved to be.   *)
LEMMA StepReadHeader ==
  ASSUME ReaderInv, ReadHeader
  PROVE  ReaderInv'
<1>1. place = "header" /\ place \in Parsing
  BY DEF ReadHeader, Parsing
<1>2. /\ Ready /\ Mapped /\ cur \in Cursors /\ cur.far <= Len(file)
      /\ cur.at \in 0 .. Word - 1 /\ Len(file) \in Nat /\ Word \in Nat \ {0}
  BY <1>1, ParsingReady
<1> DEFINE two == Take(Take(cur))
           four == Take(Take(two))
           whole == /\ Have(cur, 2) /\ Cell(0) = Magic /\ Cell(1) = Version
                    /\ Have(two, 2)
<1>3. CASE ~whole
  <2>1. Close
    BY <1>3 DEF ReadHeader
  <2> QED
    BY <2>1, ReaderClose
<1>4. CASE whole
  <2>1. /\ place' = "kvs" /\ cur' = four /\ file' = file
        /\ g' = [g EXCEPT !.nTensors = Cell(2), !.nKv = Cell(3)]
    BY <1>4 DEF ReadHeader
  <2>2. PICK w \in Cursors : w = two /\ w \in Reach /\ w.at = cur.at + 2
    BY <1>2, <1>4, TakeTwo DEF Ready
  <2>3. four \in Reach /\ four.at = cur.at + 4 /\ cur.at + 4 <= g.bytes
    <3>1. Have(w, 2) /\ w.far <= g.bytes
      BY <1>4, <2>2 DEF Reach
    <3>2. /\ Take(Take(w)) \in Reach /\ Take(Take(w)).at = w.at + 2
          /\ w.at + 2 <= g.bytes
      BY <1>2, <3>1, TakeTwo
    <3> QED
      BY <1>2, <2>2, <3>2
  <2>4. Cell(2) \in Nat /\ Cell(3) \in Nat
    BY <1>2, CellNumber
  <2> HIDE DEF two, four, whole
  <2>5. /\ g' \in Structs
        /\ g'.mapped = g.mapped /\ g'.bytes = g.bytes
    BY <2>1, <2>4 DEF ReaderInv, Typed, Structs
  <2>6. Tame(cur)' /\ cur'.at \in 1 .. Len(file)
    <3>1. PICK c \in Reach : c = four /\ c.at = cur.at + 4
      BY <2>3
    <3>2. /\ c.at \in Nat /\ c.far \in Nat /\ c = [at |-> c.at, far |-> c.far]
          /\ c.far <= Len(file)
      BY <1>2 DEF Reach, Cursors, Ready
    <3>3. c.at \in 1 .. Len(file) /\ c.at \in 0 .. Word - 1
      BY <1>2, <2>3, <3>1, <3>2 DEF Ready
    <3>4. Tame(c)
      BY <3>2, <3>3 DEF Tame
    <3> QED
      BY <2>1, <3>1, <3>3, <3>4 DEF Tame
  <2>7. Typed'
    BY <2>1, <2>5, <2>6 DEF ReaderInv, Typed, Parsing
  <2>8. Placed'
    BY <1>2, <2>1, <2>5, <2>6 DEF Placed, Parsing, Mapped
  <2>9. Tables'
    BY <2>1 DEF Tables
  <2> QED
    BY <2>7, <2>8, <2>9 DEF ReaderInv
<1> QED
  BY <1>3, <1>4

(* The empty table holds entries of any kind.                              *)
LEMMA EmptyTable ==
  ASSUME NEW S
  PROVE  <<>> \in Seq(S) /\ Len(<<>>) = 0
OBVIOUS

(* What append leaves, and where it puts the entry.                        *)
LEMMA Appended ==
  ASSUME NEW S, NEW t \in Seq(S), NEW e \in S
  PROVE  /\ Append(t, e) \in Seq(S) /\ Len(Append(t, e)) = Len(t) + 1
         /\ \A j \in 1 .. Len(t) : Append(t, e)[j] = t[j]
         /\ Append(t, e)[Len(t) + 1] = e
OBVIOUS

(* A table begins empty.                                                   *)
LEMMA StepAllocKvs ==
  ASSUME ReaderInv, AllocKvs
  PROVE  ReaderInv'
<1>1. CASE Abort
  BY <1>1, ReaderAbort
<1>2. CASE ~Abort
  <2>1. place = "kvs" /\ place' = "kv" /\ UNCHANGED <<file, cur>>
        /\ g' = [g EXCEPT !["kvs"] = <<>>]
    BY <1>2 DEF AllocKvs, AllocTable
  <2>0. PICK none \in Seq(Kvs) : none = <<>> /\ Len(none) = 0
    BY EmptyTable
  <2>2. /\ g' \in Structs
        /\ g'.mapped = g.mapped /\ g'.bytes = g.bytes /\ g'.kvs = none
    BY <2>0, <2>1 DEF ReaderInv, Typed, Structs
  <2>3. Typed'
    BY <2>1, <2>2 DEF ReaderInv, Typed, Parsing, Tame
  <2>4. Placed'
    BY <2>1, <2>2 DEF ReaderInv, Placed, Parsing, Mapped
  <2>5. Tables'
    BY <2>0, <2>1, <2>2 DEF Tables, Structs
  <2> QED
    BY <2>3, <2>4, <2>5 DEF ReaderInv
<1> QED
  BY <1>1, <1>2

(* So does the table of tensors, and the other table stays.                *)
LEMMA StepAllocTensors ==
  ASSUME ReaderInv, AllocTensors
  PROVE  ReaderInv'
<1>1. CASE Abort
  BY <1>1, ReaderAbort
<1>2. CASE ~Abort
  <2>1. place = "tensors" /\ place' = "tensor" /\ UNCHANGED <<file, cur>>
        /\ g' = [g EXCEPT !["tensors"] = <<>>]
    BY <1>2 DEF AllocTensors, AllocTable
  <2>0. PICK none \in Seq(Tensors) : none = <<>> /\ Len(none) = 0
    BY EmptyTable
  <2>2. /\ g' \in Structs
        /\ g'.mapped = g.mapped /\ g'.bytes = g.bytes /\ g'.tensors = none
        /\ g'.kvs = g.kvs /\ g'.nKv = g.nKv
    BY <2>0, <2>1 DEF ReaderInv, Typed, Structs
  <2>3. Typed'
    BY <2>1, <2>2 DEF ReaderInv, Typed, Parsing, Tame
  <2>4. Placed'
    BY <2>1, <2>2 DEF ReaderInv, Placed, Parsing, Mapped
  <2>5. Tables'
    BY <2>0, <2>1, <2>2 DEF ReaderInv, Tables, Inside, Structs
  <2> QED
    BY <2>3, <2>4, <2>5 DEF ReaderInv
<1> QED
  BY <1>1, <1>2

(* An entry is added, or the file is bad.                                  *)
LEMMA StepParseOneKv ==
  ASSUME ReaderInv, ParseOneKv
  PROVE  ReaderInv'
<1>1. place = "kv" /\ place \in Parsing /\ file' = file
  BY DEF ParseOneKv, Parsing
<1>2. /\ Ready /\ Mapped /\ cur \in Cursors /\ cur.far <= Len(file)
      /\ cur.at \in 1 .. Len(file) /\ Len(file) \in Nat
  BY <1>1, ParsingReady DEF ReaderInv, Placed
<1>3. PICK r : r = KvAt(cur)
  OBVIOUS
<1>4. /\ Tame(r.past)
      /\ r.ok => r.kv \in Kvs /\ Inside(r.kv) /\ r.past.at \in 1 .. Len(file)
  BY <1>2, <1>3, KvInside
<1>5. cur' = r.past
  BY <1>3 DEF ParseOneKv
<1>6. Tame(cur)'
  BY <1>1, <1>4, <1>5 DEF Tame
<1>7. CASE r.ok
  <2>1. place' = "kv" /\ g' = [g EXCEPT !.kvs = Append(@, r.kv)]
    BY <1>1, <1>3, <1>7 DEF ParseOneKv
  <2>2. PICK t \in Seq(Kvs) : t = g.kvs /\ \A j \in 1 .. Len(t) : Inside(t[j])
    BY <1>1 DEF ReaderInv, Tables
  <2>3. PICK u \in Seq(Kvs) : /\ u = Append(t, r.kv) /\ Len(u) = Len(t) + 1
                              /\ \A j \in 1 .. Len(t) : u[j] = t[j]
                              /\ u[Len(t) + 1] = r.kv
    <3>1. PICK e \in Kvs : e = r.kv
      BY <1>4, <1>7
    <3> QED
      BY <3>1, Appended
  <2>4. \A j \in 1 .. Len(u) : Inside(u[j])
    <3>1. SUFFICES ASSUME NEW j \in 1 .. Len(u) PROVE Inside(u[j])
      OBVIOUS
    <3>2. j \in 1 .. Len(t) \/ j = Len(t) + 1
      BY <2>3
    <3> QED
      BY <1>4, <1>7, <2>2, <2>3, <3>2
  <2>5. /\ g' \in Structs
        /\ g'.mapped = g.mapped /\ g'.bytes = g.bytes /\ g'.kvs = u
    <3>1. g' = [g EXCEPT !.kvs = u]
      BY <2>1, <2>2, <2>3
    <3> QED
      BY <3>1 DEF ReaderInv, Typed, Structs
  <2>6. Typed'
    BY <1>1, <1>6, <2>1, <2>5 DEF ReaderInv, Typed, Parsing
  <2>7. Placed'
    BY <1>1, <1>2, <1>4, <1>5, <1>7, <2>1, <2>5 DEF Placed, Parsing, Mapped
  <2>8. Tables'
    BY <1>1, <2>1, <2>4, <2>5 DEF Tables, Inside
  <2> QED
    BY <2>6, <2>7, <2>8 DEF ReaderInv
<1>8. CASE ~r.ok
  <2>1. place' = "bad" /\ g' = g
    BY <1>3, <1>8 DEF ParseOneKv
  <2>2. Typed'
    BY <1>1, <1>6, <2>1 DEF ReaderInv, Typed, Parsing
  <2>3. Placed' /\ Tables'
    BY <1>1, <1>2, <2>1 DEF Placed, Parsing, Mapped, Tables
  <2> QED
    BY <2>2, <2>3 DEF ReaderInv
<1> QED
  BY <1>7, <1>8

(* A bad file is closed: gguf_open() leaves nothing.                       *)
LEMMA StepMalformed ==
  ASSUME ReaderInv, Malformed
  PROVE  ReaderInv' /\ place' = "closed"
<1>1. Close
  BY DEF Malformed
<1> QED
  BY <1>1, ReaderClose DEF Close

(* The alignment is read from an entry of the table, a cell of the file.   *)
LEMMA StepApplyAlignment ==
  ASSUME ReaderInv, ApplyAlignment
  PROVE  ReaderInv'
<1>1. /\ place = "kv" /\ place \in Parsing /\ place' = "tensors" /\ Len(g.kvs) = g.nKv
      /\ UNCHANGED <<file, cur>>
  BY DEF ApplyAlignment, Parsing
<1>2. PICK t \in Seq(Kvs) : t = g.kvs /\ \A j \in 1 .. Len(t) : Inside(t[j])
  BY <1>1 DEF ReaderInv, Tables
<1> DEFINE given == {j \in DOMAIN t : KeyIs(t[j], AlignKey) /\ t[j].type = U32}
<1>3. g' = IF given = {} THEN g ELSE [g EXCEPT !.align = Cell(t[Max(given)].raw)]
  BY <1>2 DEF ApplyAlignment
<1>4. \E a \in 0 .. Word - 1 : g' = [g EXCEPT !.align = a]
  <2>1. CASE given = {}
    <3>1. g.align \in 0 .. Word - 1 /\ g = [g EXCEPT !.align = g.align]
      BY DEF ReaderInv, Typed, Structs
    <3> QED
      BY <1>3, <2>1, <3>1
  <2>2. CASE given # {}
    <3>1. given \subseteq 1 .. Len(t) /\ given \subseteq Nat /\ Len(t) \in Nat
          /\ \A j \in given : j <= Len(t)
      OBVIOUS
    <3> HIDE DEF given
    <3>2. Max(given) \in given
      BY <2>2, <3>1, MaxFound
    <3>3. PICK j \in 1 .. Len(t) : j = Max(given)
      BY <3>1, <3>2
    <3>4. t[j] \in Kvs
      BY <3>3
    <3>5. t[j].raw \in Nat
      BY <3>4 DEF Kvs
    <3>6. Cell(t[j].raw) \in 0 .. Word - 1
      BY <1>1, <3>5, CellNumber, ParsingReady
    <3> QED
      BY <1>3, <2>2, <3>3, <3>6
  <2> QED
    BY <2>1, <2>2
<1> HIDE DEF given
<1>5. PICK a \in 0 .. Word - 1 : g' = [g EXCEPT !.align = a]
  BY <1>4
<1>6. /\ g' \in Structs
      /\ g'.mapped = g.mapped /\ g'.bytes = g.bytes /\ g'.kvs = g.kvs /\ g'.nKv = g.nKv
  BY <1>5 DEF ReaderInv, Typed, Structs
<1>7. Typed'
  BY <1>1, <1>6 DEF ReaderInv, Typed, Parsing, Tame
<1>8. Placed'
  BY <1>1, <1>6 DEF ReaderInv, Placed, Parsing, Mapped
<1>9. Tables'
  BY <1>1, <1>6 DEF ReaderInv, Tables, Inside
<1> QED
  BY <1>7, <1>8, <1>9 DEF ReaderInv

(* A tensor is added with at most four extents, or the file is bad.        *)
LEMMA StepParseOneTensor ==
  ASSUME ReaderInv, ParseOneTensor
  PROVE  ReaderInv'
<1>1. place = "tensor" /\ place \in Parsing /\ file' = file
  BY DEF ParseOneTensor, Parsing
<1>2. /\ Ready /\ Mapped /\ cur \in Cursors /\ cur.far <= Len(file)
      /\ cur.at \in 1 .. Len(file) /\ Len(file) \in Nat
  BY <1>1, ParsingReady DEF ReaderInv, Placed
<1>3. PICK r : r = TensorAt(cur)
  OBVIOUS
<1>4. /\ Tame(r.past)
      /\ r.ok => r.t \in Tensors /\ Len(r.t.shape) <= 4 /\ r.past.at \in 1 .. Len(file)
  BY <1>2, <1>3, TensorInside
<1>5. cur' = r.past
  BY <1>3 DEF ParseOneTensor
<1>6. Tame(cur)'
  BY <1>1, <1>4, <1>5 DEF Tame
<1>7. CASE r.ok
  <2>1. place' = "tensor" /\ g' = [g EXCEPT !.tensors = Append(@, r.t)]
    BY <1>1, <1>3, <1>7 DEF ParseOneTensor
  <2>2. PICK t \in Seq(Tensors) : t = g.tensors /\ \A j \in 1 .. Len(t) : Len(t[j].shape) <= 4
    BY <1>1 DEF ReaderInv, Tables
  <2>3. PICK u \in Seq(Tensors) : /\ u = Append(t, r.t) /\ Len(u) = Len(t) + 1
                                  /\ \A j \in 1 .. Len(t) : u[j] = t[j]
                                  /\ u[Len(t) + 1] = r.t
    <3>1. PICK e \in Tensors : e = r.t
      BY <1>4, <1>7
    <3> QED
      BY <3>1, Appended
  <2>4. \A j \in 1 .. Len(u) : Len(u[j].shape) <= 4
    <3>1. SUFFICES ASSUME NEW j \in 1 .. Len(u) PROVE Len(u[j].shape) <= 4
      OBVIOUS
    <3>2. j \in 1 .. Len(t) \/ j = Len(t) + 1
      BY <2>3
    <3> QED
      BY <1>4, <1>7, <2>2, <2>3, <3>2
  <2>5. /\ g' \in Structs
        /\ g'.mapped = g.mapped /\ g'.bytes = g.bytes /\ g'.tensors = u
        /\ g'.kvs = g.kvs /\ g'.nKv = g.nKv
    <3>1. g' = [g EXCEPT !.tensors = u]
      BY <2>1, <2>2, <2>3
    <3> QED
      BY <3>1 DEF ReaderInv, Typed, Structs
  <2>6. Typed'
    BY <1>1, <1>6, <2>1, <2>5 DEF ReaderInv, Typed, Parsing
  <2>7. Placed'
    BY <1>1, <1>2, <1>4, <1>5, <1>7, <2>1, <2>5 DEF Placed, Parsing, Mapped
  <2>8. Tables'
    BY <1>1, <2>1, <2>4, <2>5 DEF ReaderInv, Tables, Inside
  <2> QED
    BY <2>6, <2>7, <2>8 DEF ReaderInv
<1>8. CASE ~r.ok
  <2>1. place' = "bad" /\ g' = g
    BY <1>3, <1>8 DEF ParseOneTensor
  <2>2. Typed'
    BY <1>1, <1>6, <2>1 DEF ReaderInv, Typed, Parsing
  <2>3. Placed' /\ Tables'
    BY <1>1, <1>2, <2>1 DEF Placed, Parsing, Mapped, Tables
  <2> QED
    BY <2>2, <2>3 DEF ReaderInv
<1> QED
  BY <1>7, <1>8

(* The mask leaves a start that is not before the tables' end, whatever    *)
(* the alignment, and a multiple of a power of two.                        *)
LEMMA AlignedStart ==
  ASSUME NEW c \in 1 .. Word, NEW a \in 1 .. Word
  PROVE  /\ Aligned(c, a) \in Nat /\ Aligned(c, a) >= c
         /\ IsPowerOfTwo(a) => Aligned(c, a) % a = 0
<1>1. Word \in Nat \ {0}
  BY WordAssumption
<1>2. PICK x \in 0 .. 2 * Word : x = c + a - 1
  BY <1>1
<1>3. PICK m : m = BitAnd(x, a - 1)
  OBVIOUS
<1>4. m \in 0 .. a - 1 /\ (IsPowerOfTwo(a) => m = x % a)
  BY <1>3, AndAssumption
<1>5. Aligned(c, a) = x - m
  BY <1>2, <1>3 DEF Aligned
<1>6. ASSUME IsPowerOfTwo(a) PROVE (x - m) % a = 0
  <2>1. PICK q \in Nat : x = a * q + m
    <3>1. x \in Nat /\ a \in Nat /\ a > 0
      BY <1>1, <1>2
    <3>2. PICK q \in Nat, r \in 0 .. a - 1 : q = x \div a /\ r = x % a
      BY <3>1
    <3>3. x = a * q + r
      BY <3>1, <3>2
    <3> QED
      BY <1>4, <1>6, <3>2, <3>3
  <2>2. /\ a \in Nat /\ 0 \in 0 .. a - 1 /\ a * q \in Nat /\ x - m = a * q
        /\ a * q = a * q + 0
    BY <1>1, <1>4, <2>1
  <2> QED
    BY <2>2, Remainder
<1> QED
  BY <1>1, <1>2, <1>4, <1>5, <1>6

(* The data section begins where the tables end or behind, and every       *)
(* tensor in the file.                                                     *)
LEMMA StepPlaceData ==
  ASSUME ReaderInv, PlaceData
  PROVE  ReaderInv' /\ (place' = "open" => Mapped')
<1>1. place = "tensor" /\ place \in Parsing /\ Len(g.tensors) = g.nTensors
  BY DEF PlaceData, Parsing
<1>2. /\ Ready /\ Mapped /\ cur.at \in 1 .. Len(file) /\ Len(file) \in Nat
      /\ Word \in Nat \ {0} /\ 2 * Len(file) < Word
  BY <1>1, ParsingReady DEF ReaderInv, Placed, Ready
<1>3. PICK a \in 1 .. Word : a = IF g.align = 0 THEN DefaultAlign ELSE g.align
  BY <1>2, WordAssumption DEF ReaderInv, Typed, Structs
<1>4. PICK start : start = Aligned(cur.at, a)
  OBVIOUS
<1>5. PICK c \in 1 .. Word : c = cur.at
  BY <1>2
<1>6. start \in Nat /\ start >= cur.at /\ (IsPowerOfTwo(a) => start % a = 0)
  BY <1>4, <1>5, AlignedStart
<1> DEFINE whole == /\ start <= g.bytes
                    /\ \A j \in DOMAIN g.tensors : g.tensors[j].offset <= g.bytes - start
<1>7. CASE ~whole
  <2>1. Close
    BY <1>3, <1>4, <1>7 DEF PlaceData
  <2> QED
    BY <2>1, ReaderClose DEF Close
<1>8. CASE whole
  <2>1. place' = "open" /\ UNCHANGED <<file, cur>> /\ g' = [g EXCEPT !.data = start]
    BY <1>3, <1>4, <1>8 DEF PlaceData
  <2>2. /\ g' \in Structs
        /\ g'.mapped = g.mapped /\ g'.bytes = g.bytes /\ g'.tensors = g.tensors
        /\ g'.kvs = g.kvs /\ g'.nKv = g.nKv /\ g'.nTensors = g.nTensors
        /\ g'.align = g.align /\ g'.data = start
    BY <1>6, <2>1 DEF ReaderInv, Typed, Structs
  <2>3. Typed'
    BY <2>1, <2>2 DEF ReaderInv, Typed, Tame
  <2>4. Placed' /\ Mapped'
    BY <1>1, <1>2, <2>1, <2>2 DEF Placed, Parsing, Mapped
  <2>5. PICK t \in Seq(Tensors) : t = g.tensors
    BY <1>1 DEF ReaderInv, Tables
  <2>6. \A j \in 1 .. Len(t) : start + t[j].offset <= Len(file)
    <3>1. SUFFICES ASSUME NEW j \in 1 .. Len(t) PROVE start + t[j].offset <= Len(file)
      OBVIOUS
    <3>2. t[j] \in Tensors
      BY <3>1, <2>5
    <3>3. t[j].offset \in Nat
      BY <3>2 DEF Tensors
    <3>4. t[j].offset <= Len(file) - start
      BY <1>2, <1>8, <2>5 DEF Mapped
    <3> QED
      BY <1>2, <1>6, <3>3, <3>4
  <2>7. IsPowerOfTwo(g.align) => start % g.align = 0
    <3>1. ASSUME IsPowerOfTwo(g.align) PROVE start % g.align = 0
      <4>1. g.align # 0
        BY <3>1 DEF IsPowerOfTwo
      <4>2. a = g.align
        BY <1>3, <4>1
      <4> QED
        BY <1>6, <3>1, <4>2
    <3> QED
      BY <3>1
  <2>8. Tables'
    <3>1. /\ g.kvs \in Seq(Kvs) /\ \A j \in 1 .. Len(g.kvs) : Inside(g.kvs[j])
          /\ Len(g.kvs) = g.nKv
          /\ \A j \in 1 .. Len(t) : Len(t[j].shape) <= 4
      BY <1>1, <2>5 DEF ReaderInv, Tables
    <3> HIDE DEF whole
    <3> QED
      BY <1>1, <1>6, <2>1, <2>2, <2>5, <2>6, <2>7, <3>1 DEF Tables, Inside
  <2> QED
    BY <2>1, <2>3, <2>4, <2>8 DEF ReaderInv
<1> QED
  BY <1>7, <1>8

(* gguf_open() keeps the invariant in every step, and opens a file that is *)
(* mapped.                                                                 *)
LEMMA OpenStepKeeps ==
  ASSUME ReaderInv, OpenStep
  PROVE  ReaderInv' /\ place \in Parsing /\ (place' = "open" => Mapped')
<1>1. CASE ReadHeader
  <2>1. place = "header" /\ place' # "open"
    BY <1>1 DEF ReadHeader, Close
  <2> QED
    BY <1>1, <2>1, StepReadHeader DEF Parsing
<1>2. CASE AllocKvs
  <2>1. place = "kvs" /\ place' # "open"
    BY <1>2 DEF AllocKvs, AllocTable, Abort
  <2> QED
    BY <1>2, <2>1, StepAllocKvs DEF Parsing
<1>3. CASE ParseOneKv
  <2>1. place = "kv" /\ place' # "open"
    BY <1>3 DEF ParseOneKv
  <2> QED
    BY <1>3, <2>1, StepParseOneKv DEF Parsing
<1>4. CASE Malformed
  BY <1>4, StepMalformed DEF Malformed, Parsing
<1>5. CASE ApplyAlignment
  <2>1. place = "kv" /\ place' # "open"
    BY <1>5 DEF ApplyAlignment
  <2> QED
    BY <1>5, <2>1, StepApplyAlignment DEF Parsing
<1>6. CASE AllocTensors
  <2>1. place = "tensors" /\ place' # "open"
    BY <1>6 DEF AllocTensors, AllocTable, Abort
  <2> QED
    BY <1>6, <2>1, StepAllocTensors DEF Parsing
<1>7. CASE ParseOneTensor
  <2>1. place = "tensor" /\ place' # "open"
    BY <1>7 DEF ParseOneTensor
  <2> QED
    BY <1>7, <2>1, StepParseOneTensor DEF Parsing
<1>8. CASE PlaceData
  BY <1>8, StepPlaceData DEF PlaceData, Parsing
<1> QED
  BY <1>1, <1>2, <1>3, <1>4, <1>5, <1>6, <1>7, <1>8 DEF OpenStep

(* gguf_release_mmap() leaves the tables as they are.                      *)
LEMMA ReaderRelease ==
  ASSUME ReaderInv, ReleaseMmap
  PROVE  ReaderInv'
<1>1. /\ place = "open" /\ UNCHANGED <<file, place, cur>>
      /\ g' = [g EXCEPT !.mapped = FALSE, !.bytes = 0]
  BY DEF ReleaseMmap
<1>2. /\ g' \in Structs
      /\ g'.mapped = FALSE /\ g'.bytes = 0 /\ g'.tensors = g.tensors
      /\ g'.kvs = g.kvs /\ g'.nKv = g.nKv /\ g'.nTensors = g.nTensors
      /\ g'.align = g.align /\ g'.data = g.data
  BY <1>1 DEF ReaderInv, Typed, Structs
<1>3. Typed'
  BY <1>1, <1>2 DEF ReaderInv, Typed, Tame
<1>4. Placed'
  BY <1>1, <1>2 DEF ReaderInv, Placed, Parsing
<1>5. Tables'
  BY <1>1, <1>2 DEF ReaderInv, Tables, Inside
<1> QED
  BY <1>3, <1>4, <1>5 DEF ReaderInv

(* Nothing of the reader changes.                                          *)
LEMMA ReaderSame ==
  ASSUME ReaderInv, UNCHANGED ggufVars
  PROVE  ReaderInv' /\ (Mapped => Mapped')
<1>1. UNCHANGED <<file, place, g, cur>>
  BY DEF ggufVars
<1> QED
  BY <1>1 DEF ReaderInv, Typed, Placed, Tables, Mapped, Tame, Inside

(* The reader's part of the properties follows.                            *)
LEMMA ReaderWithin ==
  ASSUME ReaderInv
  PROVE  WithinFile /\ ClosedHoldsNothing /\ cur.at \in 0 .. Word - 1
<1>1. ReadsInside /\ cur.at \in 0 .. Word - 1
  BY DEF ReaderInv, Typed, Tame, ReadsInside
<1>2. ClosedHoldsNothing
  BY DEF ReaderInv, Tables, ClosedHoldsNothing
<1>3. OpenSound
  <2>1. SUFFICES ASSUME place = "open" PROVE OpenSound
    BY DEF OpenSound
  <2>2. DOMAIN g.kvs = 1 .. Len(g.kvs) /\ DOMAIN g.tensors = 1 .. Len(g.tensors)
    <3>1. g.kvs \in Seq(Kvs) /\ g.tensors \in Seq(Tensors)
      BY <2>1 DEF ReaderInv, Tables
    <3> QED
      BY <3>1
  <2> QED
    BY <2>1, <2>2 DEF ReaderInv, Tables, OpenSound, Inside
<1> QED
  BY <1>1, <1>2, <1>3 DEF WithinFile

-----------------------------------------------------------------------------
(* The invariant of the clients.                                           *)

(* What a context has at each stage: a context that failed to start holds  *)
(* an open file or none, the others an open one, or the process aborted.   *)
Context ==
  /\ ctx \in {"none", "opening", "arenas", "binding", "ready", "destroying"}
  /\ arenas \in {0, 2}
  /\ ctx = "none" => arenas = 0 /\ (client = "kittens" => place = "closed")
  /\ ctx # "none" => client = "kittens"
  /\ ctx = "opening" => arenas = 0 /\ place # "closed"
  /\ ctx \in {"arenas", "binding", "ready"} => arenas = 2 /\ place \in {"open", "aborted"}
  /\ ctx = "arenas" => place = "open"
  /\ ctx = "destroying" => place \in {"closed", "open"}
  /\ client = "kittens" /\ place = "open" => Mapped

Weights ==
  [name : {Required[j] : j \in DOMAIN Required} \cup Optional, index : Nat, type : Nat,
   at : Nat, spread : Nat]

(* The shapes of the weights lie in the file, unless they spread so far     *)
(* that their size wraps.                                                  *)
Enclosed(w) == w.spread < Word => w.at + w.spread <= Len(file)

Bound(list) ==
  /\ list \in Seq(Weights)
  /\ \A j \in 1 .. Len(list) : Enclosed(list[j])

WeightsBound ==
  /\ Bound(weights) /\ Bound(cache)
  /\ weights # <<>> => ctx \in {"binding", "ready"}
  /\ cache # <<>> => ctx = "ready"
  /\ Len(weights) <= Len(Required)
  /\ ctx = "ready" => Len(weights) = Len(Required)

(* Only the client that loads by region has a tensor delivered to it.      *)
Delivered ==
  calls.body \in {"shared", "region"} =>
    /\ place = "open" /\ client = "region"
    /\ g.data + g.tensors[calls.tensor].offset + calls.size <= Len(file)
    /\ calls.body = "shared" => g.mapped = TRUE

IInv == ReaderInv /\ Context /\ WeightsBound /\ Delivered

(* The size of a tensor is a word; it is the cells its shape reaches over  *)
(* unless these are more than a word can count.                            *)
LEMMA SizeNumber ==
  ASSUME NEW t \in Tensors
  PROVE  /\ SizeOf(t) \in Nat /\ Spread(t) \in Nat
         /\ Spread(t) < Word => SizeOf(t) = Spread(t)
<1>1. Word \in Nat \ {0}
  BY WordAssumption
<1>2. t.shape \in Seq(Nat)
  BY DEF Tensors
<1>3. ASSUME NEW x \in Nat, NEW y \in Nat PROVE x * y \in Nat
  OBVIOUS
<1>4. ASSUME NEW d \in Nat PROVE Extent(t.shape, d) \in Nat
  BY <1>2 DEF Extent
<1>5. Elements(t.shape) \in Nat
  BY <1>3, <1>4 DEF Elements
<1>6. PICK n \in {0, 1, 2} : n = Per(t.type)
  BY DEF Per, F32, F16
<1>7. PICK e \in Nat : e = Elements(t.shape)
  BY <1>5
<1>8. Spread(t) = e * n /\ e * n \in Nat
  BY <1>6, <1>7 DEF Spread
<1>9. PICK r \in Nat : r = Spread(t)
  BY <1>8
<1>10. r % Word \in Nat /\ (r < Word => r % Word = r)
  BY <1>1
<1> QED
  BY <1>9, <1>10 DEF SizeOf

(* A tensor that fits lies in the file, and the mapping is there.          *)
LEMMA FittingInside ==
  ASSUME ReaderInv, place = "open", NEW j \in 1 .. Len(g.tensors), NEW size \in Nat,
         Fits(g.tensors[j], size)
  PROVE  /\ g.tensors[j] \in Tensors /\ g.data + g.tensors[j].offset \in Nat
         /\ g.data + g.tensors[j].offset + size <= Len(file)
         /\ Mapped
<1>1. /\ g.tensors \in Seq(Tensors) /\ cur.at <= g.data /\ cur.at \in 1 .. Len(file)
      /\ Mapped \/ (g.mapped = FALSE /\ g.bytes = 0)
      /\ g.data \in Nat /\ Len(file) \in Nat
  BY DEF ReaderInv, Typed, Structs, Placed, Tables
<1>2. g.tensors[j] \in Tensors
  BY <1>1
<1>3. PICK o \in Nat : o = g.tensors[j].offset
  BY <1>2 DEF Tensors
<1>4. g.data + o <= g.bytes /\ size <= g.bytes - (g.data + o)
  BY <1>3 DEF Fits, Have
<1>5. PICK d \in Nat : d = g.data /\ d >= 1
  <2>1. cur.at >= 1 /\ cur.at \in Nat
    BY <1>1
  <2> QED
    BY <1>1, <2>1
<1>6. Mapped
  <2>1. ASSUME g.bytes = 0 PROVE FALSE
    <3>1. d + o <= 0
      BY <1>4, <1>5, <2>1
    <3> QED
      BY <1>5, <3>1
  <2> QED
    BY <1>1, <2>1
<1>7. g.bytes = Len(file)
  BY <1>6 DEF Mapped
<1>8. d + o <= Len(file) /\ size <= Len(file) - (d + o)
  BY <1>4, <1>5, <1>7
<1>9. d + o \in Nat /\ d + o + size <= Len(file)
  BY <1>1, <1>8
<1> QED
  BY <1>2, <1>3, <1>5, <1>6, <1>9

(* The entry that is found is one of the table.                            *)
LEMMA FoundInTable ==
  ASSUME NEW S, NEW t \in Seq(S), NEW name
  PROVE  FirstOf(t, name) \in 0 .. Len(t)
<1> DEFINE named == {j \in DOMAIN t : KeyIs(t[j], name)}
<1>1. named \subseteq 1 .. Len(t) /\ named \subseteq Nat
  OBVIOUS
<1>2. FirstOf(t, name) = IF named = {} THEN 0 ELSE Min(named)
  BY DEF FirstOf
<1>3. Len(t) \in Nat
  OBVIOUS
<1> HIDE DEF named
<1>4. CASE named = {}
  BY <1>2, <1>3, <1>4
<1>5. CASE named # {}
  <2>1. Min(named) \in named
    BY <1>1, <1>5, MinFound
  <2>2. Min(named) \in 1 .. Len(t)
    BY <1>1, <2>1
  <2> QED
    BY <1>2, <1>3, <1>5, <2>2
<1> QED
  BY <1>4, <1>5

(* The weight bound to a tensor that can be loaded.                        *)
LEMMA LoadedWeight ==
  ASSUME ReaderInv, place = "open", NEW name, Loadable(name),
         name \in {Required[j] : j \in DOMAIN Required} \cup Optional
  PROVE  /\ Weight(name, FirstOf(g.tensors, name)) \in Weights
         /\ Enclosed(Weight(name, FirstOf(g.tensors, name)))
<1>1. g.tensors \in Seq(Tensors)
  BY DEF ReaderInv, Tables
<1>2. PICK j : j = FirstOf(g.tensors, name)
  OBVIOUS
<1>3. j \in 1 .. Len(g.tensors)
  <2>1. j \in 0 .. Len(g.tensors)
    BY <1>1, <1>2, FoundInTable
  <2>2. j # 0
    BY <1>2 DEF Loadable
  <2> QED
    BY <2>1, <2>2
<1>4. g.tensors[j] \in Tensors
  BY <1>1, <1>3
<1>5. PICK size \in Nat, spread \in Nat :
        /\ size = SizeOf(g.tensors[j]) /\ spread = Spread(g.tensors[j])
        /\ spread < Word => size = spread
  BY <1>4, SizeNumber
<1>6. Fits(g.tensors[j], size)
  BY <1>2, <1>5 DEF Loadable
<1>7. /\ g.data + g.tensors[j].offset \in Nat
      /\ g.data + g.tensors[j].offset + size <= Len(file)
  BY <1>3, <1>6, FittingInside
<1>8. PICK at \in Nat : at = g.data + g.tensors[j].offset
  BY <1>7
<1>9. Weight(name, j) = [name |-> name, index |-> j, type |-> g.tensors[j].type,
                         at |-> at, spread |-> spread]
  BY <1>5, <1>8 DEF Weight
<1>10. g.tensors[j].type \in Nat /\ j \in Nat
  BY <1>3, <1>4 DEF Tensors
<1>11. PICK w : w = Weight(name, j)
  OBVIOUS
<1>12. w \in Weights
  BY <1>9, <1>10, <1>11 DEF Weights
<1>13. Enclosed(w)
  BY <1>5, <1>7, <1>8, <1>9, <1>11 DEF Enclosed
<1> QED
  BY <1>2, <1>11, <1>12, <1>13

(* It is added to the list it is bound in.                                 *)
LEMMA BoundAppended ==
  ASSUME NEW list, Bound(list), NEW w \in Weights, Enclosed(w)
  PROVE  Bound(Append(list, w)) /\ Len(Append(list, w)) = Len(list) + 1
<1>1. /\ list \in Seq(Weights) /\ Len(list) \in Nat
      /\ \A j \in 1 .. Len(list) : Enclosed(list[j])
  BY DEF Bound
<1>2. PICK u \in Seq(Weights) : /\ u = Append(list, w) /\ Len(u) = Len(list) + 1
                                /\ \A j \in 1 .. Len(list) : u[j] = list[j]
                                /\ u[Len(list) + 1] = w
  BY <1>1, Appended
<1>3. ASSUME NEW j \in 1 .. Len(u) PROVE Enclosed(u[j])
  <2>1. j \in 1 .. Len(list) \/ j = Len(list) + 1
    BY <1>1, <1>2
  <2> QED
    BY <1>1, <1>2, <2>1
<1> QED
  BY <1>2, <1>3 DEF Bound

-----------------------------------------------------------------------------
(* The steps of the clients.                                               *)

(* The names to bind can be counted.                                       *)
LEMMA RequiredCounted == Len(Required) \in Nat
  <1>1. PICK S : Required \in Seq(S)
    BY RequiredAssumption
  <1> QED
    BY <1>1

(* Before the binding there is no weight.                                  *)
LEMMA NoneBound ==
  ASSUME WeightsBound, ctx \notin {"binding", "ready"}
  PROVE  weights = <<>> /\ cache = <<>>
BY DEF WeightsBound

(* Nothing is held of no weights.                                          *)
LEMMA NoneHeld ==
  ASSUME weights' = <<>>, cache' = <<>>, ctx' # "ready"
  PROVE  WeightsBound'
<1>1. <<>> \in Seq(Weights) /\ Len(<<>>) = 0 /\ DOMAIN <<>> = {}
  BY EmptyTable
<1>2. Bound(weights)' /\ Bound(cache)'
  BY <1>1 DEF Bound, Weights, Enclosed
<1> QED
  BY <1>1, <1>2, RequiredCounted DEF WeightsBound

(* The same weights of the same file.                                      *)
LEMMA SameHeld ==
  ASSUME WeightsBound, UNCHANGED <<file, weights, cache>>, ctx' = ctx
  PROVE  WeightsBound'
BY DEF WeightsBound, Bound, Weights, Enclosed

(* The context's client has nothing delivered to it.                       *)
LEMMA NotDelivered ==
  ASSUME Context, Delivered, ctx # "none" \/ place # "open", calls' = calls
  PROVE  Delivered'
<1>1. calls.body \notin {"shared", "region"}
  BY DEF Context, Delivered
<1> QED
  BY <1>1 DEF Delivered

(* kittens_create() has the file mapped, or is about to give up.           *)
LEMMA StepCreate ==
  ASSUME IInv, Create
  PROVE  IInv'
<1>1. PICK f \in Files : MmapFile(f)
  BY DEF Create
<1>2. /\ client = "kittens" /\ ctx = "none" /\ arenas' = arenas /\ client' = client
      /\ ctx' = IF place' = "closed" THEN "destroying" ELSE "opening"
      /\ UNCHANGED <<weights, cache, calls>>
  BY DEF Create
<1>3. ReaderInv' /\ place' # "open"
  BY <1>1, ReaderMmap DEF IInv
<1>4. Context'
  BY <1>2, <1>3 DEF IInv, Context
<1>5. WeightsBound'
  BY <1>2, NoneBound, NoneHeld DEF IInv
<1>6. Delivered'
  BY <1>1, <1>2, NotDelivered DEF IInv, MmapFile
<1> QED
  BY <1>3, <1>4, <1>5, <1>6 DEF IInv

(* While it opens the file it has neither arenas nor weights.              *)
LEMMA StepOpening ==
  ASSUME IInv, Opening
  PROVE  IInv'
<1>1. /\ OpenStep
      /\ ctx' = IF ctx = "opening" /\ place' = "closed" THEN "destroying" ELSE ctx
      /\ UNCHANGED <<client, arenas, weights, cache, calls>>
  BY DEF Opening
<1>2. ReaderInv' /\ place \in Parsing /\ (place' = "open" => Mapped')
  BY <1>1, OpenStepKeeps DEF IInv
<1>3. ctx = "opening" \/ (ctx = "none" /\ client # "kittens")
  BY <1>2 DEF IInv, Context, Parsing
<1>4. Context'
  BY <1>1, <1>2, <1>3 DEF IInv, Context
<1>5. WeightsBound'
  <2>1. weights = <<>> /\ cache = <<>> /\ ctx' # "ready"
    BY <1>1, <1>3, NoneBound DEF IInv
  <2> QED
    BY <1>1, <2>1, NoneHeld
<1>6. Delivered'
  BY <1>1, <1>2, NotDelivered DEF IInv, Parsing
<1> QED
  BY <1>2, <1>4, <1>5, <1>6 DEF IInv

(* The arenas are made once the file is open, or the program aborts.       *)
LEMMA StepMakeArenas ==
  ASSUME IInv, MakeArenas
  PROVE  IInv'
<1>1. /\ ctx = "opening" /\ place = "open"
      /\ UNCHANGED <<client, weights, cache, calls>>
  BY DEF MakeArenas
<1>2. CASE ctx' = "arenas" /\ arenas' = 2 /\ UNCHANGED ggufVars
  <2>1. ReaderInv' /\ (Mapped => Mapped') /\ place' = place
    BY <1>2, ReaderSame DEF IInv, ggufVars
  <2>2. Context'
    BY <1>1, <1>2, <2>1 DEF IInv, Context
  <2>3. WeightsBound'
    BY <1>1, <1>2, NoneBound, NoneHeld DEF IInv
  <2>4. Delivered'
    BY <1>1, NotDelivered DEF IInv
  <2> QED
    BY <2>1, <2>2, <2>3, <2>4 DEF IInv
<1>3. CASE Abort /\ UNCHANGED <<ctx, arenas>>
  <2>1. ReaderInv' /\ place' = "aborted"
    BY <1>3, ReaderAbort DEF IInv, Abort
  <2>2. Context'
    BY <1>1, <1>3, <2>1 DEF IInv, Context
  <2>3. WeightsBound'
    BY <1>1, <1>3, NoneBound, NoneHeld DEF IInv
  <2>4. Delivered'
    BY <1>1, NotDelivered DEF IInv
  <2> QED
    BY <2>1, <2>2, <2>3, <2>4 DEF IInv
<1> QED
  BY <1>2, <1>3 DEF MakeArenas

(* The architecture is read, or the context is about to be destroyed.      *)
LEMMA StepLoadArch ==
  ASSUME IInv, LoadArch
  PROVE  IInv'
<1>1. /\ ctx = "arenas" /\ ctx' \in {"destroying", "binding"}
      /\ UNCHANGED <<ggufVars, client, arenas, weights, cache, calls>>
  BY DEF LoadArch
<1>2. ReaderInv' /\ (Mapped => Mapped') /\ place' = place
  BY <1>1, ReaderSame DEF IInv, ggufVars
<1>3. Context'
  BY <1>1, <1>2 DEF IInv, Context
<1>4. WeightsBound'
  BY <1>1, NoneBound, NoneHeld DEF IInv
<1>5. Delivered'
  BY <1>1, NotDelivered DEF IInv
<1> QED
  BY <1>2, <1>3, <1>4, <1>5 DEF IInv

(* The next name's tensor lies in the file that is mapped.                 *)
LEMMA StepBindWeight ==
  ASSUME IInv, BindWeight
  PROVE  IInv'
<1> DEFINE name == Required[Len(weights) + 1]
<1>1. /\ ctx = "binding" /\ place = "open" /\ Len(weights) < Len(Required)
      /\ UNCHANGED <<client, ctx, arenas, cache, calls>>
  BY DEF BindWeight
<1>2. Delivered'
  BY <1>1, NotDelivered DEF IInv
<1>3. CASE Loadable(name) /\ Supported(name)
  <2>1. PICK w : w = Weight(name, FirstOf(g.tensors, name))
    OBVIOUS
  <2>2. weights' = Append(weights, w) /\ UNCHANGED ggufVars
    BY <1>3, <2>1 DEF BindWeight
  <2>3. name \in {Required[j] : j \in DOMAIN Required} \cup Optional
    <3>1. Len(weights) \in Nat
      BY DEF IInv, WeightsBound, Bound
    <3>2. DOMAIN Required = 1 .. Len(Required) /\ Len(Required) \in Nat
      BY RequiredAssumption
    <3> QED
      BY <1>1, <3>1, <3>2
  <2> HIDE DEF name
  <2>4. w \in Weights /\ Enclosed(w)
    BY <1>1, <1>3, <2>1, <2>3, LoadedWeight DEF IInv
  <2>5. ReaderInv' /\ (Mapped => Mapped') /\ place' = place /\ file' = file
    BY <2>2, ReaderSame DEF IInv, ggufVars
  <2>6. Context'
    BY <1>1, <2>5 DEF IInv, Context
  <2>7. WeightsBound'
    <3>1. Bound(Append(weights, w)) /\ Len(Append(weights, w)) = Len(weights) + 1
      BY <2>4, BoundAppended DEF IInv, WeightsBound
    <3>2. Bound(weights)' /\ Len(weights') = Len(weights) + 1
      BY <2>2, <2>5, <3>1 DEF Bound, Weights, Enclosed
    <3>3. Len(weights) \in Nat
      BY DEF IInv, WeightsBound, Bound
    <3>4. Bound(cache)' /\ cache' = cache
      BY <1>1, <2>5 DEF IInv, WeightsBound, Bound, Weights, Enclosed
    <3> QED
      BY <1>1, <3>2, <3>3, <3>4, RequiredCounted DEF IInv, WeightsBound
  <2> QED
    BY <1>2, <2>5, <2>6, <2>7 DEF IInv
<1>4. CASE ~(Loadable(name) /\ Supported(name))
  <2>1. Abort /\ weights' = weights
    BY <1>4 DEF BindWeight
  <2>2. ReaderInv' /\ place' = "aborted" /\ file' = file
    BY <2>1, ReaderAbort DEF IInv, Abort
  <2>3. Context'
    BY <1>1, <2>2 DEF IInv, Context
  <2>4. WeightsBound'
    BY <1>1, <2>1, <2>2, SameHeld DEF IInv
  <2> QED
    BY <1>2, <2>2, <2>3, <2>4 DEF IInv
<1> QED
  BY <1>3, <1>4

(* The context is ready only when every name is bound.                     *)
LEMMA StepCreated ==
  ASSUME IInv, Created
  PROVE  IInv'
<1>1. /\ ctx = "binding" /\ ctx' = "ready" /\ Len(weights) = Len(Required)
      /\ UNCHANGED <<ggufVars, client, arenas, weights, cache, calls>>
  BY DEF Created
<1>2. ReaderInv' /\ (Mapped => Mapped') /\ place' = place /\ file' = file
  BY <1>1, ReaderSame DEF IInv, ggufVars
<1>3. Context'
  BY <1>1, <1>2 DEF IInv, Context
<1>4. WeightsBound'
  BY <1>1, <1>2 DEF IInv, WeightsBound, Bound, Weights, Enclosed
<1>5. Delivered'
  BY <1>1, NotDelivered DEF IInv
<1> QED
  BY <1>2, <1>3, <1>4, <1>5 DEF IInv

(* A name's tensor, too, lies in the file that is mapped.                  *)
LEMMA StepNamed ==
  ASSUME IInv, NEW name \in Optional, Named(name)
  PROVE  IInv'
<1>1. /\ ctx = "ready" /\ place = "open" /\ ~Cached(name) /\ Loadable(name)
      /\ UNCHANGED <<client, ctx, arenas, weights, calls>>
  BY DEF Named
<1>2. Delivered'
  BY <1>1, NotDelivered DEF IInv
<1>3. CASE Supported(name)
  <2>1. PICK w : w = Weight(name, FirstOf(g.tensors, name))
    OBVIOUS
  <2>2. cache' = Append(cache, w) /\ UNCHANGED ggufVars
    BY <1>3, <2>1 DEF Named
  <2>3. w \in Weights /\ Enclosed(w)
    BY <1>1, <2>1, LoadedWeight DEF IInv
  <2>4. ReaderInv' /\ (Mapped => Mapped') /\ place' = place /\ file' = file
    BY <2>2, ReaderSame DEF IInv, ggufVars
  <2>5. Context'
    BY <1>1, <2>4 DEF IInv, Context
  <2>6. Bound(cache)'
    <3>1. Bound(Append(cache, w))
      BY <2>3, BoundAppended DEF IInv, WeightsBound
    <3> QED
      BY <2>2, <2>4, <3>1 DEF Bound, Weights, Enclosed
  <2>7. WeightsBound'
    <3>1. Bound(weights)'
      BY <1>1, <2>4 DEF IInv, WeightsBound, Bound, Weights, Enclosed
    <3> QED
      BY <1>1, <2>6, <3>1 DEF IInv, WeightsBound
  <2> QED
    BY <1>2, <2>4, <2>5, <2>7 DEF IInv
<1>4. CASE ~Supported(name)
  <2>1. Abort /\ cache' = cache
    BY <1>4 DEF Named
  <2>2. ReaderInv' /\ place' = "aborted" /\ file' = file
    BY <2>1, ReaderAbort DEF IInv, Abort
  <2>3. Context'
    BY <1>1, <2>2 DEF IInv, Context
  <2>4. WeightsBound'
    BY <1>1, <2>1, <2>2, SameHeld DEF IInv
  <2> QED
    BY <1>2, <2>2, <2>3, <2>4 DEF IInv
<1> QED
  BY <1>3, <1>4

(* kittens_destroy() gives the file and the arenas back.                   *)
LEMMA StepDestroy ==
  ASSUME IInv, Destroy
  PROVE  IInv'
<1>1. /\ ctx \in {"ready", "destroying"} /\ ctx' = "none" /\ arenas' = 0
      /\ weights' = <<>> /\ cache' = <<>> /\ Close /\ UNCHANGED <<client, calls>>
  BY DEF Destroy
<1>2. ReaderInv' /\ place' = "closed"
  BY <1>1, ReaderClose DEF IInv, Close
<1>3. Context'
  BY <1>1, <1>2 DEF IInv, Context
<1>4. WeightsBound'
  BY <1>1, NoneHeld
<1>5. Delivered'
  BY <1>1, NotDelivered DEF IInv
<1> QED
  BY <1>2, <1>3, <1>4, <1>5 DEF IInv

(* The steps of the client that loads by region: there is no context.      *)
LEMMA StepOpen ==
  ASSUME IInv, Open
  PROVE  IInv'
<1>1. PICK f \in Files : MmapFile(f)
  BY DEF Open
<1>2. /\ client = "region" /\ calls' = NoCall
      /\ UNCHANGED <<client, ctx, arenas, weights, cache>>
  BY DEF Open
<1>3. ReaderInv' /\ place' # "open"
  BY <1>1, ReaderMmap DEF IInv
<1>4. ctx = "none"
  BY <1>2 DEF IInv, Context
<1>5. Context'
  BY <1>2, <1>3, <1>4 DEF IInv, Context
<1>6. WeightsBound'
  BY <1>2, <1>4, NoneBound, NoneHeld DEF IInv
<1>7. Delivered'
  BY <1>2 DEF Delivered, NoCall
<1> QED
  BY <1>3, <1>5, <1>6, <1>7 DEF IInv

(* What is delivered lies in the file, and what fits shows that the        *)
(* mapping is still there.                                                 *)
LEMMA StepLoadTensor ==
  ASSUME IInv, LoadTensor
  PROVE  IInv'
<1>1. /\ client = "region" /\ place = "open"
      /\ UNCHANGED <<ggufVars, client, ctx, arenas, weights, cache>>
  BY DEF LoadTensor
<1>2. PICK j \in DOMAIN g.tensors, body \in {"shared", "region"} : Deliver(j, body)
  BY DEF LoadTensor
<1>3. ReaderInv' /\ (Mapped => Mapped') /\ place' = place /\ file' = file /\ g' = g
  BY <1>1, ReaderSame DEF IInv, ggufVars
<1>4. Context'
  BY <1>1, <1>3 DEF IInv, Context
<1>5. WeightsBound'
  BY <1>1, <1>3, SameHeld DEF IInv
<1>6. Delivered'
  <2>1. g.tensors \in Seq(Tensors) /\ j \in 1 .. Len(g.tensors)
    <3>1. PICK t \in Seq(Tensors) : t = g.tensors
      BY <1>1 DEF IInv, ReaderInv, Tables
    <3> QED
      BY <1>2, <3>1
  <2>2. g.tensors[j] \in Tensors
    BY <2>1
  <2>3. PICK size \in Nat : size = SizeOf(g.tensors[j])
    BY <2>2, SizeNumber
  <2>4. CASE Fits(g.tensors[j], size)
    <3>1. calls' = [tensor |-> j, size |-> size, body |-> body]
      BY <1>2, <2>3, <2>4 DEF Deliver
    <3>2. g.data + g.tensors[j].offset + size <= Len(file) /\ g.mapped = TRUE
      BY <1>1, <2>1, <2>4, FittingInside DEF IInv, Mapped
    <3> QED
      BY <1>1, <1>3, <3>1, <3>2 DEF Delivered
  <2>5. CASE ~Fits(g.tensors[j], size)
    <3>1. calls' = [tensor |-> j, size |-> size, body |-> "skipped"]
      BY <1>2, <2>3, <2>5 DEF Deliver
    <3> QED
      BY <3>1 DEF Delivered
  <2> QED
    BY <2>4, <2>5
<1> QED
  BY <1>3, <1>4, <1>5, <1>6 DEF IInv

(* After a release the tables stay, and nothing is mapped.                 *)
LEMMA StepRelease ==
  ASSUME IInv, Release
  PROVE  IInv'
<1>1. /\ client = "region" /\ ReleaseMmap /\ calls' = NoCall
      /\ UNCHANGED <<client, ctx, arenas, weights, cache>>
  BY DEF Release
<1>2. ReaderInv' /\ place' = place /\ file' = file
  BY <1>1, ReaderRelease DEF IInv, ReleaseMmap
<1>3. Context'
  BY <1>1, <1>2 DEF IInv, Context
<1>4. WeightsBound'
  BY <1>1, <1>2, SameHeld DEF IInv
<1>5. Delivered'
  BY <1>1 DEF Delivered, NoCall
<1> QED
  BY <1>2, <1>3, <1>4, <1>5 DEF IInv

(* After a close the reader has nothing left.                              *)
LEMMA StepCloseFile ==
  ASSUME IInv, CloseFile
  PROVE  IInv'
<1>1. /\ client = "region" /\ Close /\ calls' = NoCall
      /\ UNCHANGED <<client, ctx, arenas, weights, cache>>
  BY DEF CloseFile
<1>2. ReaderInv' /\ place' = "closed"
  BY <1>1, ReaderClose DEF IInv, Close
<1>3. ctx = "none"
  BY <1>1 DEF IInv, Context
<1>4. Context'
  BY <1>1, <1>2, <1>3 DEF IInv, Context
<1>5. WeightsBound'
  BY <1>1, <1>3, NoneBound, NoneHeld DEF IInv
<1>6. Delivered'
  BY <1>1 DEF Delivered, NoCall
<1> QED
  BY <1>2, <1>4, <1>5, <1>6 DEF IInv

-----------------------------------------------------------------------------
(* The invariant and what follows from it.                                 *)

(* Nothing is mapped, read or bound at the start.                          *)
LEMMA InitHolds == Init => IInv
<1> SUFFICES ASSUME Init PROVE IInv
  OBVIOUS
<1>1. /\ file = <<>> /\ place = "closed" /\ g = Zeroed /\ cur = Start
      /\ ctx = "none" /\ arenas = 0 /\ weights = <<>> /\ cache = <<>> /\ calls = NoCall
  BY DEF Init, GgufInit
<1>2. Word \in Nat \ {0} /\ DefaultAlign \in 0 .. Word - 1
  BY WordAssumption
<1>3. <<>> \in Seq(0 .. Word - 1) /\ Len(<<>>) = 0 /\ <<>> \in Seq(Weights)
  BY EmptyTable
<1>4. Tame(cur)
  BY <1>1, <1>2, <1>3 DEF Tame, Start
<1>5. g \in Structs
  BY <1>1, <1>2 DEF Zeroed, Structs
<1>6. Typed
  BY <1>1, <1>2, <1>3, <1>4, <1>5 DEF Typed
<1>7. Placed /\ Tables
  BY <1>1 DEF Placed, Tables, Parsing, Zeroed
<1>8. Context /\ Delivered
  BY <1>1 DEF Context, Delivered, NoCall
<1>9. WeightsBound
  <2>1. Bound(weights) /\ Bound(cache)
    BY <1>1, <1>3 DEF Bound
  <2>2. DOMAIN <<>> = {}
    OBVIOUS
  <2> QED
    BY <1>1, <1>3, <2>1, <2>2, RequiredCounted DEF WeightsBound
<1> QED
  BY <1>6, <1>7, <1>8, <1>9 DEF IInv, ReaderInv

(* One step of the reader or of a client.                                  *)
LEMMA NextKeeps == IInv /\ [Next]_vars => IInv'
<1> SUFFICES ASSUME IInv, [Next]_vars PROVE IInv'
  OBVIOUS
<1>1. CASE \E name \in Optional : Named(name)
  BY <1>1, StepNamed
<1>2. CASE UNCHANGED vars
  <2>1. UNCHANGED <<ggufVars, client, ctx, arenas, weights, cache, calls>>
    BY <1>2 DEF vars, modelVars
  <2>2. /\ ReaderInv' /\ (Mapped => Mapped') /\ UNCHANGED <<file, place, g>>
    BY <2>1, ReaderSame DEF IInv, ggufVars
  <2>3. WeightsBound'
    BY <2>1, <2>2, SameHeld DEF IInv
  <2> QED
    BY <2>1, <2>2, <2>3 DEF IInv, Context, Delivered
<1> QED
  BY <1>1, <1>2, StepCreate, StepOpening, StepMakeArenas, StepLoadArch, StepBindWeight,
     StepCreated, StepDestroy, StepOpen, StepLoadTensor, StepRelease, StepCloseFile DEF Next

(* The inductive invariant: while a file is parsed it is mapped whole and  *)
(* the cursor is in it, whatever lengths the file claims; the tables'      *)
(* entries lie in it; and a context has, at each stage, what it needs.     *)
THEOREM ReaderHolds == Spec => []IInv
<1> QED
  BY InitHolds, NextKeeps, PTL DEF Spec

(* kittens_create() and gguf_open() keep their types at every stage, and a *)
(* context that was created has all its weights.                           *)
THEOREM TypeCorrect == Spec => []TypeOK
<1>1. IInv => TypeOK
  <2> SUFFICES ASSUME IInv PROVE TypeOK
    OBVIOUS
  <2>1. cur.at \in 0 .. Word - 1
    BY ReaderWithin DEF IInv
  <2> QED
    BY <2>1 DEF IInv, ReaderInv, Typed, Parsing, Context, WeightsBound, TypeOK
<1> QED
  BY <1>1, ReaderHolds, PTL

(* gguf_open() reads nothing past the end of any file, and what it gives   *)
(* out lies in the file.                                                   *)
THEOREM ReadsWithin == Spec => []WithinFile
<1>1. IInv => WithinFile
  BY ReaderWithin DEF IInv
<1> QED
  BY <1>1, ReaderHolds, PTL

(* The weights of a context can be read over their whole shape as long as  *)
(* it lives, but those whose size wraps.                                   *)
THEOREM WeightsStay == Spec => []WeightsHeld
<1>1. IInv => WeightsHeld
  <2> SUFFICES ASSUME IInv PROVE WeightsHeld
    OBVIOUS
  <2>1. ASSUME place # "aborted", NEW list \in {weights, cache}, NEW j \in DOMAIN list
        PROVE  /\ list[j].spread < Word => list[j].at + list[j].spread <= g.bytes
               /\ IF list[j].type = F32 THEN g.mapped ELSE arenas = 2
    <3>1. Bound(list) /\ list # <<>>
      BY <2>1 DEF IInv, WeightsBound
    <3>2. list[j].spread < Word => list[j].at + list[j].spread <= Len(file)
      BY <2>1, <3>1 DEF Bound, Enclosed
    <3>3. ctx \in {"binding", "ready"}
      BY <2>1, <3>1 DEF IInv, WeightsBound
    <3>4. arenas = 2 /\ Mapped
      BY <2>1, <3>3 DEF IInv, Context
    <3> QED
      BY <3>2, <3>4 DEF Mapped
  <2> QED
    BY <2>1 DEF WeightsHeld
<1> QED
  BY <1>1, ReaderHolds, PTL

(* Whatever fails, in the reader or in kittens_create(), and               *)
(* kittens_destroy() give everything back.                                 *)
THEOREM AllGivenBack == Spec => []NothingLeft
<1>1. IInv => NothingLeft
  BY ReaderWithin DEF IInv, NothingLeft, Context
<1> QED
  BY <1>1, ReaderHolds, PTL

(* A callback of gguf_load_tensor() is given cells of the file only, and   *)
(* of the mapping only while it is there.                                  *)
THEOREM DeliveriesInside == Spec => []DeliveredInside
<1>1. IInv => DeliveredInside
  BY DEF IInv, Delivered, DeliveredInside
<1> QED
  BY <1>1, ReaderHolds, PTL

=============================================================================
