----------------------------- MODULE PageProofs -----------------------------
(***************************************************************************)
(* Proofs about Page for every integer width, page sizes, client and       *)
(* number of concurrent inserts and deletes.  Ids grow and deletes only    *)
(* move rows towards the front, so what a client has been given stays      *)
(* behind its next offset (Ahead); the page count keeps that offset within *)
(* an int64 (Bounded); and without deletes a row's id is its place (Plain).*)
(***************************************************************************)
EXTENDS Page, TLAPS

Off == Offset(ask)
Size == Limit(ask)
Rows == list[1]
Open == pc \in {"ask", "list"}
Listed == pc = "list" /\ list # None

Typed ==
    /\ table \in Seq(Nat) /\ Len(table) <= MaxInt /\ fresh \in Nat /\ deletes \in Nat
    /\ start \in Seq(Nat)
    /\ walking \in BOOLEAN
    /\ ask \in [no : Int, size : Int]
    /\ pc \in {"ask", "list", "denied", "done"}
    /\ Listed => Rows \in Seq(Nat)
    /\ pc = "list" /\ total # None => total[1] \in 0 .. MaxInt
    /\ seen \in Seq([id : Nat])

\* Ids grow along the table, the select's rows and what the client was given,
\* and a new row gets a larger id than any of them.
Ascending ==
    /\ \A i, j \in DOMAIN table : i < j => table[i] < table[j]
    /\ \A i \in DOMAIN table : table[i] < fresh
    /\ \A i, j \in DOMAIN seen : i < j => seen[i].id < seen[j].id
    /\ \A i \in DOMAIN seen : seen[i].id < fresh
    /\ Listed => /\ \A i, j \in DOMAIN Rows : i < j => Rows[i] < Rows[j]
                 /\ \A i \in DOMAIN Rows : Rows[i] < fresh

\* The rows at and after the next offset are new to the client.
Ahead ==
    /\ Open => \A i \in DOMAIN seen, j \in DOMAIN table : j > Off => seen[i].id < table[j]
    /\ Listed =>
          /\ \A i \in DOMAIN seen, j \in DOMAIN Rows : seen[i].id < Rows[j]
          /\ \A i \in DOMAIN Rows, j \in DOMAIN table : j > Off + Size => Rows[i] < table[j]

\* A walking client's offset is the product of its page and size, unwrapped;
\* any other client gets one answer.
Bounded ==
    /\ Open /\ walking => ask.no >= 1 /\ (ask.no - 1) * Size <= MaxInt
    /\ Open /\ ~ walking => seen = <<>>
    /\ Listed => Len(Rows) <= Size /\ Off >= 0

\* Rows a select finds in a table of n.
Window(n) == IF Off >= n THEN 0 ELSE IF n - Off < Size THEN n - Off ELSE Size

\* As long as no row is deleted: ids are places, the queries agree with the
\* table they met, and everything before the offset has been given out.
Plain ==
    /\ \A i \in DOMAIN start : start[i] = i
    /\ Len(start) < fresh
    /\ deletes = 0 =>
          /\ Len(table) = fresh - 1 /\ \A i \in DOMAIN table : table[i] = i
          /\ Listed => /\ \A i \in DOMAIN Rows : Rows[i] = Off + i
                       /\ \E n \in Len(start) .. fresh - 1 : Len(Rows) = Window(n)
          /\ pc = "list" /\ total # None => total[1] >= Len(start)
          /\ Open /\ walking =>
                \A i \in DOMAIN start : i <= Off => \E j \in DOMAIN seen : seen[j].id = i

IInv == Typed /\ Ascending /\ Ahead /\ Bounded /\ Plain /\ WalkComplete /\ PageExact

-----------------------------------------------------------------------------
(* The operators of pkg/page and of the queries.                           *)

\* The range of an int64 and the page sizes within it.
LEMMA IntRange ==
    /\ MaxInt \in Nat \ {0} /\ 2^(W - 1) = MaxInt + 1
    /\ MaxPageSize \in 1 .. MaxInt /\ DefaultPageSize \in 1 .. MaxPageSize
<1>1. 2^(W - 1) \in Int
  BY WidthAssumption
<1> QED BY <1>1, PageAssumption DEF MaxInt

\* Arithmetic within the range does not wrap; any other wraps to an integer.
LEMMA WrapFacts ==
    ASSUME NEW x \in Int
    PROVE  Wrap(x) \in Int /\ (x \in 0 .. MaxInt => Wrap(x) = x)
<1> DEFINE half == 2^(W - 1)
<1>1. half = MaxInt + 1 /\ half \in Nat /\ half > 0
  BY IntRange
<1>2. Wrap(x) = LET m == x % (2 * half) IN IF m >= half THEN m - 2 * half ELSE m
  BY DEF Wrap
<1> HIDE DEF half
<1>3. PICK c \in Nat : c = 2 * half /\ c > MaxInt /\ c > 0
  BY <1>1, IntRange
<1>4. x % c \in Int /\ (x \in 0 .. MaxInt => x % c = x)
  <2>1. x % c \in Int
    BY <1>3
  <2>2. x \in 0 .. MaxInt => x % c = x
    BY <1>3, IntRange
  <2> QED BY <2>1, <2>2
<1>5. Wrap(x) = IF x % c >= half THEN (x % c) - c ELSE x % c
  BY <1>2, <1>3
<1> QED BY <1>1, <1>4, <1>5, IntRange

\* Limit is a page size New accepts, whatever the client sends.
LEMMA LimitFacts ==
    ASSUME NEW p \in [no : Int, size : Int]
    PROVE  /\ Limit(p) \in 1 .. MaxPageSize /\ Limit(p) \in Nat \ {0}
           /\ Limit(p) = IF p.size <= 0 THEN DefaultPageSize
                         ELSE IF p.size >= MaxPageSize THEN MaxPageSize ELSE p.size
<1>1. Normalize(p).size = CASE p.size <= 0 -> DefaultPageSize
                            [] p.size > MaxPageSize -> MaxPageSize
                            [] OTHER -> p.size
  BY DEF Normalize
<1>2. p.size \in Int /\ MaxPageSize \in Int /\ DefaultPageSize \in Int
  BY IntRange
<1>3. CASE p.size <= 0
  BY <1>1, <1>2, <1>3, IntRange DEF Limit
<1>4. CASE p.size > MaxPageSize
  BY <1>1, <1>2, <1>4, IntRange DEF Limit
<1>5. CASE ~ (p.size <= 0) /\ ~ (p.size > MaxPageSize)
  <2>1. Normalize(p).size = p.size
    BY <1>1, <1>5
  <2> QED BY <2>1, <1>2, <1>5, IntRange DEF Limit
<1> QED BY <1>3, <1>4, <1>5

\* Offset is an integer, and the plain product where that fits an int64.
LEMMA OffsetFacts ==
    ASSUME NEW p \in [no : Int, size : Int]
    PROVE  /\ Offset(p) \in Int
           /\ p.no >= 1 /\ (p.no - 1) * Limit(p) <= MaxInt => Offset(p) = (p.no - 1) * Limit(p)
           /\ p.no < 1 => Offset(p) = 0
<1> DEFINE n == IF p.no < 1 THEN 1 ELSE p.no
<1> DEFINE x == (n - 1) * Limit(p)
<1>1. Offset(p) = Wrap(x)
  BY DEF Offset, Limit, Normalize
<1>2. n \in Nat /\ n >= 1 /\ Limit(p) \in Nat
  BY LimitFacts
<1>3. x \in Nat
  <2> HIDE DEF n
  <2> QED BY <1>2
<1>4. Wrap(x) \in Int /\ (x <= MaxInt => Wrap(x) = x)
  BY <1>3, WrapFacts, IntRange
<1>5. p.no < 1 => x = 0
  BY <1>2
<1>6. p.no >= 1 => x = (p.no - 1) * Limit(p)
  OBVIOUS
<1> HIDE DEF x
<1> QED BY <1>1, <1>3, <1>4, <1>5, <1>6, IntRange

\* The page count of New: there are pages left exactly while rows are left.
LEMMA PageCount ==
    ASSUME NEW t \in Nat, NEW s \in Nat, s > 0, NEW n \in Nat, NEW c,
           c = (t \div s) + (IF t % s # 0 THEN 1 ELSE 0)
    PROVE  c \in Nat /\ (n < c => n * s < t) /\ (~ (n < c) => n * s >= t)
<1> DEFINE q == t \div s
<1> DEFINE r == t % s
<1>1. q \in Nat /\ r \in Nat /\ r < s
  OBVIOUS
<1>2. t = q * s + r
  <2>1. PICK q0 \in Nat, r0 \in Nat : q0 = t \div s /\ r0 = t % s
    BY <1>1
  <2>2. t = q0 * s + r0
    BY <2>1
  <2> QED BY <2>1, <2>2
<1>3. c = q + (IF r # 0 THEN 1 ELSE 0)
  OBVIOUS
<1> HIDE DEF q, r
<1>4. c \in Nat
  BY <1>1, <1>3
<1>5. ASSUME n < c PROVE n * s < t
  <2>1. CASE r = 0
    <3>1. n + 1 <= q
      BY <2>1, <1>1, <1>3, <1>5
    <3>2. PICK d \in Nat : q = n + 1 + d
      <4>1. q - (n + 1) \in Nat /\ q = n + 1 + (q - (n + 1))
        BY <3>1, <1>1
      <4> QED BY <4>1
    <3>3. q * s = n * s + s + d * s /\ d * s >= 0 /\ d * s \in Int /\ n * s \in Int
      BY <3>2
    <3> QED BY <3>3, <2>1, <1>2
  <2>2. CASE r # 0
    <3>1. n <= q
      BY <2>2, <1>1, <1>3, <1>5
    <3>2. PICK d \in Nat : q = n + d
      <4>1. q - n \in Nat /\ q = n + (q - n)
        BY <3>1, <1>1
      <4> QED BY <4>1
    <3>3. q * s = n * s + d * s /\ d * s >= 0 /\ d * s \in Int /\ n * s \in Int
      BY <3>2
    <3> QED BY <3>3, <2>2, <1>1, <1>2
  <2> QED BY <2>1, <2>2
<1>6. ASSUME ~ (n < c) PROVE n * s >= t
  <2>1. PICK d \in Nat : n = c + d
    <3>1. n - c \in Nat /\ n = c + (n - c)
      BY <1>4, <1>6
    <3> QED BY <3>1
  <2>2. n * s = c * s + d * s /\ d * s >= 0 /\ d * s \in Int /\ c * s \in Int
    BY <2>1, <1>4
  <2>3. c * s >= t
    <3>1. CASE r = 0
      BY <3>1, <1>1, <1>2, <1>3
    <3>2. CASE r # 0
      <4>1. c = q + 1
        BY <3>2, <1>3
      <4>2. c * s = q * s + s /\ q * s \in Int
        BY <4>1, <1>1
      <4> QED BY <4>2, <1>1, <1>2
    <3> QED BY <3>1, <3>2
  <2> QED BY <2>2, <2>3
<1> QED BY <1>4, <1>5, <1>6

\* What the select finds behind an offset.
LEMMA SelectFacts ==
    ASSUME NEW q \in Seq(Nat), NEW o \in Nat, NEW s \in Nat, NEW l,
           l = SubSeq(q, o + 1, IF o + s <= Len(q) THEN o + s ELSE Len(q))
    PROVE  /\ l \in Seq(Nat)
           /\ Len(l) = IF o >= Len(q) THEN 0 ELSE IF Len(q) - o < s THEN Len(q) - o ELSE s
           /\ \A i \in 1 .. Len(l) : l[i] = q[o + i] /\ o + i \in 1 .. Len(q) /\ i <= s
<1> DEFINE e == IF o + s <= Len(q) THEN o + s ELSE Len(q)
<1>1. e \in Nat /\ e <= Len(q) /\ Len(q) \in Nat
  OBVIOUS
<1>2. l = SubSeq(q, o + 1, e)
  OBVIOUS
<1>3. CASE o + 1 <= e
  <2>1. PICK n \in Nat : n = e - o /\ n <= s /\ o + n <= Len(q)
    <3>1. e - o \in Nat /\ o + (e - o) = e
      BY <1>1, <1>3
    <3>2. e - o <= s
      BY <1>1
    <3> HIDE DEF e
    <3> QED BY <3>1, <3>2, <1>1
  <2>2. l = [i \in 1 .. n |-> q[o + i]]
    <3> HIDE DEF e
    <3>1. l = [i \in 1 .. e - o |-> q[o + i]]
      BY <1>1, <1>2, <1>3
    <3> QED BY <3>1, <2>1
  <2>3. \A i \in 1 .. n : o + i \in 1 .. Len(q) /\ q[o + i] \in Nat
    BY <2>1, <1>1
  <2>4. l \in Seq(Nat) /\ Len(l) = n
    BY <2>2, <2>3
  <2>5. n = IF o >= Len(q) THEN 0 ELSE IF Len(q) - o < s THEN Len(q) - o ELSE s
    BY <2>1, <1>1, <1>3
  <2>6. \A i \in 1 .. n : l[i] = q[o + i] /\ i <= s
    BY <2>1, <2>2
  <2> HIDE DEF e
  <2> QED BY <2>3, <2>4, <2>5, <2>6
<1>4. CASE ~ (o + 1 <= e)
  <2>1. l = <<>>
    <3> HIDE DEF e
    <3> QED BY <1>1, <1>2, <1>4
  <2>2. o >= Len(q) \/ s = 0
    BY <1>1, <1>4
  <2>3. 0 = IF o >= Len(q) THEN 0 ELSE IF Len(q) - o < s THEN Len(q) - o ELSE s
    BY <2>2, <1>1
  <2> HIDE DEF e
  <2> QED BY <2>1, <2>3
<1> QED BY <1>3, <1>4

\* Elements of a sequence.
LEMMA ElementType ==
    ASSUME NEW S, NEW q \in Seq(S)
    PROVE  DOMAIN q = 1 .. Len(q) /\ Len(q) \in Nat /\ \A i \in DOMAIN q : q[i] \in S
OBVIOUS

\* What the concatenation of two sequences holds.
LEMMA ConcatFacts ==
    ASSUME NEW S, NEW a \in Seq(S), NEW b \in Seq(S)
    PROVE  /\ a \o b \in Seq(S) /\ Len(a \o b) = Len(a) + Len(b)
           /\ \A j \in 1 .. Len(a) : (a \o b)[j] = a[j]
           /\ \A j \in 1 .. Len(b) : (a \o b)[Len(a) + j] = b[j]
OBVIOUS

\* What deleting the i-th row leaves.
LEMMA DeleteFacts ==
    ASSUME NEW q \in Seq(Nat), NEW i \in 1 .. Len(q)
    PROVE  LET r == SubSeq(q, 1, i - 1) \o SubSeq(q, i + 1, Len(q))
           IN  /\ r \in Seq(Nat) /\ Len(r) = Len(q) - 1
               /\ \A j \in 1 .. Len(q) - 1 : r[j] = IF j < i THEN q[j] ELSE q[j + 1]
<1>0. Len(q) \in Nat /\ i \in Int
  OBVIOUS
<1>1. PICK a \in Seq(Nat) : /\ a = SubSeq(q, 1, i - 1) /\ Len(a) = i - 1
                            /\ \A j \in 1 .. i - 1 : a[j] = q[j]
  <2> DEFINE a == SubSeq(q, 1, i - 1)
  <2>1. a \in Seq(Nat) /\ Len(a) = i - 1 /\ \A j \in 1 .. i - 1 : a[j] = q[j]
    OBVIOUS
  <2> QED BY <2>1
<1>2. PICK b \in Seq(Nat) : /\ b = SubSeq(q, i + 1, Len(q)) /\ Len(b) = Len(q) - i
                            /\ \A j \in 1 .. Len(q) - i : b[j] = q[i + j]
  <2> DEFINE b == SubSeq(q, i + 1, Len(q))
  <2>1. b = [j \in 1 .. Len(q) - i |-> q[i + j]]
    <3>1. b = [j \in 1 .. (Len(q) - (i + 1) + 1) |-> q[(i + 1) + j - 1]]
      BY <1>0
    <3>2. Len(q) - (i + 1) + 1 = Len(q) - i /\ \A j \in Int : (i + 1) + j - 1 = i + j
      BY <1>0
    <3> QED BY <3>1, <3>2
  <2>2. PICK n \in Nat : n = Len(q) - i
    <3>1. Len(q) - i \in Nat
      BY <1>0
    <3> QED BY <3>1
  <2>3. \A j \in 1 .. n : q[i + j] \in Nat
    BY <2>2
  <2> HIDE DEF b
  <2>4. b \in Seq(Nat) /\ Len(b) = n /\ \A j \in 1 .. n : b[j] = q[i + j]
    BY <2>1, <2>2, <2>3
  <2> QED BY <2>2, <2>4 DEF b
<1>3. PICK r \in Seq(Nat) : /\ r = a \o b /\ Len(r) = Len(a) + Len(b)
                            /\ \A j \in 1 .. Len(a) : r[j] = a[j]
                            /\ \A j \in 1 .. Len(b) : r[Len(a) + j] = b[j]
  <2>1. /\ a \o b \in Seq(Nat) /\ Len(a \o b) = Len(a) + Len(b)
        /\ \A j \in 1 .. Len(a) : (a \o b)[j] = a[j]
        /\ \A j \in 1 .. Len(b) : (a \o b)[Len(a) + j] = b[j]
    BY ConcatFacts
  <2> QED BY <2>1
<1>4. Len(r) = Len(q) - 1
  <2>1. Len(r) = (i - 1) + (Len(q) - i)
    BY <1>1, <1>2, <1>3
  <2> QED BY <2>1, <1>0
<1>5. ASSUME NEW j \in 1 .. Len(q) - 1
      PROVE  r[j] = IF j < i THEN q[j] ELSE q[j + 1]
  <2>1. CASE j < i
    <3>1. j \in 1 .. i - 1
      BY <2>1
    <3>2. a[j] = q[j] /\ r[j] = a[j]
      BY <3>1, <1>1, <1>3
    <3> QED BY <3>2, <2>1
  <2>2. CASE ~ (j < i)
    <3>1. PICK k \in 1 .. Len(q) - i : k = j - (i - 1)
      BY <2>2
    <3>2. Len(a) + k = j /\ i + k = j + 1 /\ k \in 1 .. Len(b)
      BY <3>1, <1>1, <1>2
    <3>3. r[j] = b[k] /\ b[k] = q[i + k]
      BY <3>1, <3>2, <1>2, <1>3
    <3> QED BY <3>2, <3>3, <2>2
  <2> QED BY <2>1, <2>2
<1>6. r = SubSeq(q, 1, i - 1) \o SubSeq(q, i + 1, Len(q))
  BY <1>1, <1>2, <1>3
<1> QED BY <1>3, <1>4, <1>5, <1>6

\* Map keeps the page count and converts every row.
LEMMA MapFacts ==
    ASSUME NEW l \in Seq(Nat), NEW t \in Nat, NEW s \in Nat, s > 0
    PROVE  \E v \in Seq([id : Nat]) :
               /\ Map(New(l, t, s)) =
                     [total |-> t, list |-> v,
                      pages |-> (t \div s) + (IF t % s # 0 THEN 1 ELSE 0)]
               /\ Len(v) = Len(l)
               /\ \A i \in 1 .. Len(l) : v[i].id = l[i] /\ v[i] = DTO(l[i])
<1> DEFINE c == (t \div s) + (IF t % s # 0 THEN 1 ELSE 0)
<1>1. New(l, t, s) = [total |-> t, list |-> l, pages |-> c]
  BY DEF New
<1> HIDE DEF c
<1>2. DOMAIN l = 1 .. Len(l)
  OBVIOUS
<1> DEFINE v == [i \in 1 .. Len(l) |-> DTO(l[i])]
<1>3. Map(New(l, t, s)) = [total |-> t, list |-> v, pages |-> c]
  <2>1. New(l, t, s).list = l
    BY <1>1
  <2>2. Map(New(l, t, s)) = [New(l, t, s) EXCEPT !.list = v]
    BY <2>1, <1>2 DEF Map
  <2> HIDE DEF v
  <2> QED BY <2>2, <1>1
<1>4. v \in Seq([id : Nat]) /\ Len(v) = Len(l) /\ \A i \in 1 .. Len(l) : v[i] = DTO(l[i])
  <2>1. \A i \in 1 .. Len(l) : DTO(l[i]) \in [id : Nat]
    BY DEF DTO
  <2> QED BY <2>1
<1>5. \A i \in 1 .. Len(l) : DTO(l[i]).id = l[i]
  BY DEF DTO
<1> QED BY <1>3, <1>4, <1>5 DEF c

-----------------------------------------------------------------------------
(* One lemma per step.                                                     *)

\* The current request's offset and limit.
LEMMA AskFacts ==
    ASSUME Typed
    PROVE  Off \in Int /\ Size \in Nat \ {0} /\ Size <= MaxPageSize /\ MaxInt \in Nat
<1>1. ask \in [no : Int, size : Int]
  BY DEF Typed
<1>2. Limit(ask) \in 1 .. MaxPageSize /\ Limit(ask) \in Nat \ {0} /\ Offset(ask) \in Int
  BY <1>1, LimitFacts, OffsetFacts
<1> QED BY <1>2, IntRange DEF Off, Size

\* They only change with the request.
LEMMA AskKept ==
    ASSUME ask' = ask
    PROVE  Off' = Off /\ Size' = Size
BY DEF Off, Size, Offset, Limit, Normalize

\* A walk begins at offset 0 with nothing given out.
LEMMA InitInv == Init => IInv
<1> SUFFICES ASSUME Init PROVE IInv
  OBVIOUS
<1>1. PICK n \in 0 .. MaxInt : table = [i \in 1 .. n |-> i] /\ fresh = n + 1
  BY DEF Init
<1>2. /\ n \in Nat /\ table \in Seq(Nat) /\ Len(table) = n /\ DOMAIN table = 1 .. n
      /\ \A i \in 1 .. n : table[i] = i
  <2>1. n \in Nat
    BY IntRange
  <2> QED BY <2>1, <1>1
<1>3. /\ deletes = 0 /\ start = table /\ walking \in BOOLEAN /\ pc = "ask"
      /\ seen = <<>> /\ ask \in [no : Int, size : Int] /\ (walking => ask.no = 1)
  <2>1. ask \in [no : IF walking THEN {1} ELSE Numbers, size : Sizes]
    BY DEF Init
  <2>2. Numbers \subseteq Int /\ Sizes \subseteq Int
    BY PageAssumption, IntRange
  <2>3. ask \in [no : Int, size : Int] /\ (walking => ask.no = 1)
    <3>1. CASE walking
      <4>1. ask \in [no : {1}, size : Sizes]
        BY <2>1, <3>1, Zenon
      <4>2. ask \in [no : Int, size : Int] /\ ask.no = 1
        <5>1. {1} \subseteq Int
          OBVIOUS
        <5>2. ask \in [no : Int, size : Int]
          BY <4>1, <5>1, <2>2, Zenon
        <5>3. ask.no \in {1}
          BY <4>1
        <5> QED BY <5>2, <5>3
      <4> QED BY <4>2, Zenon
    <3>2. CASE ~ walking
      <4>1. ask \in [no : Numbers, size : Sizes]
        BY <2>1, <3>2, Zenon
      <4> QED BY <4>1, <3>2, <2>2
    <3> QED BY <3>1, <3>2
  <2> QED BY <2>3 DEF Init
<1>4. Typed
  <2>1. seen \in Seq([id : Nat])
    BY <1>3
  <2>2. Len(table) <= MaxInt /\ fresh \in Nat
    BY <1>1, <1>2, IntRange
  <2> QED BY <2>1, <2>2, <1>2, <1>3 DEF Typed, Listed
<1>5. Off \in Int /\ Size \in Nat
  BY <1>4, AskFacts
<1>6. DOMAIN seen = {}
  BY <1>3
<1>7. Ascending
  BY <1>1, <1>2, <1>3, <1>6 DEF Ascending, Listed
<1>8. Ahead
  BY <1>3, <1>6 DEF Ahead, Listed
<1>9. walking => Off = 0 /\ (ask.no - 1) * Size = 0
  <2>1. ASSUME walking PROVE (ask.no - 1) * Size = 0 /\ ask.no >= 1
    BY <2>1, <1>3, <1>5
  <2>2. ASSUME walking PROVE Off = (ask.no - 1) * Size
    BY <2>1, <2>2, <1>3, OffsetFacts, IntRange DEF Off, Size
  <2> QED BY <2>1, <2>2
<1>10. Bounded
  BY <1>3, <1>9, IntRange DEF Bounded, Listed
<1>11. Plain
  BY <1>1, <1>2, <1>3, <1>9 DEF Plain, Listed
<1>12. WalkComplete /\ PageExact
  BY <1>3 DEF WalkComplete, PageExact
<1> QED BY <1>4, <1>7, <1>8, <1>10, <1>11, <1>12 DEF IInv

\* Steps that change neither the table nor what the client was given, and
\* leave the queries' answers alone or forget them.
LEMMA QuietInv ==
    ASSUME IInv, UNCHANGED <<table, fresh, deletes, start, walking, ask, seen>>,
           pc' \in {"ask", "list", "denied"}, Open' => Open,
           Listed' => Listed /\ Rows' = Rows,
           pc' = "list" /\ total' # None =>
               /\ total'[1] \in 0 .. MaxInt
               /\ deletes = 0 => total'[1] >= Len(start)
    PROVE  IInv'
<1>1. Off' = Off /\ Size' = Size
  BY AskKept
<1>2. Typed'
  BY DEF IInv, Typed
<1>3. Ascending'
  BY DEF IInv, Ascending
<1>4. Ahead'
  BY <1>1 DEF IInv, Ahead
<1>5. Bounded'
  BY <1>1 DEF IInv, Bounded
<1>6. Plain'
  BY <1>1 DEF IInv, Plain, Window
<1>7. WalkComplete' /\ PageExact'
  BY DEF WalkComplete, PageExact
<1> QED BY <1>2, <1>3, <1>4, <1>5, <1>6, <1>7 DEF IInv

\* The request reaches the handler.
LEMMA RequestInv == ASSUME IInv, Request PROVE IInv'
<1>1. /\ pc = "ask" /\ pc' = "list" /\ list' = None /\ total' = None
      /\ UNCHANGED <<table, fresh, deletes, start, walking, ask, seen>>
  BY DEF Request
<1>2. Open /\ ~ Listed'
  BY <1>1 DEF Open, Listed
<1> QED BY <1>1, <1>2, QuietInv

\* A guard or a failing query ends the walk.
LEMMA DenyInv == ASSUME IInv, Deny \/ SelectFails PROVE IInv'
<1>1. /\ pc' = "denied" /\ UNCHANGED <<table, fresh, deletes, start, walking, ask, seen>>
  BY DEF Deny, SelectFails
<1>2. ~ Open' /\ ~ Listed'
  BY <1>1 DEF Open, Listed
<1> QED BY <1>1, <1>2, QuietInv

\* The count sees at least the rows that were never deleted.
LEMMA CountInv == ASSUME IInv, Count PROVE IInv'
<1>0. Typed /\ Plain
  BY DEF IInv
<1>1. /\ pc = "list" /\ total' = <<Len(table)>>
      /\ UNCHANGED <<table, fresh, deletes, start, walking, ask, seen, pc, list>>
  BY DEF Count
<1>2. Open /\ (Listed' => Listed /\ Rows' = Rows)
  BY <1>1 DEF Open, Listed, Rows
<1>3. total'[1] = Len(table) /\ Len(table) \in 0 .. MaxInt
  BY <1>0, <1>1, IntRange DEF Typed
<1>4. deletes = 0 => Len(table) >= Len(start)
  BY <1>0 DEF Typed, Plain
<1> QED BY <1>1, <1>2, <1>3, <1>4, QuietInv

\* The select returns rows the client has not been given, in order.
LEMMA SelectInv == ASSUME IInv, Select PROVE IInv'
<1>0. Typed /\ Ascending /\ Ahead /\ Bounded /\ Plain
  BY DEF IInv
<1> DEFINE n == Len(table)
<1>1. /\ Off \in Int /\ Off >= 0 /\ Size \in Nat \ {0} /\ table \in Seq(Nat) /\ n \in Nat
      /\ DOMAIN table = 1 .. n
  BY <1>0, AskFacts DEF Typed, Select, Off
<1>2. /\ pc = "list" /\ list = None
      /\ list' = <<SubSeq(table, Off + 1, IF Off + Size <= Len(table) THEN Off + Size ELSE Len(table))>>
      /\ UNCHANGED <<table, fresh, deletes, start, walking, ask, pc, total, seen>>
  BY DEF Select, Off, Size
<1>3. PICK l : l = SubSeq(table, Off + 1, IF Off + Size <= Len(table) THEN Off + Size ELSE Len(table))
  OBVIOUS
<1>4. list' = <<l>> /\ Rows' = l /\ Off' = Off /\ Size' = Size
  BY <1>2, <1>3, AskKept DEF Rows
<1>5. /\ l \in Seq(Nat) /\ DOMAIN l = 1 .. Len(l) /\ Len(l) \in Nat
      /\ Len(l) = Window(n)
      /\ \A i \in 1 .. Len(l) : l[i] = table[Off + i] /\ Off + i \in 1 .. n /\ i <= Size
  <2>1. Off \in Nat /\ Size \in Nat
    BY <1>1
  <2>2. /\ l \in Seq(Nat)
        /\ Len(l) = IF Off >= n THEN 0 ELSE IF n - Off < Size THEN n - Off ELSE Size
        /\ \A i \in 1 .. Len(l) : l[i] = table[Off + i] /\ Off + i \in 1 .. n /\ i <= Size
    BY <2>1, <1>1, <1>3, SelectFacts
  <2> QED BY <2>2 DEF Window
<1> HIDE DEF n
<1>6. Typed'
  BY <1>0, <1>2, <1>4, <1>5 DEF Typed
<1>7. Ascending'
  <2>1. \A i, j \in 1 .. Len(l) : i < j => l[i] < l[j]
    <3> SUFFICES ASSUME NEW i \in 1 .. Len(l), NEW j \in 1 .. Len(l), i < j PROVE l[i] < l[j]
      OBVIOUS
    <3>1. Off + i \in DOMAIN table /\ Off + j \in DOMAIN table /\ Off + i < Off + j
      BY <1>1, <1>5
    <3>2. table[Off + i] < table[Off + j]
      BY <3>1, <1>0 DEF Ascending
    <3> QED BY <3>2, <1>5
  <2>2. \A i \in 1 .. Len(l) : l[i] < fresh
    BY <1>0, <1>1, <1>5 DEF Ascending
  <2> QED BY <2>1, <2>2, <1>0, <1>2, <1>4, <1>5 DEF Ascending
<1>8. Ahead'
  <2>1. Open
    BY <1>2 DEF Open
  <2>2. \A i \in DOMAIN seen, j \in 1 .. Len(l) : seen[i].id < l[j]
    <3> SUFFICES ASSUME NEW i \in DOMAIN seen, NEW j \in 1 .. Len(l) PROVE seen[i].id < l[j]
      OBVIOUS
    <3>1. Off + j \in DOMAIN table /\ Off + j > Off /\ l[j] = table[Off + j]
      BY <1>1, <1>5
    <3> QED BY <3>1, <2>1, <1>0 DEF Ahead
  <2>3. \A i \in 1 .. Len(l), j \in DOMAIN table : j > Off + Size => l[i] < table[j]
    <3> SUFFICES ASSUME NEW i \in 1 .. Len(l), NEW j \in DOMAIN table, j > Off + Size
                 PROVE  l[i] < table[j]
      OBVIOUS
    <3>1. Off + i \in DOMAIN table /\ Off + i < j /\ l[i] = table[Off + i]
      BY <1>1, <1>5
    <3> QED BY <3>1, <1>0 DEF Ascending
  <2>4. \A i \in DOMAIN seen, j \in DOMAIN table : j > Off => seen[i].id < table[j]
    BY <2>1, <1>0 DEF Ahead
  <2> QED BY <2>2, <2>3, <2>4, <1>2, <1>4, <1>5 DEF Ahead
<1>9. Bounded'
  <2>1. Len(l) <= Size
    BY <1>1, <1>5 DEF Window
  <2> QED BY <2>1, <1>0, <1>1, <1>2, <1>4 DEF Bounded, Open
<1>10. Plain'
  <2>1. /\ \A i \in DOMAIN start : start[i] = i
        /\ Len(start) < fresh /\ fresh \in Nat /\ Len(start) \in Nat
        /\ deletes = 0 => n = fresh - 1 /\ \A i \in DOMAIN table : table[i] = i
    BY <1>0 DEF Plain, Typed, n
  <2>2. deletes = 0 => n \in Len(start) .. fresh - 1 /\ \A i \in 1 .. Len(l) : l[i] = Off + i
    <3>1. deletes = 0 => n \in Len(start) .. fresh - 1
      BY <2>1, <1>1
    <3>2. ASSUME deletes = 0, NEW i \in 1 .. Len(l) PROVE l[i] = Off + i
      <4>1. l[i] = table[Off + i] /\ Off + i \in DOMAIN table
        BY <1>1, <1>5
      <4> QED BY <4>1, <3>2, <2>1
    <3> QED BY <3>1, <3>2
  <2>5. deletes = 0 => \E m \in Len(start) .. fresh - 1 :
            Len(l) = IF Off >= m THEN 0 ELSE IF m - Off < Size THEN m - Off ELSE Size
    BY <2>2, <1>5 DEF Window
  <2>6. deletes = 0 => /\ pc = "list" /\ total # None => total[1] >= Len(start)
                       /\ Open /\ walking => \A i \in DOMAIN start :
                             i <= Off => \E j \in DOMAIN seen : seen[j].id = i
    BY <1>0 DEF Plain
  <2> QED BY <2>1, <2>2, <2>5, <2>6, <1>2, <1>4, <1>5 DEF Plain, Window, Open, n
<1>11. WalkComplete' /\ PageExact'
  BY <1>2 DEF WalkComplete, PageExact
<1> QED BY <1>6, <1>7, <1>8, <1>9, <1>10, <1>11 DEF IInv

\* A row another client inserts comes after all others.
LEMMA InsertInv == ASSUME IInv, Insert PROVE IInv'
<1>0. Typed /\ Ascending /\ Ahead /\ Bounded /\ Plain
  BY DEF IInv
<1>1. /\ pc \in {"ask", "list"} /\ Len(table) < MaxInt /\ table' = Append(table, fresh)
      /\ fresh' = fresh + 1
      /\ UNCHANGED <<deletes, start, walking, ask, pc, list, total, seen>>
  BY DEF Insert
<1> DEFINE n == Len(table)
<1>2. table \in Seq(Nat) /\ fresh \in Nat /\ n \in Nat /\ DOMAIN table = 1 .. n
  BY <1>0 DEF Typed
<1>3. /\ table' \in Seq(Nat) /\ Len(table') = n + 1 /\ DOMAIN table' = 1 .. n + 1
      /\ table'[n + 1] = fresh /\ \A i \in 1 .. n : table'[i] = table[i]
  BY <1>1, <1>2
<1>4. Off' = Off /\ Size' = Size /\ (Listed' <=> Listed) /\ Rows' = Rows /\ (Open' <=> Open)
  BY <1>1, AskKept DEF Listed, Rows, Open
<1>5. /\ \A i \in 1 .. n : table[i] \in Nat /\ table[i] < fresh
      /\ \A i \in DOMAIN seen : seen[i].id \in Nat /\ seen[i].id < fresh
      /\ Listed => \A i \in DOMAIN Rows : Rows[i] \in Nat /\ Rows[i] < fresh
  <2>1. \A i \in 1 .. n : table[i] \in Nat /\ table[i] < fresh
    BY <1>0, <1>2 DEF Ascending
  <2>2. \A i \in DOMAIN seen : seen[i].id \in Nat /\ seen[i].id < fresh
    <3>1. \A i \in DOMAIN seen : seen[i] \in [id : Nat]
      <4>1. seen \in Seq([id : Nat])
        BY <1>0 DEF Typed
      <4> QED BY <4>1, ElementType
    <3>2. \A i \in DOMAIN seen : seen[i].id < fresh
      BY <1>0 DEF Ascending
    <3> QED BY <3>1, <3>2
  <2>3. Listed => \A i \in DOMAIN Rows : Rows[i] \in Nat /\ Rows[i] < fresh
    BY <1>0 DEF Typed, Ascending
  <2> QED BY <2>1, <2>2, <2>3
<1> HIDE DEF n
<1>6. Typed'
  <2>1. Len(table') <= MaxInt
    BY <1>1, <1>2, <1>3, IntRange DEF n
  <2> QED BY <2>1, <1>0, <1>1, <1>2, <1>3, <1>4 DEF Typed
<1>7. Ascending'
  <2>1. \A i, j \in 1 .. n + 1 : i < j => table'[i] < table'[j]
    <3> SUFFICES ASSUME NEW i \in 1 .. n + 1, NEW j \in 1 .. n + 1, i < j
                 PROVE  table'[i] < table'[j]
      OBVIOUS
    <3>1. i \in 1 .. n
      BY <1>2
    <3>2. CASE j = n + 1
      BY <3>1, <3>2, <1>3, <1>5
    <3>3. CASE j # n + 1
      <4>1. j \in 1 .. n
        BY <3>3, <1>2
      <4> QED BY <3>1, <4>1, <1>0, <1>2, <1>3 DEF Ascending
    <3> QED BY <3>2, <3>3
  <2>2. \A i \in 1 .. n + 1 : table'[i] < fresh + 1
    <3> SUFFICES ASSUME NEW i \in 1 .. n + 1 PROVE table'[i] < fresh + 1
      OBVIOUS
    <3>1. CASE i = n + 1
      BY <3>1, <1>2, <1>3
    <3>2. CASE i # n + 1
      <4>1. i \in 1 .. n
        BY <3>2, <1>2
      <4> QED BY <4>1, <1>2, <1>3, <1>5
    <3> QED BY <3>1, <3>2
  <2>3. \A i \in DOMAIN seen : seen[i].id < fresh + 1
    BY <1>2, <1>5
  <2>4. Listed => \A i \in DOMAIN Rows : Rows[i] < fresh + 1
    BY <1>2, <1>5
  <2> QED BY <2>1, <2>2, <2>3, <2>4, <1>0, <1>1, <1>3, <1>4 DEF Ascending
<1>8. Ahead'
  <2>1. Open => \A i \in DOMAIN seen, j \in 1 .. n + 1 : j > Off => seen[i].id < table'[j]
    <3> SUFFICES ASSUME Open, NEW i \in DOMAIN seen, NEW j \in 1 .. n + 1, j > Off
                 PROVE  seen[i].id < table'[j]
      OBVIOUS
    <3>1. CASE j = n + 1
      BY <3>1, <1>3, <1>5
    <3>2. CASE j # n + 1
      <4>1. j \in 1 .. n
        BY <3>2, <1>2
      <4> QED BY <4>1, <1>0, <1>2, <1>3 DEF Ahead
    <3> QED BY <3>1, <3>2
  <2>2. Listed => \A i \in DOMAIN Rows, j \in 1 .. n + 1 : j > Off + Size => Rows[i] < table'[j]
    <3> SUFFICES ASSUME Listed, NEW i \in DOMAIN Rows, NEW j \in 1 .. n + 1, j > Off + Size
                 PROVE  Rows[i] < table'[j]
      OBVIOUS
    <3>1. CASE j = n + 1
      BY <3>1, <1>3, <1>5
    <3>2. CASE j # n + 1
      <4>1. j \in 1 .. n
        BY <3>2, <1>2
      <4> QED BY <4>1, <1>0, <1>2, <1>3 DEF Ahead
    <3> QED BY <3>1, <3>2
  <2> QED BY <2>1, <2>2, <1>0, <1>1, <1>3, <1>4 DEF Ahead
<1>9. Bounded'
  BY <1>0, <1>1, <1>4 DEF Bounded
<1>10. Plain'
  <2>1. Len(start) \in Nat /\ Len(start) < fresh + 1
    BY <1>0, <1>2 DEF Plain, Typed
  <2>2. deletes = 0 => n + 1 = (fresh + 1) - 1 /\ \A i \in 1 .. n + 1 : table'[i] = i
    BY <1>0, <1>2, <1>3 DEF Plain, n
  <2>3. \A m : Window(m)' = Window(m)
    BY <1>4 DEF Window
  <2>4. Len(start) .. fresh - 1 \subseteq Len(start) .. (fresh + 1) - 1
    BY <2>1, <1>2
  <2> QED BY <2>1, <2>2, <2>4, <1>0, <1>1, <1>3, <1>4 DEF Plain, Window
<1>11. WalkComplete' /\ PageExact'
  BY <1>1 DEF WalkComplete, PageExact
<1> QED BY <1>6, <1>7, <1>8, <1>9, <1>10, <1>11 DEF IInv

\* A row another client deletes moves the later ones towards the front.
LEMMA DeleteInv == ASSUME IInv, NEW d \in DOMAIN table, Delete(d) PROVE IInv'
<1>0. Typed /\ Ascending /\ Ahead /\ Bounded /\ Plain
  BY DEF IInv
<1>1. /\ pc \in {"ask", "list"} /\ deletes' = deletes + 1
      /\ table' = SubSeq(table, 1, d - 1) \o SubSeq(table, d + 1, Len(table))
      /\ UNCHANGED <<fresh, start, walking, ask, pc, list, total, seen>>
  BY DEF Delete
<1> DEFINE n == Len(table)
<1>2. /\ table \in Seq(Nat) /\ fresh \in Nat /\ n \in Nat /\ DOMAIN table = 1 .. n
      /\ d \in 1 .. n /\ deletes \in Nat /\ Off \in Int /\ Size \in Nat
  BY <1>0, AskFacts DEF Typed
<1>3. /\ table' \in Seq(Nat) /\ Len(table') = n - 1 /\ DOMAIN table' = 1 .. n - 1
      /\ \A i \in 1 .. n - 1 : table'[i] = IF i < d THEN table[i] ELSE table[i + 1]
  <2>1. /\ table' \in Seq(Nat) /\ Len(table') = n - 1
        /\ \A i \in 1 .. n - 1 : table'[i] = IF i < d THEN table[i] ELSE table[i + 1]
    BY <1>1, <1>2, DeleteFacts
  <2> QED BY <2>1
<1>4. Off' = Off /\ Size' = Size /\ (Listed' <=> Listed) /\ Rows' = Rows /\ (Open' <=> Open)
  BY <1>1, AskKept DEF Listed, Rows, Open
<1>5. \A i \in 1 .. n - 1 : \E k \in 1 .. n : k >= i /\ table'[i] = table[k]
  BY <1>2, <1>3
<1> HIDE DEF n
<1>6. Typed'
  <2>1. Len(table') <= MaxInt /\ deletes' \in Nat
    <3>1. n <= MaxInt
      BY <1>0 DEF Typed, n
    <3>2. Len(table') = n - 1 /\ MaxInt \in Int /\ n \in Nat
      BY <1>2, <1>3, IntRange
    <3>3. deletes' \in Nat
      BY <1>1, <1>2
    <3> QED BY <3>1, <3>2, <3>3
  <2> QED BY <2>1, <1>0, <1>1, <1>3, <1>4 DEF Typed
<1>7. Ascending'
  <2>1. \A i, j \in 1 .. n - 1 : i < j => table'[i] < table'[j]
    <3> SUFFICES ASSUME NEW i \in 1 .. n - 1, NEW j \in 1 .. n - 1, i < j
                 PROVE  table'[i] < table'[j]
      OBVIOUS
    <3>1. PICK a \in 1 .. n, b \in 1 .. n : a < b /\ table'[i] = table[a] /\ table'[j] = table[b]
      <4> DEFINE a == IF i < d THEN i ELSE i + 1
      <4> DEFINE b == IF j < d THEN j ELSE j + 1
      <4>1. a \in 1 .. n /\ b \in 1 .. n /\ a < b
        BY <1>2
      <4>2. table'[i] = table[a] /\ table'[j] = table[b]
        BY <1>3
      <4> HIDE DEF a, b
      <4> QED BY <4>1, <4>2
    <3> QED BY <3>1, <1>0, <1>2 DEF Ascending
  <2>2. \A i \in 1 .. n - 1 : table'[i] < fresh
    BY <1>0, <1>2, <1>5 DEF Ascending
  <2> QED BY <2>1, <2>2, <1>0, <1>1, <1>3, <1>4 DEF Ascending
<1>8. Ahead'
  <2>1. Open => \A i \in DOMAIN seen, j \in 1 .. n - 1 : j > Off => seen[i].id < table'[j]
    <3> SUFFICES ASSUME Open, NEW i \in DOMAIN seen, NEW j \in 1 .. n - 1, j > Off
                 PROVE  seen[i].id < table'[j]
      OBVIOUS
    <3>1. PICK k \in 1 .. n : k > Off /\ table'[j] = table[k]
      BY <1>2, <1>5
    <3> QED BY <3>1, <1>0, <1>2 DEF Ahead
  <2>2. Listed => \A i \in DOMAIN Rows, j \in 1 .. n - 1 : j > Off + Size => Rows[i] < table'[j]
    <3> SUFFICES ASSUME Listed, NEW i \in DOMAIN Rows, NEW j \in 1 .. n - 1, j > Off + Size
                 PROVE  Rows[i] < table'[j]
      OBVIOUS
    <3>1. PICK k \in 1 .. n : k > Off + Size /\ table'[j] = table[k]
      BY <1>2, <1>5
    <3> QED BY <3>1, <1>0, <1>2 DEF Ahead
  <2> QED BY <2>1, <2>2, <1>0, <1>1, <1>3, <1>4 DEF Ahead
<1>9. Bounded'
  BY <1>0, <1>1, <1>4 DEF Bounded
<1>10. Plain'
  <2>1. deletes' # 0
    BY <1>1, <1>2
  <2> QED BY <2>1, <1>0, <1>1 DEF Plain
<1>11. WalkComplete' /\ PageExact'
  BY <1>1 DEF WalkComplete, PageExact
<1> QED BY <1>6, <1>7, <1>8, <1>9, <1>10, <1>11 DEF IInv

\* What an answer adds to what the client was given.
LEMMA RespondEffect ==
    ASSUME IInv, Respond
    PROVE  /\ Listed /\ Rows \in Seq(Nat) /\ total[1] \in 0 .. MaxInt
           /\ pc = "list" /\ total # None
           /\ UNCHANGED <<table, fresh, deletes, start, walking>>
           /\ seen' \in Seq([id : Nat]) /\ Len(seen') = Len(seen) + Len(Rows)
           /\ \A i \in 1 .. Len(seen) : seen'[i] = seen[i]
           /\ \A i \in 1 .. Len(Rows) : /\ seen'[Len(seen) + i].id = Rows[i]
                                        /\ seen'[Len(seen) + i] = DTO(Rows[i])
           /\ \/ /\ walking /\ pc' = "ask" /\ ask' = [no |-> ask.no + 1, size |-> ask.size]
                 /\ ask.no \in Nat => ask.no * Size < total[1]
              \/ /\ pc' = "done" /\ ask' = ask
                 /\ walking /\ ask.no \in Nat => ask.no * Size >= total[1]
<1>0. Typed
  BY DEF IInv
<1>1. /\ pc = "list" /\ list # None /\ total # None
      /\ result' = Map(New(Rows, total[1], Size)) /\ seen' = seen \o result'.list
      /\ IF walking /\ ask.no < result'.pages
         THEN ask' = [ask EXCEPT !.no = @ + 1] /\ pc' = "ask"
         ELSE pc' = "done" /\ UNCHANGED ask
      /\ UNCHANGED <<table, fresh, deletes, start, walking>>
  BY DEF Respond, Rows, Size
<1>2. /\ Listed /\ Rows \in Seq(Nat) /\ total[1] \in 0 .. MaxInt /\ seen \in Seq([id : Nat])
      /\ ask \in [no : Int, size : Int]
  BY <1>0, <1>1 DEF Typed, Listed
<1>3. Size \in Nat /\ Size > 0 /\ total[1] \in Nat /\ MaxInt \in Nat
  BY <1>0, <1>2, AskFacts
<1>4. PICK m : m = result'
  OBVIOUS
<1>5. /\ m.pages = (total[1] \div Size) + (IF total[1] % Size # 0 THEN 1 ELSE 0)
      /\ m.list \in Seq([id : Nat]) /\ Len(m.list) = Len(Rows)
      /\ \A i \in 1 .. Len(Rows) : m.list[i].id = Rows[i] /\ m.list[i] = DTO(Rows[i])
  <2>1. PICK v \in Seq([id : Nat]) :
            /\ Map(New(Rows, total[1], Size)) =
                  [total |-> total[1], list |-> v,
                   pages |-> (total[1] \div Size) + (IF total[1] % Size # 0 THEN 1 ELSE 0)]
            /\ Len(v) = Len(Rows)
            /\ \A i \in 1 .. Len(Rows) : v[i].id = Rows[i] /\ v[i] = DTO(Rows[i])
    BY <1>2, <1>3, MapFacts
  <2>2. m.list = v /\ m.pages = (total[1] \div Size) + (IF total[1] % Size # 0 THEN 1 ELSE 0)
    BY <2>1, <1>1, <1>4
  <2> QED BY <2>1, <2>2
<1>6. /\ seen' \in Seq([id : Nat]) /\ Len(seen') = Len(seen) + Len(Rows)
      /\ \A i \in 1 .. Len(seen) : seen'[i] = seen[i]
      /\ \A i \in 1 .. Len(Rows) : seen'[Len(seen) + i] = m.list[i]
  <2>1. PICK v \in Seq([id : Nat]) : v = m.list /\ Len(v) = Len(Rows)
    BY <1>5
  <2>2. /\ seen \o v \in Seq([id : Nat]) /\ Len(seen \o v) = Len(seen) + Len(v)
        /\ \A i \in 1 .. Len(seen) : (seen \o v)[i] = seen[i]
        /\ \A i \in 1 .. Len(v) : (seen \o v)[Len(seen) + i] = v[i]
    BY <1>2, ConcatFacts
  <2>3. seen' = seen \o v
    BY <1>1, <1>4, <2>1
  <2> QED BY <2>1, <2>2, <2>3
<1>7. ask.no \in Nat => /\ ask.no < m.pages => ask.no * Size < total[1]
                        /\ ~ (ask.no < m.pages) => ask.no * Size >= total[1]
  BY <1>3, <1>5, PageCount
<1>8. CASE walking /\ ask.no < m.pages
  <2>1. ask' = [ask EXCEPT !.no = ask.no + 1] /\ pc' = "ask"
    BY <1>1, <1>4, <1>8
  <2>2. ask' = [no |-> ask.no + 1, size |-> ask.size]
    BY <2>1, <1>2
  <2> QED BY <2>1, <2>2, <1>1, <1>2, <1>5, <1>6, <1>7, <1>8
<1>9. CASE ~ (walking /\ ask.no < m.pages)
  <2>1. ask' = ask /\ pc' = "done"
    BY <1>1, <1>4, <1>9
  <2>2. walking /\ ask.no \in Nat => ask.no * Size >= total[1]
    BY <1>7, <1>9
  <2> QED BY <2>1, <2>2, <1>1, <1>2, <1>5, <1>6
<1> QED BY <1>8, <1>9

\* The client's rows stay in ascending order: the answer's come after the ones
\* before it.
LEMMA RespondAscends ==
    ASSUME IInv, Respond
    PROVE  /\ DOMAIN seen' = 1 .. Len(seen) + Len(Rows) /\ Len(seen) \in Nat /\ Len(Rows) \in Nat
           /\ \A i \in DOMAIN seen' : \/ i \in DOMAIN seen /\ seen'[i].id = seen[i].id
                                      \/ \E k \in DOMAIN Rows : /\ i = Len(seen) + k
                                                                /\ seen'[i].id = Rows[k]
           /\ \A i, j \in DOMAIN seen' : i < j => seen'[i].id < seen'[j].id
           /\ \A i \in DOMAIN seen' : seen'[i].id \in Nat /\ seen'[i].id < fresh
<1>0. Typed /\ Ascending /\ Ahead
  BY DEF IInv
<1>1. /\ Listed /\ Rows \in Seq(Nat) /\ seen \in Seq([id : Nat])
      /\ seen' \in Seq([id : Nat]) /\ Len(seen') = Len(seen) + Len(Rows)
      /\ \A i \in 1 .. Len(seen) : seen'[i] = seen[i]
      /\ \A i \in 1 .. Len(Rows) : seen'[Len(seen) + i].id = Rows[i]
  BY <1>0, RespondEffect DEF Typed
<1>2. /\ DOMAIN seen = 1 .. Len(seen) /\ Len(seen) \in Nat
      /\ DOMAIN Rows = 1 .. Len(Rows) /\ Len(Rows) \in Nat
      /\ DOMAIN seen' = 1 .. Len(seen) + Len(Rows)
  BY <1>1
<1>3. \A i \in DOMAIN seen' : seen'[i].id \in Nat
  <2>1. \A i \in DOMAIN seen' : seen'[i] \in [id : Nat]
    BY <1>1, ElementType
  <2> QED BY <2>1
<1>4. ASSUME NEW i \in DOMAIN seen'
      PROVE  \/ i \in DOMAIN seen /\ seen'[i].id = seen[i].id
             \/ \E k \in DOMAIN Rows : i = Len(seen) + k /\ seen'[i].id = Rows[k]
  <2>1. CASE i <= Len(seen)
    <3>1. i \in 1 .. Len(seen)
      BY <1>2, <2>1
    <3> QED BY <3>1, <1>1, <1>2
  <2>2. CASE ~ (i <= Len(seen))
    <3>1. i - Len(seen) \in 1 .. Len(Rows) /\ i = Len(seen) + (i - Len(seen))
      BY <1>2, <2>2
    <3>2. PICK k \in 1 .. Len(Rows) : i = Len(seen) + k
      BY <3>1
    <3> QED BY <3>2, <1>1, <1>2
  <2> QED BY <2>1, <2>2
<1>5. /\ \A i, j \in DOMAIN seen : i < j => seen[i].id < seen[j].id
      /\ \A i \in DOMAIN seen : seen[i].id < fresh
      /\ \A i, j \in DOMAIN Rows : i < j => Rows[i] < Rows[j]
      /\ \A i \in DOMAIN Rows : Rows[i] < fresh
      /\ \A i \in DOMAIN seen, j \in DOMAIN Rows : seen[i].id < Rows[j]
  BY <1>0, <1>1 DEF Ascending, Ahead
<1>6. ASSUME NEW i \in DOMAIN seen', NEW j \in DOMAIN seen', i < j
      PROVE  seen'[i].id < seen'[j].id
  <2>1. CASE j \in DOMAIN seen /\ seen'[j].id = seen[j].id
    <3>1. i \in DOMAIN seen /\ seen'[i].id = seen[i].id
      <4>1. i \in 1 .. Len(seen)
        BY <1>2, <1>6, <2>1
      <4> QED BY <4>1, <1>1, <1>2
    <3> QED BY <3>1, <2>1, <1>5, <1>6
  <2>2. ASSUME NEW b \in DOMAIN Rows, j = Len(seen) + b, seen'[j].id = Rows[b]
        PROVE  seen'[i].id < seen'[j].id
    <3>1. CASE i \in DOMAIN seen /\ seen'[i].id = seen[i].id
      BY <3>1, <2>2, <1>5
    <3>2. ASSUME NEW a \in DOMAIN Rows, i = Len(seen) + a, seen'[i].id = Rows[a]
          PROVE  seen'[i].id < seen'[j].id
      <4>1. a < b
        BY <1>2, <1>6, <2>2, <3>2
      <4> QED BY <4>1, <2>2, <3>2, <1>5
    <3> QED BY <3>1, <3>2, <1>4
  <2> QED BY <2>1, <2>2, <1>4
<1>7. ASSUME NEW i \in DOMAIN seen' PROVE seen'[i].id < fresh
  BY <1>4, <1>5, <1>7
<1> QED BY <1>2, <1>3, <1>4, <1>6, <1>7

\* Without deletes, a walking client has now been given everything up to the
\* end of this page.
LEMMA RespondCovers ==
    ASSUME IInv, Respond, walking, deletes = 0, NEW i \in DOMAIN start, i <= Off + Size
    PROVE  \E j \in DOMAIN seen' : seen'[j].id = i
<1>0. Typed /\ Plain
  BY DEF IInv
<1>1. /\ Listed /\ Rows \in Seq(Nat) /\ seen \in Seq([id : Nat]) /\ start \in Seq(Nat)
      /\ Len(seen') = Len(seen) + Len(Rows) /\ Open
      /\ \A k \in 1 .. Len(seen) : seen'[k] = seen[k]
      /\ \A k \in 1 .. Len(Rows) : seen'[Len(seen) + k].id = Rows[k]
  BY <1>0, RespondEffect DEF Typed, Open
<1>2. /\ DOMAIN seen = 1 .. Len(seen) /\ Len(seen) \in Nat /\ Len(Rows) \in Nat
      /\ DOMAIN Rows = 1 .. Len(Rows)
      /\ DOMAIN seen' = 1 .. Len(seen) + Len(Rows) /\ i \in 1 .. Len(start) /\ Len(start) \in Nat
      /\ Off \in Int /\ Size \in Nat /\ fresh \in Nat
  BY <1>0, <1>1, RespondAscends, AskFacts DEF Typed
<1>3. CASE i <= Off
  <2>1. PICK j \in DOMAIN seen : seen[j].id = i
    BY <1>0, <1>1, <1>3 DEF Plain
  <2> QED BY <2>1, <1>1, <1>2
<1>4. CASE ~ (i <= Off)
  <2>1. PICK n \in Len(start) .. fresh - 1 : Len(Rows) = Window(n)
    BY <1>0, <1>1 DEF Plain
  <2>2. i - Off \in 1 .. Len(Rows) /\ Off + (i - Off) = i
    BY <2>1, <1>2, <1>4 DEF Window
  <2>3. PICK k \in 1 .. Len(Rows) : Off + k = i
    BY <2>2
  <2>4. Rows[k] = i
    BY <2>3, <1>0, <1>1, <1>2 DEF Plain
  <2>5. Len(seen) + k \in DOMAIN seen' /\ seen'[Len(seen) + k].id = i
    BY <2>3, <2>4, <1>1, <1>2
  <2> QED BY <2>5
<1> QED BY <1>3, <1>4

\* An answer with pages left moves the offset to the end of the page.
LEMMA RespondMore == ASSUME IInv, Respond, pc' = "ask" PROVE IInv'
<1>0. Typed /\ Ascending /\ Ahead /\ Bounded /\ Plain
  BY DEF IInv
<1>1. /\ Listed /\ Rows \in Seq(Nat) /\ total[1] \in 0 .. MaxInt /\ Open
      /\ UNCHANGED <<table, fresh, deletes, start, walking>>
      /\ seen' \in Seq([id : Nat]) /\ walking
      /\ ask' = [no |-> ask.no + 1, size |-> ask.size]
      /\ ask.no \in Nat => ask.no * Size < total[1]
  BY RespondEffect DEF Open
<1>2. /\ Off \in Int /\ Size \in Nat \ {0} /\ MaxInt \in Nat
      /\ ask \in [no : Int, size : Int] /\ ask.no \in Nat
      /\ ask.no >= 1 /\ (ask.no - 1) * Size <= MaxInt
  <2>1. ask.no >= 1 /\ (ask.no - 1) * Size <= MaxInt /\ ask \in [no : Int, size : Int]
    BY <1>0, <1>1 DEF Bounded, Typed
  <2> QED BY <2>1, <1>0, AskFacts
<1>3. /\ ask' \in [no : Int, size : Int] /\ Size' = Size /\ ask'.no = ask.no + 1
      /\ ask'.no >= 1 /\ (ask'.no - 1) * Size <= MaxInt
  <2>1. ask' \in [no : Int, size : Int] /\ ask'.no = ask.no + 1 /\ ask'.size = ask.size
    BY <1>1, <1>2
  <2>2. Size' = Size
    BY <2>1 DEF Size, Limit, Normalize
  <2>3. ask'.no - 1 = ask.no /\ ask'.no >= 1
    BY <2>1, <1>2
  <2>4. ask.no * Size \in Int /\ ask.no * Size <= MaxInt
    BY <1>1, <1>2
  <2> QED BY <2>1, <2>2, <2>3, <2>4
<1>4. Off' = Off + Size
  <2>1. Off = (ask.no - 1) * Size
    BY <1>2, OffsetFacts DEF Off, Size
  <2>2. Off' = (ask'.no - 1) * Size
    <3>1. Limit(ask') = Size
      BY <1>3 DEF Size
    <3>2. Offset(ask') = (ask'.no - 1) * Limit(ask')
      BY <3>1, <1>3, OffsetFacts
    <3> QED BY <3>1, <3>2 DEF Off
  <2>3. ask'.no - 1 = ask.no
    BY <1>2, <1>3
  <2>4. ask.no * Size = (ask.no - 1) * Size + Size
    BY <1>2
  <2> QED BY <2>1, <2>2, <2>3, <2>4
<1>5. ~ Listed' /\ Open' /\ pc' # "list" /\ pc' # "done"
  BY DEF Listed, Open
<1>6. Typed'
  BY <1>0, <1>1, <1>3, <1>5 DEF Typed
<1>7. Ascending'
  BY <1>0, <1>1, <1>5, RespondAscends DEF Ascending
<1>8. Ahead'
  <2>1. ASSUME NEW i \in DOMAIN seen', NEW j \in DOMAIN table, j > Off + Size
        PROVE  seen'[i].id < table[j]
    <3>1. j > Off
      <4>1. j \in Int
        BY <1>0 DEF Typed
      <4> QED BY <4>1, <2>1, <1>2
    <3>2. CASE i \in DOMAIN seen /\ seen'[i].id = seen[i].id
      BY <3>1, <3>2, <1>0, <1>1 DEF Ahead
    <3>3. ASSUME NEW k \in DOMAIN Rows, seen'[i].id = Rows[k] PROVE seen'[i].id < table[j]
      BY <2>1, <3>3, <1>0, <1>1 DEF Ahead
    <3> QED BY <3>2, <3>3, RespondAscends
  <2> QED BY <2>1, <1>1, <1>4, <1>5 DEF Ahead
<1>9. Bounded'
  BY <1>1, <1>3, <1>5 DEF Bounded
<1>10. Plain'
  <2>1. deletes = 0 => \A i \in DOMAIN start : i <= Off + Size =>
            \E j \in DOMAIN seen' : seen'[j].id = i
    BY <1>1, RespondCovers
  <2> QED BY <2>1, <1>0, <1>1, <1>4, <1>5 DEF Plain
<1>11. WalkComplete' /\ PageExact'
  BY <1>5 DEF WalkComplete, PageExact
<1> QED BY <1>6, <1>7, <1>8, <1>9, <1>10, <1>11 DEF IInv

\* The last answer of a walk completes it.
LEMMA RespondCompletes == ASSUME IInv, Respond, pc' = "done" PROVE WalkComplete'
<1> SUFFICES ASSUME walking, deletes = 0, NEW i \in DOMAIN start
             PROVE  \E j \in DOMAIN seen' : seen'[j] = DTO(start[i])
  BY RespondEffect DEF WalkComplete
<1>0. Typed /\ Bounded /\ Plain
  BY DEF IInv
<1>1. /\ total[1] \in 0 .. MaxInt /\ Open /\ pc = "list" /\ total # None
      /\ seen' \in Seq([id : Nat])
      /\ ask.no \in Nat => ask.no * Size >= total[1]
  BY RespondEffect DEF Open
<1>2. /\ Off \in Int /\ Size \in Nat \ {0} /\ MaxInt \in Nat
      /\ ask \in [no : Int, size : Int] /\ ask.no \in Nat
      /\ ask.no >= 1 /\ (ask.no - 1) * Size <= MaxInt
  <2>1. ask.no >= 1 /\ (ask.no - 1) * Size <= MaxInt /\ ask \in [no : Int, size : Int]
    BY <1>0, <1>1 DEF Bounded, Typed
  <2> QED BY <2>1, <1>0, AskFacts
<1>3. Off + Size >= total[1]
  <2>1. Off = (ask.no - 1) * Size
    BY <1>2, OffsetFacts DEF Off, Size
  <2>2. ask.no * Size = (ask.no - 1) * Size + Size
    BY <1>2
  <2> QED BY <2>1, <2>2, <1>1, <1>2
<1>4. total[1] >= Len(start) /\ start[i] = i /\ i \in 1 .. Len(start) /\ Len(start) \in Nat
  BY <1>0, <1>1 DEF Plain, Typed
<1>5. i <= Off + Size
  BY <1>1, <1>2, <1>3, <1>4
<1>6. PICK j \in DOMAIN seen' : seen'[j].id = i
  BY <1>5, RespondCovers
<1>7. seen'[j] \in [id : Nat]
  BY <1>1, ElementType
<1> QED BY <1>4, <1>6, <1>7 DEF DTO

\* The one answer of any other client is the page it asked for.
LEMMA RespondExact == ASSUME IInv, Respond, pc' = "done" PROVE PageExact'
<1> SUFFICES ASSUME ~ walking PROVE PageExact'
  BY RespondEffect DEF PageExact
<1>0. Typed /\ Bounded /\ Plain
  BY DEF IInv
<1>1. /\ Listed /\ Open /\ Rows \in Seq(Nat)
      /\ UNCHANGED <<table, fresh, deletes, start, walking, ask>>
      /\ seen' \in Seq([id : Nat]) /\ Len(seen') = Len(seen) + Len(Rows)
      /\ \A i \in 1 .. Len(Rows) : seen'[Len(seen) + i] = DTO(Rows[i])
  BY RespondEffect DEF Open
<1>2. /\ ask \in [no : Int, size : Int] /\ Off \in Int /\ Size \in Nat \ {0}
      /\ Size <= MaxPageSize /\ MaxInt \in Nat /\ Len(Rows) \in Nat
      /\ Len(table) \in Nat /\ fresh \in Nat /\ Len(start) \in Nat
  BY <1>0, <1>1, AskFacts DEF Typed
<1>3. /\ seen = <<>> /\ Len(seen') = Len(Rows) /\ Len(Rows) <= Size
      /\ \A i \in 1 .. Len(Rows) : seen'[i] = DTO(Rows[i])
  <2>1. seen = <<>> /\ Len(Rows) <= Size
    BY <1>0, <1>1 DEF Bounded
  <2>2. Len(seen) = 0 /\ \A i \in 1 .. Len(Rows) : Len(seen) + i = i
    BY <2>1
  <2> QED BY <2>1, <2>2, <1>1, <1>2
<1> DEFINE size == CASE ask.size <= 0 -> DefaultPageSize
                     [] ask.size >= MaxPageSize -> MaxPageSize
                     [] OTHER -> ask.size
           first == IF ask.no <= 1 THEN 0 ELSE (ask.no - 1) * size
<1>4. size = Size
  <2>1. Size = IF ask.size <= 0 THEN DefaultPageSize
               ELSE IF ask.size >= MaxPageSize THEN MaxPageSize ELSE ask.size
    BY <1>2, LimitFacts DEF Size
  <2>2. MaxPageSize \in Int /\ MaxPageSize >= 1 /\ ask.size \in Int
    BY <1>2, IntRange
  <2>3. CASE ask.size <= 0
    BY <2>1, <2>2, <2>3
  <2>4. CASE ask.size >= MaxPageSize
    BY <2>1, <2>2, <2>4
  <2>5. CASE ~ (ask.size <= 0) /\ ~ (ask.size >= MaxPageSize)
    BY <2>1, <2>5
  <2> QED BY <2>3, <2>4, <2>5
<1>5. first \in Nat /\ (first <= MaxInt => Off = first)
  <2> HIDE DEF size
  <2>0. ask.no \in Int
    BY <1>2
  <2>1. CASE ask.no < 1
    <3>1. Off = 0
      BY <2>1, <1>2, OffsetFacts DEF Off
    <3> QED BY <3>1, <2>0, <2>1
  <2>2. CASE ask.no = 1
    <3>1. (ask.no - 1) * Size = 0
      BY <2>2, <1>2
    <3>2. Off = (ask.no - 1) * Size
      BY <3>1, <2>2, <1>2, OffsetFacts DEF Off, Size
    <3> QED BY <3>1, <3>2, <2>2
  <2>3. CASE ask.no > 1
    <3>1. first = (ask.no - 1) * Size /\ ask.no >= 1
      BY <2>0, <2>3, <1>4
    <3>2. (ask.no - 1) * Size \in Nat
      BY <2>0, <2>3, <1>2
    <3>3. (ask.no - 1) * Size <= MaxInt => Off = (ask.no - 1) * Size
      BY <3>1, <1>2, OffsetFacts DEF Off, Size
    <3> QED BY <3>1, <3>2, <3>3
  <2> QED BY <2>0, <2>1, <2>2, <2>3
<1> HIDE DEF first, size
<1>6. Len(seen') <= MaxPageSize
  BY <1>2, <1>3, IntRange
<1>7. ASSUME fresh = Len(start) + 1, deletes = 0, first <= MaxInt
      PROVE  /\ seen' = [i \in 1 .. Len(seen') |-> DTO(first + i)]
             /\ Len(seen') = IF first >= Len(table) THEN 0
                             ELSE IF Len(table) - first < size THEN Len(table) - first
                             ELSE size
  <2>1. Off = first
    BY <1>5, <1>7
  <2>2. Len(table) = Len(start) /\ \A i \in DOMAIN Rows : Rows[i] = Off + i
    BY <1>0, <1>1, <1>2, <1>7 DEF Plain
  <2>3. PICK n \in Len(start) .. fresh - 1 : Len(Rows) = Window(n)
    BY <1>0, <1>1, <1>7 DEF Plain
  <2>4. n = Len(table)
    BY <2>2, <2>3, <1>2, <1>7
  <2>5. Len(seen') = IF first >= Len(table) THEN 0
                     ELSE IF Len(table) - first < size THEN Len(table) - first ELSE size
    BY <2>1, <2>3, <2>4, <1>3, <1>4 DEF Window
  <2>6. \A i \in 1 .. Len(seen') : seen'[i] = DTO(first + i)
    BY <2>1, <2>2, <1>1, <1>3
  <2>7. DOMAIN seen' = 1 .. Len(seen') /\ seen' = [i \in DOMAIN seen' |-> seen'[i]]
    BY <1>1
  <2> QED BY <2>5, <2>6, <2>7
<1> QED BY <1>1, <1>6, <1>7 DEF PageExact, first, size

\* An answer of the handler.
LEMMA RespondInv == ASSUME IInv, Respond PROVE IInv'
<1>1. CASE pc' = "ask"
  BY <1>1, RespondMore
<1>2. CASE pc' = "done"
  <2>0. Typed /\ Ascending /\ Plain
    BY DEF IInv
  <2>1. /\ UNCHANGED <<table, fresh, deletes, start, walking, ask>>
        /\ seen' \in Seq([id : Nat])
    BY <1>2, RespondEffect
  <2>2. ~ Listed' /\ ~ Open' /\ pc' # "list"
    BY <1>2 DEF Listed, Open
  <2>3. Typed'
    BY <1>2, <2>0, <2>1, <2>2 DEF Typed
  <2>4. Ascending'
    BY <2>0, <2>1, <2>2, RespondAscends DEF Ascending
  <2>5. Ahead' /\ Bounded'
    BY <2>2 DEF Ahead, Bounded
  <2>6. Plain'
    BY <2>0, <2>1, <2>2 DEF Plain
  <2>7. WalkComplete' /\ PageExact'
    BY <1>2, RespondCompletes, RespondExact
  <2> QED BY <2>3, <2>4, <2>5, <2>6, <2>7 DEF IInv
<1> QED BY <1>1, <1>2, RespondEffect

-----------------------------------------------------------------------------

\* The invariant of the walk, for every width, page sizes, client and number
\* of rows inserted and deleted meanwhile.
THEOREM Invariance == Spec => []IInv
<1>1. IInv /\ [Next]_vars => IInv'
  <2> SUFFICES ASSUME IInv, [Next]_vars PROVE IInv'
    OBVIOUS
  <2>1. CASE Request
    BY <2>1, RequestInv
  <2>2. CASE Deny \/ SelectFails
    BY <2>2, DenyInv
  <2>3. CASE Select
    BY <2>3, SelectInv
  <2>4. CASE Count
    BY <2>4, CountInv
  <2>5. CASE Respond
    BY <2>5, RespondInv
  <2>6. CASE Insert
    BY <2>6, InsertInv
  <2>7. ASSUME NEW i \in DOMAIN table, Delete(i) PROVE IInv'
    BY <2>7, DeleteInv
  <2>8. CASE UNCHANGED vars
    <3>1. UNCHANGED <<table, fresh, deletes, start, walking, ask, pc, list, total, seen>>
      BY <2>8 DEF vars
    <3>2. Off' = Off /\ Size' = Size /\ (Listed' <=> Listed) /\ Rows' = Rows /\ (Open' <=> Open)
      BY <3>1, AskKept DEF Listed, Rows, Open
    <3>3. Typed' /\ Ascending' /\ Ahead' /\ Bounded'
      BY <3>1, <3>2 DEF IInv, Typed, Ascending, Ahead, Bounded
    <3>4. Plain'
      BY <3>1, <3>2 DEF IInv, Plain, Window
    <3>5. WalkComplete' /\ PageExact'
      BY <3>1 DEF IInv, WalkComplete, PageExact
    <3> QED BY <3>3, <3>4, <3>5 DEF IInv
  <2> QED BY <2>1, <2>2, <2>3, <2>4, <2>5, <2>6, <2>7, <2>8 DEF Next
<1> QED BY <1>1, InitInv, PTL DEF Spec

\* NoRowTwice for every walk: rows inserted or deleted between the requests
\* of a client, or between the two queries of one, never make Offset and
\* Limit return a row again.
THEOREM NoneTwice == Spec => []NoRowTwice
<1>1. IInv => NoRowTwice
  <2> SUFFICES ASSUME IInv, NEW i \in DOMAIN seen, NEW j \in DOMAIN seen, seen[i] = seen[j]
               PROVE  i = j
    BY DEF NoRowTwice
  <2>1. seen \in Seq([id : Nat]) /\ \A a, b \in DOMAIN seen : a < b => seen[a].id < seen[b].id
    BY DEF IInv, Typed, Ascending
  <2>2. i \in Nat /\ j \in Nat /\ seen[i].id \in Nat /\ seen[i].id = seen[j].id
    <3>1. DOMAIN seen = 1 .. Len(seen) /\ Len(seen) \in Nat /\ seen[i] \in [id : Nat]
      BY <2>1, ElementType
    <3> QED BY <3>1
  <2>3. ~ (i < j)
    BY <2>1, <2>2
  <2>4. ~ (j < i)
    BY <2>1, <2>2
  <2> QED BY <2>2, <2>3, <2>4
<1> QED BY <1>1, Invariance, PTL

\* WalkComplete for every walk: New counts enough pages, and Offset and Limit
\* place them, for every row of the beginning to be returned, up to tables an
\* int64 can just count.
THEOREM WalksComplete == Spec => []WalkComplete
<1>1. IInv => WalkComplete
  BY DEF IInv
<1> QED BY <1>1, Invariance, PTL

\* PageExact for every page number and size a client may send: Normalize,
\* Offset and Limit select the page that was asked for.
THEOREM PagesExact == Spec => []PageExact
<1>1. IInv => PageExact
  BY DEF IInv
<1> QED BY <1>1, Invariance, PTL

=============================================================================
