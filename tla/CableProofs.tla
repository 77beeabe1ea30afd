---------------------------- MODULE CableProofs ----------------------------
(***************************************************************************)
(* Proofs about Geography and CableGraph: the lines that are drawn lead    *)
(* from end to end; the search, on every graph whose edges join its nodes, *)
(* finds the shortest way although it stops at its goal; the ways over a   *)
(* graph are made of its own lines and places; and whatever the cable data *)
(* is, one connected network is made of it.                                *)
(***************************************************************************)
EXTENDS CableGraph, BasicTheorems, SequenceTheorems, TLAPS

----------------------------------------------------------------------------
(***************************************************************************)
(* The globe: longitudes that are whole turns apart are one.               *)
(***************************************************************************)

Turns == {2 * Half * k : k \in Int}
Same(a, b) == b[1] - a[1] \in Turns /\ b[2] = a[2]

LEMMA TurnsAdd ==
  /\ Turns \subseteq Int /\ 0 \in Turns /\ 2 * Half \in Turns /\ -(2 * Half) \in Turns
  /\ \A t \in Turns, u \in Turns : t + u \in Turns /\ t - u \in Turns /\ -t \in Turns
<1>0. Half \in Nat \ {0}
  BY GeographyAssumption
<1> DEFINE n == 2 * Half
<1>1. n \in Nat \ {0}
  BY <1>0
<1> HIDE DEF n
<1>2. Turns = {n * k : k \in Int}
  BY DEF Turns, n
<1>3. \A k \in Int : n * k \in Int
  BY <1>1
<1>4. n * 0 = 0 /\ n * 1 = n /\ n * (-1) = -n
  BY <1>1
<1>5. ASSUME NEW t \in Turns, NEW u \in Turns
      PROVE  t + u \in Turns /\ t - u \in Turns /\ -t \in Turns
  <2>1. PICK k \in Int : t = n * k
    BY <1>2
  <2>2. PICK j \in Int : u = n * j
    BY <1>2
  <2>3. t + u = n * (k + j) /\ t - u = n * (k - j) /\ -t = n * (-k)
    BY <1>1, <2>1, <2>2
  <2>4. k + j \in Int /\ k - j \in Int /\ -k \in Int
    OBVIOUS
  <2> QED
    BY <1>2, <2>3, <2>4
<1>6. 0 \in Turns /\ n \in Turns /\ -n \in Turns
  <2>1. 0 \in Int /\ 1 \in Int /\ -1 \in Int
    OBVIOUS
  <2> QED
    BY <1>2, <1>4, <2>1
<1> QED
  BY <1>2, <1>3, <1>5, <1>6 DEF n

\* Whole turns leave the remainder alone.
LEMMA TurnsDrop ==
  ASSUME NEW x \in Int, NEW t \in Turns
  PROVE  (x + t) % (2 * Half) = x % (2 * Half)
<1> DEFINE n == 2 * Half
<1>1. n \in Nat \ {0}
  BY GeographyAssumption
<1>2. PICK k \in Int : t = n * k
  BY DEF Turns
<1> HIDE DEF n
<1> DEFINE q == x \div n
           r == x % n
<1>3. x = n * q + r /\ r \in 0..n - 1 /\ q \in Int /\ r \in Int
  BY <1>1
<1> DEFINE y == x + t
<1>4. y \in Int
  BY <1>1, <1>2
<1>5. y = n * (y \div n) + (y % n) /\ y % n \in Int
  <2> HIDE DEF y
  <2> QED
    BY <1>1, <1>4
<1>6. y \div n = q + k
  <2> HIDE DEF q, r
  <2>1. (q + k) * n = n * q + t /\ q + k \in Int
    BY <1>1, <1>2, <1>3
  <2>2. (q + k) * n <= y /\ y < (q + k) * n + n
    BY <1>1, <1>2, <1>3, <2>1
  <2> HIDE DEF y
  <2> QED
    BY <1>1, <1>4, <2>1, <2>2, Divided
<1>7. n * (q + k) = n * q + t
  <2> HIDE DEF q
  <2> QED
    BY <1>1, <1>2, <1>3
<1>8. y % n = r
  <2> DEFINE z == y \div n
             v == y % n
  <2>1. y = n * z + v /\ v \in Int
    BY <1>5
  <2>2. n * z = n * q + t
    BY <1>6, <1>7
  <2>3. n * q \in Int /\ t \in Int
    BY <1>1, <1>2, <1>3
  <2> HIDE DEF z, v, q, r
  <2>4. v = r
    BY <1>3, <2>1, <2>2, <2>3
  <2> QED
    BY <2>4 DEF v
<1> QED
  BY <1>8 DEF n

LEMMA JsRemIs ==
  ASSUME NEW x \in Int
  PROVE  /\ JsRem(x, 2 * Half) \in Int /\ JsRem(x, 2 * Half) - x \in Turns
         /\ x >= 0 => JsRem(x, 2 * Half) \in 0..2 * Half - 1
<1> DEFINE n == 2 * Half
<1>1. n \in Nat \ {0}
  BY GeographyAssumption
<1>2. \A k \in Int : n * k \in Turns
  BY DEF Turns
<1> HIDE DEF n
<1>3. ASSUME NEW y \in Int
      PROVE  y % n \in 0..n - 1 /\ (y % n) - y \in Turns
  <2>1. y = n * (y \div n) + (y % n) /\ y \div n \in Int /\ y % n \in 0..n - 1
    BY <1>1
  <2> DEFINE q == y \div n
             r == y % n
  <2>2. n * (-q) = -(n * q) /\ -q \in Int /\ n * q \in Int
    BY <1>1, <2>1
  <2>3. n * (-q) \in Turns
    BY <1>2, <2>2
  <2>4. r - y = n * (-q)
    <3>1. y = n * q + r /\ r \in Int
      BY <2>1
    <3> HIDE DEF q, r
    <3> QED
      BY <2>2, <3>1
  <2> HIDE DEF q
  <2> QED
    BY <2>1, <2>3, <2>4
<1>4. CASE x >= 0
  <2>1. JsRem(x, 2 * Half) = x % n
    BY <1>4 DEF JsRem, n
  <2>2. x % n \in 0..n - 1 /\ (x % n) - x \in Turns
    BY <1>3
  <2>3. x % n \in Int
    BY <1>1
  <2> QED
    BY <2>1, <2>2, <2>3 DEF n
<1>5. CASE x < 0
  <2>1. -x \in Int
    OBVIOUS
  <2> DEFINE r == (-x) % n
  <2>2. r \in 0..n - 1 /\ r - (-x) \in Turns
    BY <1>3, <2>1
  <2>3. JsRem(x, 2 * Half) = -r
    BY <1>5 DEF JsRem, n
  <2> HIDE DEF r
  <2>4. -(r - (-x)) \in Turns
    BY <2>2, TurnsAdd
  <2>5. -(r - (-x)) = -r - x /\ -r \in Int
    BY <1>1, <2>2
  <2> QED
    BY <1>5, <2>3, <2>4, <2>5
<1> QED
  BY <1>4, <1>5

LEMMA WrapLonIs ==
  ASSUME NEW x \in Int
  PROVE  wrapLon(x) \in Int /\ wrapLon(x) - x \in Turns
<1>1. Half \in Nat \ {0}
  BY GeographyAssumption
<1> DEFINE y == JsRem(x + Half, 2 * Half)
           z == JsRem(y + 2 * Half, 2 * Half)
<1>2. y \in Int /\ y - (x + Half) \in Turns
  BY <1>1, JsRemIs
<1> HIDE DEF y
<1>3. z \in Int /\ z - (y + 2 * Half) \in Turns
  BY <1>1, <1>2, JsRemIs
<1> HIDE DEF z
<1>4. (z - (y + 2 * Half)) + (y - (x + Half)) + 2 * Half \in Turns
  BY <1>2, <1>3, TurnsAdd
<1>5. (z - (y + 2 * Half)) + (y - (x + Half)) + 2 * Half = (z - Half) - x
  BY <1>1, <1>2, <1>3
<1>6. wrapLon(x) = z - Half
  BY DEF wrapLon, z, y
<1> QED
  BY <1>1, <1>3, <1>4, <1>5, <1>6

LEMMA ShorterIs ==
  ASSUME NEW x \in Int, NEW y \in Int
  PROVE  LET d == Shorter(x, y)
         IN  /\ d \in Int /\ (x + d) - y \in Turns
             /\ Magnitude(d) <= Magnitude(y - x)
             /\ \A t \in Turns : Shorter(x + t, y) = d /\ Shorter(x, y + t) = d
<1> DEFINE n == 2 * Half
           r == (y - x) % n
           d == Shorter(x, y)
<1>1. Half \in Nat \ {0} /\ n \in Nat \ {0} /\ n = Half + Half
  BY GeographyAssumption
<1>2. d = IF r > Half THEN r - n ELSE r
  BY DEF Shorter
<1>3. ASSUME NEW t \in Turns
      PROVE  Shorter(x + t, y) = d /\ Shorter(x, y + t) = d
  <2>1. t \in Int /\ -t \in Turns
    BY TurnsAdd
  <2>2. y - (x + t) = (y - x) + (-t) /\ (y + t) - x = (y - x) + t /\ y - x \in Int
    BY <2>1
  <2>3. ((y - x) + (-t)) % (2 * Half) = (y - x) % (2 * Half)
    BY <2>1, <2>2, TurnsDrop
  <2>4. ((y - x) + t) % (2 * Half) = (y - x) % (2 * Half)
    BY <2>2, TurnsDrop
  <2> QED
    BY <2>2, <2>3, <2>4 DEF Shorter
<1> DEFINE q == (y - x) \div n
<1>4. y - x = n * q + r /\ r \in 0..n - 1 /\ q \in Int
  BY <1>1
<1> HIDE DEF r, d, q, n
<1>5. n * q \in Int /\ n * (-q) = -(n * q) /\ -q \in Int
  BY <1>1, <1>4
<1>6. n * (-q) \in Turns /\ -n \in Turns
  BY <1>5, TurnsAdd DEF Turns, n
<1>7. d \in Int
  BY <1>1, <1>2, <1>4
<1>8. (x + d) - y \in Turns
  <2>1. n * (-q) + (-n) \in Turns
    BY <1>6, TurnsAdd
  <2>2. (x + r) - y = n * (-q) /\ (x + (r - n)) - y = n * (-q) + (-n)
    BY <1>1, <1>4, <1>5
  <2> QED
    BY <1>2, <1>6, <2>1, <2>2
<1>9. Magnitude(d) <= Magnitude(y - x)
  <2>1. q >= 1 => n * q >= n
    BY <1>1, <1>4
  <2>2. q <= -1 => n * q <= -n
    BY <1>1, <1>4
  <2>3. q = 0 => n * q = 0
    BY <1>1
  <2>4. q >= 1 \/ q <= -1 \/ q = 0
    BY <1>4
  <2> DEFINE p == n * q
  <2> HIDE DEF p
  <2>5. p \in Int /\ (p >= n \/ p <= -n \/ p = 0) /\ y - x = p + r
    BY <1>4, <1>5, <2>1, <2>2, <2>3, <2>4 DEF p
  <2> QED
    BY <1>1, <1>2, <1>4, <2>5 DEF Magnitude
<1> QED
  BY <1>3, <1>7, <1>8, <1>9 DEF d

LEMMA MagnitudeIs == \A x \in Int : Magnitude(x) \in Nat /\ (Magnitude(x) = 0 => x = 0)
BY DEF Magnitude

LEMMA SameAgain ==
  ASSUME NEW a \in Point, NEW b \in Point, Same(a, b)
  PROVE  Same(b, a) /\ \A c \in Point : Same(b, c) => Same(a, c)
<1>1. a[1] \in Int /\ b[1] \in Int /\ \A c \in Point : c[1] \in Int
  BY DEF Point
<1>2. -(b[1] - a[1]) \in Turns /\ -(b[1] - a[1]) = a[1] - b[1]
  BY <1>1, TurnsAdd DEF Same
<1>3. ASSUME NEW c \in Point, Same(b, c)
      PROVE  Same(a, c)
  <2>1. (c[1] - b[1]) + (b[1] - a[1]) \in Turns
    BY <1>3, TurnsAdd DEF Same
  <2>2. (c[1] - b[1]) + (b[1] - a[1]) = c[1] - a[1]
    BY <1>1
  <2> QED
    BY <1>3, <2>1, <2>2 DEF Same
<1> QED
  BY <1>2, <1>3 DEF Same

\* The distance is a natural number, nothing between the same places, and no more
\* than the coordinates differ by.
LEMMA DistanceIs ==
  ASSUME NEW a \in Point, NEW b \in Point
  PROVE  /\ haversineKm(a, b) \in Nat
         /\ haversineKm(a, b) = 0 => Same(a, b)
         /\ haversineKm(a, b) <= Magnitude(b[1] - a[1]) + Magnitude(b[2] - a[2])
         /\ \A c \in Point : Same(a, c) => haversineKm(c, b) = haversineKm(a, b)
<1>1. a[1] \in Int /\ a[2] \in Int /\ b[1] \in Int /\ b[2] \in Int
  BY DEF Point
<1> DEFINE d == Shorter(a[1], b[1])
<1>2. /\ d \in Int /\ (a[1] + d) - b[1] \in Turns
      /\ Magnitude(d) <= Magnitude(b[1] - a[1])
      /\ \A t \in Turns : Shorter(a[1] + t, b[1]) = d
  BY <1>1, ShorterIs, ZenonT(30)
<1>3. haversineKm(a, b) = Magnitude(d) + Magnitude(b[2] - a[2])
  BY DEF haversineKm
<1> HIDE DEF d
<1>4. b[2] - a[2] \in Int /\ b[1] - a[1] \in Int
  BY <1>1
<1>5. Magnitude(d) \in Nat /\ Magnitude(b[2] - a[2]) \in Nat /\ Magnitude(b[1] - a[1]) \in Nat
  BY <1>2, <1>4, MagnitudeIs
<1>6. ASSUME haversineKm(a, b) = 0
      PROVE  Same(a, b)
  <2>1. d = 0 /\ b[2] - a[2] = 0
    BY <1>2, <1>3, <1>4, <1>5, <1>6, MagnitudeIs
  <2>2. a[1] - b[1] \in Turns /\ b[2] = a[2]
    <3>1. (a[1] + d) - b[1] = a[1] - b[1]
      BY <1>1, <2>1
    <3>2. b[2] = a[2]
      BY <1>1, <2>1
    <3> QED
      BY <1>2, <3>1, <3>2
  <2>3. -(a[1] - b[1]) \in Turns /\ -(a[1] - b[1]) = b[1] - a[1]
    BY <1>1, <2>2, TurnsAdd
  <2> QED
    BY <2>2, <2>3 DEF Same
<1>7. ASSUME NEW c \in Point, Same(a, c)
      PROVE  haversineKm(c, b) = haversineKm(a, b)
  <2>1. c[1] - a[1] \in Turns /\ c[2] = a[2] /\ c[1] \in Int
    BY <1>7 DEF Same, Point
  <2>2. a[1] + (c[1] - a[1]) = c[1]
    BY <1>1, <2>1
  <2>3. Shorter(c[1], b[1]) = d
    BY <1>2, <2>1, <2>2
  <2> QED
    BY <1>3, <2>1, <2>3 DEF haversineKm
<1> QED
  BY <1>2, <1>3, <1>5, <1>6, <1>7

LEMMA MaxOfThree ==
  ASSUME NEW x \in Nat, NEW y \in Nat
  PROVE  Max({1, x, y}) \in Nat \ {0} /\ Max({1, x, y}) >= x
<1> DEFINE S == {1, x, y}
<1>1. \E m \in S : \A k \in S : m >= k
  <2>1. CASE x >= y /\ x >= 1
    BY <2>1
  <2>2. CASE y >= x /\ y >= 1
    BY <2>2
  <2>3. CASE x < 1 /\ y < 1
    BY <2>3
  <2> QED
    BY <2>1, <2>2, <2>3
<1>2. Max(S) \in S /\ Max(S) >= 1 /\ Max(S) >= x
  <2> HIDE DEF S
  <2>1. Max(S) \in S /\ \A k \in S : Max(S) >= k
    BY <1>1 DEF Max
  <2>2. 1 \in S /\ x \in S
    BY DEF S
  <2> QED
    BY <2>1, <2>2
<1> QED
  BY <1>2

\* A great circle leads from its one end to the other.
LEMMA GreatCircleIs ==
  ASSUME NEW a \in Point, NEW b \in Point
  PROVE  LET line == GreatCircle(a, b)
         IN  /\ line \in Seq(Point) /\ Len(line) >= 2
             /\ Same(a, line[1]) /\ Same(b, line[Len(line)])
<1>1. a[1] \in Int /\ a[2] \in Int /\ b[1] \in Int /\ b[2] \in Int
  BY DEF Point
<1> DEFINE dx == Shorter(a[1], b[1])
           dy == b[2] - a[2]
           n == Max({1, Magnitude(dx), Magnitude(dy)})
           at(i) == <<wrapLon(a[1] + ((i - 1) * dx) \div n), a[2] + ((i - 1) * dy) \div n>>
           line == [i \in 1..n + 1 |-> at(i)]
<1>2. GreatCircle(a, b) = line
  BY Zenon DEF GreatCircle
<1>3. dx \in Int /\ (a[1] + dx) - b[1] \in Turns /\ dy \in Int
  <2>1. dy \in Int
    BY <1>1
  <2> HIDE DEF dy
  <2>2. dx \in Int /\ (a[1] + dx) - b[1] \in Turns
    BY <1>1, ShorterIs
  <2> QED
    BY <2>1, <2>2
<1>4. dy = b[2] - a[2]
  OBVIOUS
<1> HIDE DEF dx, dy
<1>5. n \in Nat \ {0}
  BY <1>3, MagnitudeIs, MaxOfThree
<1> HIDE DEF n
<1>6. \A x \in Int, i \in 1..n + 1 : ((i - 1) * x) \div n \in Int
  <2> TAKE x \in Int, i \in 1..n + 1
  <2>1. (i - 1) * x \in Int
    BY <1>5
  <2> DEFINE p == (i - 1) * x
  <2> HIDE DEF p
  <2>2. p \in Int => p \div n \in Int
    BY <1>5
  <2> QED
    BY <2>1, <2>2 DEF p
<1>7. ASSUME NEW i \in 1..n + 1
      PROVE  /\ at(i) \in Point /\ at(i)[2] = a[2] + ((i - 1) * dy) \div n
             /\ at(i)[1] - (a[1] + ((i - 1) * dx) \div n) \in Turns
  <2> DEFINE x == ((i - 1) * dx) \div n
             y == ((i - 1) * dy) \div n
  <2>1. x \in Int /\ y \in Int
    BY <1>3, <1>6
  <2> HIDE DEF x, y
  <2>2. wrapLon(a[1] + x) \in Int /\ wrapLon(a[1] + x) - (a[1] + x) \in Turns
    BY <1>1, <2>1, WrapLonIs
  <2>3. at(i) = <<wrapLon(a[1] + x), a[2] + y>>
    BY DEF x, y
  <2> HIDE DEF at
  <2>4. at(i) \in Point /\ at(i)[2] = a[2] + y /\ at(i)[1] - (a[1] + x) \in Turns
    BY <1>1, <2>1, <2>2, <2>3 DEF Point
  <2> QED
    BY <2>4 DEF x, y
<1>8. \A x \in Int : ((1 - 1) * x) \div n = 0 /\ (((n + 1) - 1) * x) \div n = x
  <2> TAKE x \in Int
  <2>1. (1 - 1) * x = 0 /\ ((n + 1) - 1) * x = x * n /\ x * n \in Int
    BY <1>5
  <2>2. 0 \div n = 0
    BY <1>5, Divided
  <2>3. (x * n) \div n = x
    <3> DEFINE p == x * n
    <3>1. p \in Int /\ x * n <= p /\ p < x * n + n
      BY <1>5, <2>1
    <3> HIDE DEF p
    <3>2. p \div n = x
      BY <1>5, <3>1, Divided
    <3> QED
      BY <3>2 DEF p
  <2> QED
    BY <2>1, <2>2, <2>3
<1> HIDE DEF at
<1>9. line \in Seq(Point) /\ Len(line) = n + 1 /\ line[1] = at(1) /\ line[n + 1] = at(n + 1)
  <2>1. n + 1 \in Nat /\ 1 \in 1..n + 1 /\ n + 1 \in 1..n + 1
    BY <1>5
  <2>2. \A i \in 1..n + 1 : at(i) \in Point
    BY <1>7
  <2>3. line \in [1..n + 1 -> Point]
    BY <2>2
  <2> QED
    BY <2>1, <2>3
<1>10. Same(a, at(1))
  <2>1. 1 \in 1..n + 1
    BY <1>5
  <2>2. at(1)[2] = a[2] + 0 /\ at(1)[1] - (a[1] + 0) \in Turns
    BY <1>3, <1>7, <1>8, <2>1
  <2> QED
    BY <1>1, <2>2 DEF Same
<1>11. Same(b, at(n + 1))
  <2>1. n + 1 \in 1..n + 1
    BY <1>5
  <2>2. /\ at(n + 1)[2] = a[2] + dy /\ at(n + 1)[1] - (a[1] + dx) \in Turns
        /\ at(n + 1) \in Point
    BY <1>3, <1>7, <1>8, <2>1
  <2>3. (at(n + 1)[1] - (a[1] + dx)) + ((a[1] + dx) - b[1]) \in Turns
    BY <1>3, <2>2, TurnsAdd
  <2>4. at(n + 1)[1] \in Int
    BY <2>2 DEF Point
  <2>5. (at(n + 1)[1] - (a[1] + dx)) + ((a[1] + dx) - b[1]) = at(n + 1)[1] - b[1]
    BY <1>1, <1>3, <2>4
  <2>6. at(n + 1)[2] = b[2]
    BY <1>1, <1>4, <2>2
  <2> QED
    BY <2>3, <2>5, <2>6 DEF Same
<1> HIDE DEF line
<1>12. Len(line) >= 2 /\ line[Len(line)] = at(n + 1)
  BY <1>5, <1>9
<1> QED
  BY <1>2, <1>9, <1>10, <1>11, <1>12

----------------------------------------------------------------------------
(***************************************************************************)
(* Lines put together.                                                     *)
(***************************************************************************)

FlattenStep(f, seqs, i) == IF i = 1 THEN seqs[i] ELSE f[i - 1] \o seqs[i]

\* Such a line is put together step by step.
LEMMA FlattenBy ==
  ASSUME NEW S, NEW seqs \in Seq(Seq(S)), Len(seqs) # 0
  PROVE  \E f \in [1..Len(seqs) -> Seq(S)] :
           /\ FlattenSeq(seqs) = f[Len(seqs)]
           /\ \A i \in 1..Len(seqs) : f[i] = FlattenStep(f, seqs, i)
<1> DEFINE n == Len(seqs)
           F == CHOOSE f : f = [i \in 1..n |-> FlattenStep(f, seqs, i)]
<1>0. n \in Nat /\ 1 \in 1..n /\ \A i \in 1..n : seqs[i] \in Seq(S)
  OBVIOUS
<1>1. FlattenSeq(seqs) = F[n]
  BY Zenon DEF FlattenSeq, FlattenStep
<1> DEFINE step == [p \in (1..n) \X Seq(S) |-> p[2] \o seqs[p[1]]]
<1>2. step \in [(1..n) \X Seq(S) -> Seq(S)]
  <2>1. \A p \in (1..n) \X Seq(S) : p[2] \o seqs[p[1]] \in Seq(S)
    BY <1>0, ConcatProperties
  <2> QED
    BY <2>1
<1>3. seqs[1] \in Seq(S)
  BY <1>0
<1>4. \A i \in 1..n, s \in Seq(S) : step[<<i, s>>] = s \o seqs[i]
  OBVIOUS
<1> HIDE DEF step, n
<1>5. PICK f \in [1..n -> Seq(S)] : Follows(f, n, seqs[1], step)
  BY <1>0, <1>2, <1>3, RecursionExists
<1>6. \A i \in 1..n : f[i] = FlattenStep(f, seqs, i)
  <2> TAKE i \in 1..n
  <2>1. i # 1 => i - 1 \in 1..n
    BY <1>0
  <2> QED
    BY <1>4, <1>5, <2>1 DEF FlattenStep, Follows
<1>7. f = [i \in 1..n |-> FlattenStep(f, seqs, i)]
  BY <1>6
<1>8. F = [i \in 1..n |-> FlattenStep(F, seqs, i)]
  BY <1>7, Zenon
<1> HIDE DEF F
<1> DEFINE Q == {i \in 1..n : F[i] \in Seq(S)}
<1>9. ASSUME NEW i \in 1..n, i = 1 \/ i - 1 \in Q
      PROVE  i \in Q
  <2>1. F[i] = FlattenStep(F, seqs, i)
    BY <1>8
  <2>2. CASE i = 1
    BY <1>0, <2>1, <2>2 DEF FlattenStep
  <2>3. CASE i # 1
    <3>1. F[i - 1] \in Seq(S) /\ seqs[i] \in Seq(S)
      BY <1>0, <1>9, <2>3
    <3>2. F[i] = F[i - 1] \o seqs[i]
      BY <2>1, <2>3 DEF FlattenStep
    <3>3. F[i] \in Seq(S)
      BY <3>1, <3>2, ConcatProperties
    <3> QED
      BY <3>3
  <2> QED
    BY <2>2, <2>3
<1> HIDE DEF Q
<1>10. \A i \in 1..n : i \in Q
  BY <1>0, <1>9, IndexInduction
<1>11. F \in [1..n -> Seq(S)] /\ \A i \in 1..n : F[i] = FlattenStep(F, seqs, i)
  BY <1>8, <1>10 DEF Q
<1> QED
  BY <1>1, <1>11 DEF n

\* Lines one after the other begin as the first does and end as the last does.
LEMMA FlattenIs ==
  ASSUME NEW S, NEW seqs \in Seq(Seq(S))
  PROVE  LET line == FlattenSeq(seqs)
             n    == Len(seqs)
         IN  /\ line \in Seq(S) /\ (n = 0 => line = <<>>)
             /\ n # 0 /\ seqs[1] # <<>> => line # <<>> /\ line[1] = seqs[1][1]
             /\ n # 0 /\ seqs[n] # <<>> =>
                  line # <<>> /\ line[Len(line)] = seqs[n][Len(seqs[n])]
<1> DEFINE n == Len(seqs)
<1>1. n \in Nat /\ \A i \in 1..n : seqs[i] \in Seq(S)
  OBVIOUS
<1>2. CASE n = 0
  <2>1. seqs = <<>> /\ <<>> \in Seq(S)
    BY <1>2
  <2>2. FlattenSeq(seqs) = seqs
    BY <1>2 DEF FlattenSeq
  <2> QED
    BY <1>2, <2>1, <2>2, Zenon
<1>3. CASE n # 0
  <2>0. 1 \in 1..n /\ n \in 1..n
    BY <1>1, <1>3
  <2>1. PICK F \in [1..n -> Seq(S)] :
          FlattenSeq(seqs) = F[n] /\ \A i \in 1..n : F[i] = FlattenStep(F, seqs, i)
    BY <1>3, FlattenBy
  <2> HIDE DEF n
  <2> DEFINE Q == {i \in 1..n : /\ F[i] \in Seq(S)
                                /\ seqs[1] # <<>> => F[i] # <<>> /\ F[i][1] = seqs[1][1]
                                /\ seqs[i] # <<>> =>
                                     F[i] # <<>> /\ F[i][Len(F[i])] = seqs[i][Len(seqs[i])]}
  <2>9. ASSUME NEW i \in 1..n, i = 1 \/ i - 1 \in Q
        PROVE  i \in Q
    <3>1. F[i] = FlattenStep(F, seqs, i)
      BY <2>1
    <3>2. CASE i = 1
      BY <1>1, <3>1, <3>2 DEF FlattenStep
    <3>3. CASE i # 1
      <4> DEFINE p == F[i - 1]
                 q == seqs[i]
      <4>1. p \in Seq(S) /\ q \in Seq(S) /\ F[i] = p \o q
        BY <1>1, <2>9, <3>1, <3>3 DEF FlattenStep
      <4>2. seqs[1] # <<>> => p # <<>> /\ p[1] = seqs[1][1]
        BY <2>9, <3>3
      <4> HIDE DEF p, q, Q
      <4>3. /\ p \o q \in Seq(S) /\ Len(p \o q) = Len(p) + Len(q)
            /\ \A k \in 1..Len(p) + Len(q) :
                 (p \o q)[k] = IF k <= Len(p) THEN p[k] ELSE q[k - Len(p)]
        BY <4>1, ConcatProperties
      <4>4. Len(p) \in Nat /\ Len(q) \in Nat /\ (p # <<>> => Len(p) # 0) /\ (q # <<>> => Len(q) # 0)
        BY <4>1
      <4> DEFINE r == p \o q
      <4>5. p # <<>> => r # <<>> /\ r[1] = p[1]
        BY <4>3, <4>4
      <4>6. q # <<>> => r # <<>> /\ r[Len(r)] = q[Len(q)]
        BY <4>3, <4>4
      <4>7. r \in Seq(S) /\ F[i] = r
        BY <4>1, <4>3
      <4> HIDE DEF r
      <4> QED
        BY <4>2, <4>5, <4>6, <4>7 DEF Q, q
    <3> QED
      BY <3>2, <3>3
  <2> HIDE DEF Q
  <2>10. \A i \in 1..n : i \in Q
    BY <1>1, <2>9, IndexInduction
  <2>11. /\ F[n] \in Seq(S)
         /\ seqs[1] # <<>> => F[n] # <<>> /\ F[n][1] = seqs[1][1]
         /\ seqs[n] # <<>> => F[n] # <<>> /\ F[n][Len(F[n])] = seqs[n][Len(seqs[n])]
    BY <2>0, <2>10 DEF Q
  <2> DEFINE line == F[n]
  <2>12. FlattenSeq(seqs) = line
    BY <2>1
  <2>13. /\ line \in Seq(S)
         /\ seqs[1] # <<>> => line # <<>> /\ line[1] = seqs[1][1]
         /\ seqs[n] # <<>> => line # <<>> /\ line[Len(line)] = seqs[n][Len(seqs[n])]
    BY <2>11
  <2> HIDE DEF line
  <2> QED
    BY <1>3, <2>12, <2>13 DEF n
<1> QED
  BY <1>2, <1>3

UnwrapStep(f, line, i) ==
  IF i = 1 THEN line[1]
  ELSE << line[i][1] + (IF line[i][1] - f[i - 1][1] > Half THEN -2 * Half
                        ELSE IF line[i][1] - f[i - 1][1] < -Half THEN 2 * Half ELSE 0),
          line[i][2] >>

\* Unwrapping moves points by whole turns, each as the one before it demands.
LEMMA UnwrappedIs ==
  ASSUME NEW line \in Seq(Point), line # <<>>
  PROVE  /\ Unwrapped(line) \in Seq(Point) /\ Len(Unwrapped(line)) = Len(line)
         /\ \A i \in 1..Len(line) :
              /\ Same(line[i], Unwrapped(line)[i])
              /\ Unwrapped(line)[i] = UnwrapStep(Unwrapped(line), line, i)
<1> DEFINE n == Len(line)
           F == CHOOSE f : f = [i \in 1..n |-> UnwrapStep(f, line, i)]
           move(i, q) == IF line[i][1] - q[1] > Half THEN -2 * Half
                         ELSE IF line[i][1] - q[1] < -Half THEN 2 * Half ELSE 0
           put(i, q) == <<line[i][1] + move(i, q), line[i][2]>>
<1>1. n \in Nat /\ n # 0 /\ \A i \in 1..n : line[i] \in Point
  OBVIOUS
<1>2. Unwrapped(line) = F
  BY Zenon DEF Unwrapped, UnwrapStep
<1>3. \A i, q : move(i, q) \in Turns
  <2>1. -2 * Half \in Turns /\ 2 * Half \in Turns /\ 0 \in Turns
    <3>1. -2 * Half = -(2 * Half)
      BY GeographyAssumption
    <3> QED
      BY <3>1, TurnsAdd
  <2> QED
    BY <2>1
<1> HIDE DEF move, n
<1>4. ASSUME NEW i \in 1..n, NEW q
      PROVE  put(i, q) \in Point /\ Same(line[i], put(i, q))
  <2>1. line[i] \in Point /\ line[i][1] \in Int /\ line[i][2] \in Int
    BY <1>1 DEF Point
  <2>2. move(i, q) \in Int /\ move(i, q) \in Turns
    BY <1>3, TurnsAdd
  <2>3. put(i, q) \in Int \X Int /\ put(i, q)[1] - line[i][1] = move(i, q)
    BY <2>1, <2>2
  <2> QED
    BY <2>2, <2>3 DEF Same, Point
<1>5. \A f, i : UnwrapStep(f, line, i) = IF i = 1 THEN line[1] ELSE put(i, f[i - 1])
  BY DEF UnwrapStep, move
<1> HIDE DEF put
<1> DEFINE step == [p \in (1..n) \X Point |-> put(p[1], p[2])]
<1>6. step \in [(1..n) \X Point -> Point] /\ \A i \in 1..n, q \in Point : step[<<i, q>>] = put(i, q)
  BY <1>4
<1> HIDE DEF step
<1>7. 1 \in 1..n /\ line[1] \in Point
  BY <1>1
<1>8. PICK f \in [1..n -> Point] : Follows(f, n, line[1], step)
  BY <1>1, <1>6, <1>7, RecursionExists
<1>9. \A i \in 1..n : f[i] = UnwrapStep(f, line, i)
  <2> TAKE i \in 1..n
  <2>1. i # 1 => i - 1 \in 1..n
    BY <1>1
  <2> QED
    <3>1. f[i] = IF i = 1 THEN line[1] ELSE step[<<i, f[i - 1]>>]
      BY <1>8 DEF Follows
    <3>2. i # 1 => step[<<i, f[i - 1]>>] = put(i, f[i - 1])
      BY <1>6, <2>1
    <3>3. UnwrapStep(f, line, i) = IF i = 1 THEN line[1] ELSE put(i, f[i - 1])
      BY <1>5
    <3> QED
      BY <3>1, <3>2, <3>3
<1>10. f = [i \in 1..n |-> UnwrapStep(f, line, i)]
  BY <1>9
<1>11. F = [i \in 1..n |-> UnwrapStep(F, line, i)]
  BY <1>10, Zenon
<1> HIDE DEF F
<1>12. ASSUME NEW i \in 1..n
       PROVE  F[i] \in Point /\ Same(line[i], F[i])
  <2>1. F[i] = IF i = 1 THEN line[1] ELSE put(i, F[i - 1])
    BY <1>5, <1>11
  <2>2. CASE i = 1
    <3>1. line[1][1] - line[1][1] = 0
      BY <1>7 DEF Point
    <3> QED
      BY <1>7, <2>1, <2>2, <3>1, TurnsAdd DEF Same
  <2>3. CASE i # 1
    BY <1>4, <2>1, <2>3
  <2> QED
    BY <2>2, <2>3
<1>13. F \in [1..n -> Point]
  BY <1>11, <1>12
<1>14. F \in Seq(Point) /\ Len(F) = n
  BY <1>1, <1>13
<1>15. \A i \in 1..n : F[i] = UnwrapStep(F, line, i)
  BY <1>11
<1> QED
  BY <1>2, <1>12, <1>14, <1>15 DEF n

\* A line from a to b.
Leads(line, a, b) ==
  /\ line \in Seq(Point) /\ line # <<>>
  /\ Same(a, line[1]) /\ Same(b, line[Len(line)])

LEMMA UnwrappedLeads ==
  ASSUME NEW a \in Point, NEW b \in Point, NEW line, Leads(line, a, b)
  PROVE  Leads(Unwrapped(line), a, b)
<1> DEFINE r == Unwrapped(line)
           n == Len(line)
<1>1. line \in Seq(Point) /\ line # <<>> /\ n \in Nat /\ 1 \in 1..n /\ n \in 1..n
  BY DEF Leads
<1>2. r \in Seq(Point) /\ Len(r) = n /\ \A i \in 1..n : Same(line[i], r[i])
  BY <1>1, UnwrappedIs
<1> HIDE DEF r
<1>3. r # <<>> /\ line[1] \in Point /\ line[n] \in Point /\ r[1] \in Point /\ r[n] \in Point
  BY <1>1, <1>2
<1>4. Same(a, line[1]) /\ Same(b, line[n])
  BY DEF Leads
<1>5. Same(line[1], r[1]) /\ Same(line[n], r[n])
  BY <1>1, <1>2
<1> HIDE DEF n
<1>6. Same(a, r[1]) /\ Same(b, r[n])
  BY <1>3, <1>4, <1>5, SameAgain
<1>7. Leads(r, a, b)
  BY <1>2, <1>3, <1>6 DEF Leads
<1> QED
  BY <1>7 DEF r

LEMMA SameSelf == \A a \in Point : Same(a, a)
<1> TAKE a \in Point
<1>1. a[1] - a[1] = 0
  BY DEF Point
<1> QED
  BY <1>1, TurnsAdd DEF Same

LEMMA DirectLeads ==
  ASSUME NEW a \in Point, NEW b \in Point
  PROVE  Leads(densifyGreatCircle(a, b), a, b)
<1>1. CASE haversineKm(a, b) = 0
  <2> DEFINE line == <<a, b>>
  <2>1. line \in Seq(Point) /\ line # <<>> /\ Len(line) = 2 /\ line[1] = a /\ line[2] = b
    OBVIOUS
  <2>2. densifyGreatCircle(a, b) = line
    BY <1>1 DEF densifyGreatCircle
  <2> HIDE DEF line
  <2> QED
    BY <2>1, <2>2, SameSelf DEF Leads
<1>2. CASE haversineKm(a, b) # 0
  <2> DEFINE line == GreatCircle(a, b)
  <2>1. line \in Seq(Point) /\ Len(line) >= 2 /\ Same(a, line[1]) /\ Same(b, line[Len(line)])
    BY GreatCircleIs
  <2>2. densifyGreatCircle(a, b) = Unwrapped(line)
    BY <1>2 DEF densifyGreatCircle
  <2> HIDE DEF line
  <2>3. line # <<>>
    BY <2>1
  <2>4. Leads(line, a, b)
    BY <2>1, <2>3 DEF Leads
  <2> QED
    BY <2>2, <2>4, UnwrappedLeads
<1> QED
  BY <1>1, <1>2

LegOf(pts, i) ==
  IF haversineKm(pts[i], pts[i + 1]) = 0 THEN <<pts[i + 1], pts[i + 1]>>
  ELSE GreatCircle(pts[i], pts[i + 1])

LEMMA LegIs ==
  ASSUME NEW pts \in Seq(Point), NEW i \in 1..Len(pts) - 1
  PROVE  Leads(LegOf(pts, i), pts[i], pts[i + 1]) /\ Len(LegOf(pts, i)) >= 2
<1> DEFINE a == pts[i]
           b == pts[i + 1]
           line == LegOf(pts, i)
<1>1. a \in Point /\ b \in Point
  OBVIOUS
<1>2. line = IF haversineKm(a, b) = 0 THEN <<b, b>> ELSE GreatCircle(a, b)
  BY DEF LegOf
<1> HIDE DEF a, b, line
<1>3. line \in Seq(Point) /\ Len(line) >= 2 /\ Same(a, line[1]) /\ Same(b, line[Len(line)])
  <2>1. CASE haversineKm(a, b) = 0
    <3> DEFINE w == <<b, b>>
    <3>1. w \in Seq(Point) /\ Len(w) = 2 /\ w[1] = b /\ w[2] = b
      BY <1>1
    <3>2. line = w
      BY <1>2, <2>1
    <3>3. Same(a, b) /\ Same(b, b)
      BY <1>1, <2>1, DistanceIs, SameSelf
    <3> HIDE DEF w
    <3>4. line[1] = b /\ line[Len(line)] = b /\ Len(line) = 2
      BY <3>1, <3>2
    <3>5. line \in Seq(Point)
      BY <3>1, <3>2
    <3> QED
      BY <3>3, <3>4, <3>5
  <2>2. CASE haversineKm(a, b) # 0
    BY <1>1, <1>2, <2>2, GreatCircleIs
  <2> QED
    BY <2>1, <2>2
<1>4. Leads(line, a, b)
  <2>1. line # <<>>
    BY <1>3
  <2> QED
    BY <1>3, <2>1 DEF Leads
<1> QED
  BY <1>3, <1>4 DEF line, a, b

\* The legs of a path, each without its first point but the first.
LegsOf(pts) == [i \in 1..Len(pts) - 1 |-> IF i = 1 THEN LegOf(pts, i) ELSE Tail(LegOf(pts, i))]

LEMMA LegsAre ==
  ASSUME NEW pts \in Seq(Point), Len(pts) >= 2
  PROVE  /\ densifyPath(pts) = Unwrapped(FlattenSeq(LegsOf(pts)))
         /\ LegsOf(pts) \in Seq(Seq(Point)) /\ Len(LegsOf(pts)) = Len(pts) - 1
         /\ \A i \in 1..Len(pts) - 1 :
              /\ LegsOf(pts)[i] \in Seq(Point) /\ LegsOf(pts)[i] # <<>>
              /\ i = 1 => Same(pts[1], LegsOf(pts)[i][1])
              /\ Same(pts[i + 1], LegsOf(pts)[i][Len(LegsOf(pts)[i])])
<1> DEFINE n == Len(pts) - 1
           legs == [i \in 1..n |-> IF i = 1 THEN LegOf(pts, i) ELSE Tail(LegOf(pts, i))]
           line == FlattenSeq(legs)
<1>1. n \in Nat /\ n >= 1 /\ 1 \in 1..n /\ n \in 1..n /\ Len(pts) = n + 1
  OBVIOUS
<1>2. densifyPath(pts) = Unwrapped(line)
  <2>1. ~(Len(pts) < 2)
    OBVIOUS
  <2> QED
    BY <2>1, Zenon DEF densifyPath, LegOf
<1> HIDE DEF n
<1>3. ASSUME NEW i \in 1..n
      PROVE  /\ LegOf(pts, i) \in Seq(Point) /\ Len(LegOf(pts, i)) >= 2
             /\ Same(pts[i], LegOf(pts, i)[1])
             /\ Same(pts[i + 1], LegOf(pts, i)[Len(LegOf(pts, i))])
  BY LegIs DEF Leads, n
<1>4. ASSUME NEW i \in 1..n
      PROVE  /\ legs[i] \in Seq(Point) /\ legs[i] # <<>>
             /\ i = 1 => Same(pts[1], legs[i][1])
             /\ Same(pts[i + 1], legs[i][Len(legs[i])])
  <2> DEFINE leg == LegOf(pts, i)
  <2>1. /\ leg \in Seq(Point) /\ Len(leg) >= 2
        /\ Same(pts[i], leg[1]) /\ Same(pts[i + 1], leg[Len(leg)])
    BY <1>3
  <2>2. legs[i] = IF i = 1 THEN leg ELSE Tail(leg)
    OBVIOUS
  <2> HIDE DEF leg, legs
  <2>3. leg # <<>>
    BY <2>1
  <2>4. Tail(leg) \in Seq(Point) /\ Len(Tail(leg)) = Len(leg) - 1
        /\ \A k \in 1..Len(leg) - 1 : Tail(leg)[k] = leg[k + 1]
    BY <2>1, <2>3
  <2>5. Tail(leg) # <<>> /\ Tail(leg)[Len(Tail(leg))] = leg[Len(leg)]
    <3> DEFINE m == Len(leg)
    <3>1. m \in Nat /\ m - 1 \in 1..m - 1 /\ (m - 1) + 1 = m /\ m - 1 # 0
      BY <2>1
    <3>2. Tail(leg)[m - 1] = leg[m]
      BY <2>4, <3>1
    <3> HIDE DEF m
    <3>3. Len(Tail(leg)) = m - 1
      BY <2>4 DEF m
    <3>4. Tail(leg) # <<>>
      BY <3>1, <3>3
    <3> QED
      BY <3>2, <3>3, <3>4 DEF m
  <2> QED
    BY <2>1, <2>2, <2>3, <2>4, <2>5
<1>5. legs \in Seq(Seq(Point)) /\ Len(legs) = n
  <2>1. legs \in [1..n -> Seq(Point)]
    <3>1. \A i \in 1..n : legs[i] \in Seq(Point)
      BY <1>4
    <3>2. DOMAIN legs = 1..n /\ legs = [i \in 1..n |-> legs[i]]
      OBVIOUS
    <3> HIDE DEF legs
    <3> QED
      BY <3>1, <3>2
  <2> HIDE DEF legs
  <2> QED
    BY <1>1, <2>1
<1>6. LegsOf(pts) = legs
  BY DEF LegsOf, n
<1> HIDE DEF legs
<1> QED
  BY <1>2, <1>4, <1>5, <1>6 DEF n

\* A path with its legs filled in leads where the path does.
LEMMA DensifyLeads ==
  ASSUME NEW pts \in Seq(Point), Len(pts) >= 2
  PROVE  Leads(densifyPath(pts), pts[1], pts[Len(pts)])
<1> DEFINE n == Len(pts) - 1
           legs == LegsOf(pts)
           line == FlattenSeq(legs)
<1>1. n \in Nat /\ n >= 1 /\ 1 \in 1..n /\ n \in 1..n /\ Len(pts) = n + 1
  OBVIOUS
<1>2. densifyPath(pts) = Unwrapped(line)
  BY LegsAre
<1>4. ASSUME NEW i \in 1..n
      PROVE  /\ legs[i] \in Seq(Point) /\ legs[i] # <<>>
             /\ i = 1 => Same(pts[1], legs[i][1])
             /\ Same(pts[i + 1], legs[i][Len(legs[i])])
  BY LegsAre
<1>5. legs \in Seq(Seq(Point)) /\ Len(legs) = n
  BY LegsAre
<1> HIDE DEF legs, n
<1>6. /\ line \in Seq(Point)
      /\ n # 0 /\ legs[1] # <<>> => line # <<>> /\ line[1] = legs[1][1]
      /\ n # 0 /\ legs[n] # <<>> =>
           line # <<>> /\ line[Len(line)] = legs[n][Len(legs[n])]
  BY <1>5, FlattenIs
<1> HIDE DEF line
<1>7. Leads(line, pts[1], pts[n + 1])
  BY <1>1, <1>4, <1>6 DEF Leads
<1>8. pts[1] \in Point /\ pts[n + 1] \in Point
  BY <1>1
<1> QED
  BY <1>1, <1>2, <1>7, <1>8, UnwrappedLeads

----------------------------------------------------------------------------
(***************************************************************************)
(* The search: one step of it.                                             *)
(***************************************************************************)

\* Edges between the nodes 1..N, of a length that is not negative.
Joins(edge, N) ==
  \A e \in edge : e.from \in 1..N /\ e.to \in 1..N /\ e.w \in Nat
\* Distances some of the nodes start with.
Starts(seed, N) == DOMAIN seed \subseteq 1..N /\ \A x \in DOMAIN seed : seed[x] \in Nat

\* The edges that shorten the way to their ends, and where they lead.
Out(t, edge, u) ==
  {e \in edge : /\ e.from = u /\ e.to \notin t.done
                /\ e.to \in DOMAIN t.dist => t.dist[u] + e.w < t.dist[e.to]}
Ends(out) == {e.to : e \in out}
Best(out, x) == CHOOSE e \in out : e.to = x /\ \A f \in out : f.to = x => e.w <= f.w

LEMMA BestIs ==
  ASSUME NEW out, \A e \in out : e.w \in Nat, NEW x \in Ends(out)
  PROVE  /\ Best(out, x) \in out /\ Best(out, x).to = x
         /\ \A f \in out : f.to = x => Best(out, x).w <= f.w
<1> DEFINE W == {e.w : e \in {f \in out : f.to = x}}
<1>1. W \in SUBSET Nat /\ W # {}
  BY DEF Ends
<1>2. PICK m \in W : \A n \in W : m <= n
  <2> HIDE DEF W
  <2> QED
    BY <1>1, LeastNatural
<1>3. PICK e \in out : e.to = x /\ e.w = m
  OBVIOUS
<1>4. \A f \in out : f.to = x => e.w <= f.w
  BY <1>2, <1>3
<1> QED
  BY <1>3, <1>4 DEF Best

\* What settling u does to the distances and the tree.
LEMMA RelaxIs ==
  ASSUME NEW t, NEW edge, NEW u, \A e \in edge : e.w \in Nat
  PROVE  LET r   == Relax(t, edge, u)
             out == Out(t, edge, u)
         IN  /\ r = [done |-> r.done, dist |-> r.dist, via |-> r.via]
             /\ r.done = t.done \cup {u}
             /\ DOMAIN r.dist = DOMAIN t.dist \cup Ends(out)
             /\ DOMAIN r.via = DOMAIN t.via \cup Ends(out)
             /\ \A x \in Ends(out) :
                  /\ r.via[x] \in out /\ r.via[x].to = x
                  /\ r.dist[x] = t.dist[u] + r.via[x].w
                  /\ \A f \in out : f.to = x => r.via[x].w <= f.w
             /\ \A x \in DOMAIN t.dist \ Ends(out) : r.dist[x] = t.dist[x]
             /\ \A x \in DOMAIN t.via \ Ends(out) : r.via[x] = t.via[x]
<1> DEFINE out == Out(t, edge, u)
           via == [x \in Ends(out) |-> Best(out, x)]
           d   == [x \in DOMAIN via |-> t.dist[u] + via[x].w]
           r   == [done |-> t.done \cup {u}, dist |-> Over(d, t.dist), via |-> Over(via, t.via)]
<1>1. Relax(t, edge, u) = r
  BY Zenon DEF Relax, Out, Ends, Best
<1>2. \A e \in out : e.w \in Nat
  BY DEF Out
<1> HIDE DEF out
<1>3. \A x \in Ends(out) : /\ via[x] \in out /\ via[x].to = x
                           /\ \A f \in out : f.to = x => via[x].w <= f.w
  BY <1>2, BestIs
<1>4. DOMAIN via = Ends(out) /\ DOMAIN d = Ends(out)
      /\ \A x \in Ends(out) : d[x] = t.dist[u] + via[x].w
  OBVIOUS
<1> HIDE DEF via, d
<1>5. /\ DOMAIN Over(d, t.dist) = DOMAIN t.dist \cup Ends(out)
      /\ \A x \in Ends(out) : Over(d, t.dist)[x] = d[x]
      /\ \A x \in DOMAIN t.dist \ Ends(out) : Over(d, t.dist)[x] = t.dist[x]
  BY <1>4 DEF Over
<1>6. /\ DOMAIN Over(via, t.via) = DOMAIN t.via \cup Ends(out)
      /\ \A x \in Ends(out) : Over(via, t.via)[x] = via[x]
      /\ \A x \in DOMAIN t.via \ Ends(out) : Over(via, t.via)[x] = t.via[x]
  BY <1>4 DEF Over
<1>7. r.done = t.done \cup {u} /\ r.dist = Over(d, t.dist) /\ r.via = Over(via, t.via)
      /\ r = [done |-> r.done, dist |-> r.dist, via |-> r.via]
  OBVIOUS
<1> HIDE DEF r
<1> QED
  BY <1>1, <1>3, <1>4, <1>5, <1>6, <1>7 DEF out

----------------------------------------------------------------------------
(***************************************************************************)
(* What the search knows after k steps.                                    *)
(***************************************************************************)

Open(t) == DOMAIN t.dist \ t.done
Nearest(t) == CHOOSE n \in Open(t) : \A m \in Open(t) : t.dist[n] <= t.dist[m]

\* Distances and the forest that gives them, with the starts that nothing
\* shortened as its roots; a node enters it after the one it hangs on was settled.
TreeInv(t, edge, N, seed) ==
  /\ t = [done |-> t.done, dist |-> t.dist, via |-> t.via]
  /\ t.done \subseteq DOMAIN t.dist /\ DOMAIN t.dist \subseteq 1..N
  /\ DOMAIN seed \subseteq DOMAIN t.dist /\ DOMAIN t.via \subseteq DOMAIN t.dist
  /\ \A x \in DOMAIN t.dist : t.dist[x] \in Nat
  /\ \A x \in DOMAIN seed : t.dist[x] <= seed[x]
  /\ \A x \in DOMAIN t.dist \ DOMAIN t.via : x \in DOMAIN seed /\ t.dist[x] = seed[x]
  /\ \A x \in DOMAIN t.via :
       /\ t.via[x] \in edge /\ t.via[x].to = x /\ t.via[x].from \in t.done
       /\ t.dist[x] = t.dist[t.via[x].from] + t.via[x].w

\* The settled nodes are the nearest, and their edges were all tried.
SettledInv(t, edge, stop) ==
  /\ \A u \in t.done, x \in DOMAIN t.dist \ t.done : t.dist[u] <= t.dist[x]
  /\ \A e \in edge : e.from \in t.done /\ e.from # stop =>
       e.to \in DOMAIN t.dist /\ t.dist[e.to] <= t.dist[e.from] + e.w

\* The depth of a node in the tree.
Depths(t, k) ==
  {r \in [DOMAIN t.dist -> 0..k] : \A x \in DOMAIN t.via : r[t.via[x].from] < r[x]}

Ended(t, stop) == Open(t) = {} \/ stop \in t.done

SearchInv(t, edge, N, seed, stop, k) ==
  /\ TreeInv(t, edge, N, seed)
  /\ SettledInv(t, edge, stop)
  /\ Depths(t, k) # {}
  /\ Ended(t, stop) \/ Cardinality(t.done) = k

LEMMA NearestIs ==
  ASSUME NEW t, Open(t) # {}, \A x \in DOMAIN t.dist : t.dist[x] \in Nat
  PROVE  Nearest(t) \in Open(t) /\ \A m \in Open(t) : t.dist[Nearest(t)] <= t.dist[m]
<1> DEFINE W == {t.dist[x] : x \in Open(t)}
<1>1. W \in SUBSET Nat /\ W # {}
  BY DEF Open
<1>2. PICK m \in W : \A n \in W : m <= n
  <2> HIDE DEF W
  <2> QED
    BY <1>1, LeastNatural
<1>3. PICK n \in Open(t) : t.dist[n] = m
  OBVIOUS
<1>4. \A x \in Open(t) : t.dist[n] <= t.dist[x]
  BY <1>2, <1>3
<1> QED
  BY <1>3, <1>4 DEF Nearest

\* Settling the nearest open node.
LEMMA RelaxKeeps ==
  ASSUME NEW N \in Nat, NEW edge, Joins(edge, N), NEW seed, Starts(seed, N), NEW stop, NEW k \in Nat,
         NEW t, SearchInv(t, edge, N, seed, stop, k), ~Ended(t, stop),
         NEW u, u = Nearest(t)
  PROVE  SearchInv(Relax(t, edge, u), edge, N, seed, stop, k + 1)
<1> DEFINE r   == Relax(t, edge, u)
           out == Out(t, edge, u)
<1>0. /\ \A e \in edge : e.from \in 1..N /\ e.to \in 1..N /\ e.w \in Nat
      /\ u \in DOMAIN t.dist /\ u \notin t.done
      /\ \A m \in Open(t) : t.dist[u] <= t.dist[m]
  BY NearestIs DEF SearchInv, Joins, TreeInv, Open, Ended
<1>1. /\ r = [done |-> r.done, dist |-> r.dist, via |-> r.via]
      /\ r.done = t.done \cup {u}
      /\ DOMAIN r.dist = DOMAIN t.dist \cup Ends(out)
      /\ DOMAIN r.via = DOMAIN t.via \cup Ends(out)
      /\ \A x \in Ends(out) :
           /\ r.via[x] \in out /\ r.via[x].to = x
           /\ r.dist[x] = t.dist[u] + r.via[x].w
           /\ \A f \in out : f.to = x => r.via[x].w <= f.w
      /\ \A x \in DOMAIN t.dist \ Ends(out) : r.dist[x] = t.dist[x]
      /\ \A x \in DOMAIN t.via \ Ends(out) : r.via[x] = t.via[x]
  BY <1>0, RelaxIs
<1> HIDE DEF r
<1>2. /\ \A e \in out : /\ e \in edge /\ e.from = u /\ e.to \notin t.done /\ e.w \in Nat
                        /\ e.to \in DOMAIN t.dist => t.dist[u] + e.w < t.dist[e.to]
      /\ \A x \in Ends(out) : \E e \in out : e.to = x
  BY <1>0 DEF Out, Ends
<1>3. \A x \in Ends(out) : x \in 1..N /\ x \notin t.done /\ x # u
  <2> TAKE x \in Ends(out)
  <2>1. PICK e \in out : e.to = x
    BY <1>2
  <2>2. x \in 1..N /\ x \notin t.done
    BY <1>0, <1>2, <2>1
  <2>3. \A y \in DOMAIN t.dist : t.dist[y] \in Nat
    BY DEF SearchInv, TreeInv
  <2>6. x # u
    BY <1>0, <1>2, <2>1, <2>3
  <2> QED
    BY <2>2, <2>6
<1>4. \A x \in r.done : r.dist[x] = t.dist[x] /\ x \in DOMAIN t.dist
  BY <1>0, <1>1, <1>3 DEF SearchInv, TreeInv
<1>5. TreeInv(r, edge, N, seed)
  <2>1. r.done \subseteq DOMAIN r.dist /\ DOMAIN r.dist \subseteq 1..N
    BY <1>0, <1>1, <1>3 DEF SearchInv, TreeInv
  <2>2. DOMAIN seed \subseteq DOMAIN r.dist /\ DOMAIN r.via \subseteq DOMAIN r.dist
    BY <1>1 DEF SearchInv, TreeInv
  <2>3. ASSUME NEW x \in DOMAIN r.dist \ DOMAIN r.via
        PROVE  x \in DOMAIN seed /\ r.dist[x] = seed[x]
    BY <1>1 DEF SearchInv, TreeInv
  <2>6. ASSUME NEW x \in DOMAIN seed
        PROVE  r.dist[x] <= seed[x]
    <3>1. x \in DOMAIN t.dist /\ t.dist[x] <= seed[x] /\ t.dist[x] \in Nat /\ seed[x] \in Nat
      BY DEF SearchInv, TreeInv, Starts
    <3>2. CASE x \in Ends(out)
      <4>1. PICK e \in out : e.to = x
        BY <1>2, <3>2
      <4>2. r.via[x].w <= e.w /\ r.via[x].w \in Nat /\ e.w \in Nat
            /\ r.dist[x] = t.dist[u] + r.via[x].w
        BY <1>1, <1>2, <3>2, <4>1
      <4>3. t.dist[u] + e.w < t.dist[x] /\ t.dist[u] \in Nat
        BY <1>0, <1>2, <3>1, <4>1 DEF SearchInv, TreeInv
      <4> QED
        BY <3>1, <4>2, <4>3
    <3>3. CASE x \notin Ends(out)
      BY <1>1, <3>1, <3>3
    <3> QED
      BY <3>2, <3>3
  <2>4. ASSUME NEW x \in DOMAIN r.dist
        PROVE  r.dist[x] \in Nat
    BY <1>0, <1>1, <1>2 DEF SearchInv, TreeInv
  <2>5. ASSUME NEW x \in DOMAIN r.via
        PROVE  /\ r.via[x] \in edge /\ r.via[x].to = x /\ r.via[x].from \in r.done
               /\ r.dist[x] = r.dist[r.via[x].from] + r.via[x].w
    <3>1. CASE x \in Ends(out)
      BY <1>1, <1>2, <1>4, <3>1
    <3>2. CASE x \notin Ends(out)
      <4>1. x \in DOMAIN t.via /\ x \in DOMAIN t.dist
        BY <1>1, <3>2, <2>5 DEF SearchInv, TreeInv
      <4>2. /\ t.via[x] \in edge /\ t.via[x].to = x /\ t.via[x].from \in t.done
            /\ t.dist[x] = t.dist[t.via[x].from] + t.via[x].w
        BY <4>1 DEF SearchInv, TreeInv
      <4>3. r.via[x] = t.via[x] /\ r.dist[x] = t.dist[x]
        BY <1>1, <3>2, <4>1
      <4> QED
        BY <1>1, <1>4, <4>2, <4>3
    <3> QED
      BY <3>1, <3>2
  <2> QED
    BY <1>1, <2>1, <2>2, <2>3, <2>4, <2>5, <2>6 DEF TreeInv
<1>6. ASSUME NEW v \in r.done, NEW x \in DOMAIN r.dist \ r.done
      PROVE  r.dist[v] <= r.dist[x]
  <2>1. r.dist[v] = t.dist[v] /\ t.dist[v] \in Nat /\ t.dist[u] \in Nat
    BY <1>0, <1>4 DEF SearchInv, TreeInv
  <2>2. t.dist[v] <= t.dist[u]
    BY <1>0, <1>1, <2>1 DEF SearchInv, SettledInv
  <2>3. CASE x \in Ends(out)
    BY <1>1, <1>2, <2>1, <2>2, <2>3
  <2>4. CASE x \notin Ends(out)
    <3>1. x \in Open(t) /\ r.dist[x] = t.dist[x] /\ t.dist[x] \in Nat
      BY <1>1, <2>4 DEF Open, SearchInv, TreeInv
    <3> QED
      BY <1>0, <2>1, <2>2, <3>1
  <2> QED
    BY <2>3, <2>4
<1>7. ASSUME NEW e \in edge, e.from \in r.done, e.from # stop
      PROVE  e.to \in DOMAIN r.dist /\ r.dist[e.to] <= r.dist[e.from] + e.w
  <2>0. /\ \A x \in DOMAIN t.dist : t.dist[x] \in Nat
        /\ e.w \in Nat /\ r.dist[e.from] = t.dist[e.from] /\ e.from \in DOMAIN t.dist
    BY <1>0, <1>4, <1>7 DEF SearchInv, TreeInv
  <2>1. CASE e.from = u
    <3>1. CASE e \in out
      <4>1. e.to \in Ends(out)
        BY <3>1 DEF Ends
      <4>2. r.via[e.to].w <= e.w /\ r.via[e.to].w \in Nat
        BY <1>1, <1>2, <3>1, <4>1
      <4> QED
        BY <1>1, <2>0, <2>1, <4>1, <4>2
    <3>2. CASE e \notin out /\ e.to \in t.done
      <4>1. t.dist[e.to] <= t.dist[u]
        BY <1>0, <3>2 DEF SearchInv, SettledInv
      <4>2. e.to \in DOMAIN r.dist /\ r.dist[e.to] = t.dist[e.to] /\ e.to \in DOMAIN t.dist
        BY <1>1, <1>4, <3>2 DEF SearchInv, TreeInv
      <4> QED
        BY <1>0, <2>0, <2>1, <4>1, <4>2
    <3>3. CASE e \notin out /\ e.to \notin t.done
      <4>1. e.to \in DOMAIN t.dist /\ t.dist[e.to] <= t.dist[u] + e.w
        BY <1>0, <2>0, <2>1, <3>3 DEF Out
      <4>2. e.to \in DOMAIN r.dist /\ r.dist[e.to] <= t.dist[e.to]
        <5>1. CASE e.to \in Ends(out)
          <6>1. PICK f \in out : f.to = e.to
            BY <1>2, <5>1
          <6>2. t.dist[u] + f.w < t.dist[e.to] /\ r.via[e.to].w <= f.w
                /\ r.via[e.to].w \in Nat /\ f.w \in Nat
            BY <1>1, <1>2, <4>1, <5>1, <6>1
          <6> QED
            BY <1>0, <1>1, <2>0, <4>1, <5>1, <6>2
        <5>2. CASE e.to \notin Ends(out)
          BY <1>1, <2>0, <4>1, <5>2
        <5> QED
          BY <5>1, <5>2
      <4>3. r.dist[e.to] \in Nat
        BY <1>5, <4>2 DEF TreeInv
      <4> QED
        BY <1>0, <2>0, <2>1, <4>1, <4>2, <4>3
    <3> QED
      BY <3>1, <3>2, <3>3
  <2>2. CASE e.from # u
    <3>1. e.from \in t.done
      BY <1>1, <1>7, <2>2
    <3>2. e.to \in DOMAIN t.dist /\ t.dist[e.to] <= t.dist[e.from] + e.w
      BY <1>7, <3>1 DEF SearchInv, SettledInv
    <3>3. e.to \in DOMAIN r.dist /\ r.dist[e.to] <= t.dist[e.to]
      <4>1. CASE e.to \in Ends(out)
        <5>1. PICK f \in out : f.to = e.to
          BY <1>2, <4>1
        <5>2. t.dist[u] + f.w < t.dist[e.to] /\ r.via[e.to].w <= f.w
              /\ r.via[e.to].w \in Nat /\ f.w \in Nat
          BY <1>1, <1>2, <3>2, <4>1, <5>1
        <5> QED
          BY <1>0, <1>1, <2>0, <3>2, <4>1, <5>2
      <4>2. CASE e.to \notin Ends(out)
        BY <1>1, <2>0, <3>2, <4>2
      <4> QED
        BY <4>1, <4>2
    <3>4. r.dist[e.to] \in Nat
      BY <1>5, <3>3 DEF TreeInv
    <3> QED
      BY <2>0, <3>2, <3>3, <3>4
  <2> QED
    BY <2>1, <2>2
<1>8. Depths(r, k + 1) # {}
  <2>1. PICK d \in Depths(t, k) : TRUE
    BY DEF SearchInv
  <2> DEFINE h == [x \in DOMAIN r.dist |-> IF x \in Ends(out) THEN d[u] + 1 ELSE d[x]]
  <2>2. \A x \in DOMAIN t.dist : d[x] \in 0..k
    BY <2>1 DEF Depths
  <2>3. h \in [DOMAIN r.dist -> 0..k + 1]
    <3>1. \A x \in DOMAIN r.dist :
            (IF x \in Ends(out) THEN d[u] + 1 ELSE d[x]) \in 0..k + 1
      <4> TAKE x \in DOMAIN r.dist
      <4>1. d[u] + 1 \in 0..k + 1
        BY <1>0, <2>2
      <4>2. x \notin Ends(out) => d[x] \in 0..k + 1
        BY <1>1, <2>2
      <4> QED
        BY <4>1, <4>2
    <3> QED
      BY <3>1
  <2>4. ASSUME NEW x \in DOMAIN r.via
        PROVE  h[r.via[x].from] < h[x]
    <3>0. x \in DOMAIN r.dist /\ r.via[x].from \in r.done /\ r.via[x].from \in DOMAIN r.dist
      BY <1>5 DEF TreeInv
    <3>1. r.via[x].from \notin Ends(out)
      BY <1>1, <1>3, <3>0
    <3>2. CASE x \in Ends(out)
      <4>1. r.via[x].from = u /\ d[u] \in 0..k
        BY <1>0, <1>1, <1>2, <2>2, <3>2
      <4> QED
        BY <3>0, <3>1, <3>2, <4>1
    <3>3. CASE x \notin Ends(out)
      <4>1. x \in DOMAIN t.via /\ r.via[x] = t.via[x]
        BY <1>1, <3>3
      <4>2. d[t.via[x].from] < d[x]
        BY <2>1, <4>1 DEF Depths
      <4> QED
        BY <3>0, <3>1, <3>3, <4>1, <4>2
    <3> QED
      BY <3>2, <3>3
  <2> HIDE DEF h
  <2>5. h \in Depths(r, k + 1)
    BY <2>3, <2>4 DEF Depths
  <2> QED
    BY <2>5
<1>9. Cardinality(r.done) = k + 1
  <2>1. IsFiniteSet(t.done)
    <3>1. IsFiniteSet(1..N)
      BY FS_Interval
    <3>2. t.done \subseteq 1..N
      BY DEF SearchInv, TreeInv
    <3> QED
      BY <3>1, <3>2, FS_Subset
  <2>2. Cardinality(t.done) = k
    BY DEF SearchInv
  <2>3. Cardinality(t.done \cup {u}) = Cardinality(t.done) + 1
    BY <1>0, <2>1, FS_AddElement
  <2> QED
    BY <1>1, <2>2, <2>3
<1>10. SettledInv(r, edge, stop)
  BY <1>6, <1>7 DEF SettledInv
<1>11. SearchInv(r, edge, N, seed, stop, k + 1)
  BY <1>5, <1>8, <1>9, <1>10 DEF SearchInv
<1> QED
  BY <1>11 DEF r

----------------------------------------------------------------------------
(***************************************************************************)
(* The whole search.                                                       *)
(***************************************************************************)

SearchStep(t, edge, stop) ==
  IF Open(t) = {} \/ stop \in t.done THEN t
  ELSE IF Nearest(t) = stop THEN [t EXCEPT !.done = @ \cup {Nearest(t)}]
  ELSE Relax(t, edge, Nearest(t))

LEMMA StepKeeps ==
  ASSUME NEW N \in Nat, NEW edge, Joins(edge, N), NEW seed, Starts(seed, N), NEW stop, NEW k \in Nat,
         NEW t, SearchInv(t, edge, N, seed, stop, k)
  PROVE  SearchInv(SearchStep(t, edge, stop), edge, N, seed, stop, k + 1)
<1>1. Depths(t, k + 1) # {}
  <2>1. PICK d \in Depths(t, k) : TRUE
    BY DEF SearchInv
  <2>2. d \in Depths(t, k + 1)
    BY <2>1 DEF Depths
  <2> QED
    BY <2>2
<1>2. CASE Ended(t, stop)
  <2>1. SearchStep(t, edge, stop) = t
    BY <1>2 DEF SearchStep, Ended
  <2> QED
    BY <1>1, <1>2, <2>1 DEF SearchInv
<1>3. CASE ~Ended(t, stop) /\ Nearest(t) # stop
  <2>1. SearchStep(t, edge, stop) = Relax(t, edge, Nearest(t))
    BY <1>3 DEF SearchStep, Ended
  <2>2. SearchInv(Relax(t, edge, Nearest(t)), edge, N, seed, stop, k + 1)
    BY <1>3, RelaxKeeps
  <2> QED
    BY <2>1, <2>2
<1>4. CASE ~Ended(t, stop) /\ Nearest(t) = stop
  <2> DEFINE r == [done |-> t.done \cup {stop}, dist |-> t.dist, via |-> t.via]
  <2>1. SearchStep(t, edge, stop) = r
    <3>1. SearchStep(t, edge, stop) = [t EXCEPT !.done = @ \cup {stop}]
      BY <1>4 DEF SearchStep, Ended
    <3>2. t = [done |-> t.done, dist |-> t.dist, via |-> t.via]
      BY DEF SearchInv, TreeInv
    <3> QED
      BY <3>1, <3>2
  <2>2. r.done = t.done \cup {stop} /\ r.dist = t.dist /\ r.via = t.via
        /\ r = [done |-> r.done, dist |-> r.dist, via |-> r.via]
    OBVIOUS
  <2> HIDE DEF r
  <2>3. /\ stop \in DOMAIN t.dist /\ stop \notin t.done
        /\ \A m \in Open(t) : t.dist[stop] <= t.dist[m]
    BY <1>4, NearestIs DEF SearchInv, TreeInv, Open, Ended
  <2>4. TreeInv(r, edge, N, seed)
    BY <2>2, <2>3 DEF SearchInv, TreeInv
  <2>5. SettledInv(r, edge, stop)
    BY <2>2, <2>3 DEF SearchInv, SettledInv, Open
  <2>6. Depths(r, k + 1) = Depths(t, k + 1)
    BY <2>2 DEF Depths
  <2>7. Ended(r, stop)
    BY <2>2 DEF Ended
  <2> QED
    BY <1>1, <2>1, <2>4, <2>5, <2>6, <2>7 DEF SearchInv
<1> QED
  BY <1>2, <1>3, <1>4

Start(seed) == [done |-> {}, dist |-> seed, via |-> <<>>]

LEMMA StartIs ==
  ASSUME NEW N \in Nat, NEW edge, NEW seed, Starts(seed, N), NEW stop
  PROVE  SearchInv(Start(seed), edge, N, seed, stop, 0)
<1> DEFINE t == Start(seed)
<1>1. /\ t.done = {} /\ t.dist = seed /\ t.via = <<>>
      /\ t = [done |-> t.done, dist |-> t.dist, via |-> t.via]
  BY DEF Start
<1>2. DOMAIN <<>> = {}
  OBVIOUS
<1> HIDE DEF t
<1>3. TreeInv(t, edge, N, seed)
  BY <1>1, <1>2 DEF TreeInv, Starts
<1>4. SettledInv(t, edge, stop)
  BY <1>1 DEF SettledInv
<1>5. [x \in DOMAIN seed |-> 0] \in Depths(t, 0)
  BY <1>1, <1>2 DEF Depths
<1>6. Cardinality(t.done) = 0
  BY <1>1, FS_EmptySet
<1>7. SearchInv(t, edge, N, seed, stop, 0)
  BY <1>3, <1>4, <1>5, <1>6 DEF SearchInv
<1> QED
  BY <1>7 DEF t

SearchAt(f, edge, seed, stop, k) ==
  IF k = 0 THEN [done |-> {}, dist |-> seed, via |-> <<>>]
  ELSE SearchStep(f[k - 1], edge, stop)

\* The search comes to an end within as many steps as there are nodes.
LEMMA SearchEnds ==
  ASSUME NEW N \in Nat, NEW edge, Joins(edge, N), NEW seed, Starts(seed, N),
         NEW stop
  PROVE  LET t == ShortestTree(edge, N, seed, stop)
         IN  /\ TreeInv(t, edge, N, seed) /\ SettledInv(t, edge, stop)
             /\ Depths(t, N) # {} /\ Ended(t, stop)
<1> DEFINE Q == {n \in Nat : \E f : f = [k \in 0..n |-> SearchAt(f, edge, seed, stop, k)]}
           F == CHOOSE f : f = [k \in 0..N |-> SearchAt(f, edge, seed, stop, k)]
<1>1. ShortestTree(edge, N, seed, stop) = F[N]
  BY Zenon DEF ShortestTree, SearchAt, SearchStep, Open, Nearest
<1>2. 0 \in Q
  <2> DEFINE f == [k \in 0..0 |-> [done |-> {}, dist |-> seed, via |-> <<>>]]
  <2>1. f = [k \in 0..0 |-> SearchAt(f, edge, seed, stop, k)]
    BY DEF SearchAt
  <2> QED
    BY <2>1
<1>3. ASSUME NEW n \in Nat, n >= 0, n \in Q
      PROVE  n + 1 \in Q
  <2>1. PICK f : f = [k \in 0..n |-> SearchAt(f, edge, seed, stop, k)]
    BY <1>3
  <2> DEFINE g == [k \in 0..n + 1 |-> SearchAt(f, edge, seed, stop, k)]
  <2>2. \A k \in 0..n : g[k] = f[k]
    BY <2>1
  <2>3. \A k \in 0..n + 1 :
          SearchAt(g, edge, seed, stop, k) = SearchAt(f, edge, seed, stop, k)
    <3> TAKE k \in 0..n + 1
    <3>1. k # 0 => k - 1 \in 0..n
      OBVIOUS
    <3>2. k # 0 => g[k - 1] = f[k - 1]
      BY <2>2, <3>1
    <3> HIDE DEF g
    <3> QED
      BY <3>2, Zenon DEF SearchAt
  <2>4. g = [k \in 0..n + 1 |-> SearchAt(g, edge, seed, stop, k)]
    <3> DEFINE h == [k \in 0..n + 1 |-> SearchAt(g, edge, seed, stop, k)]
    <3>1. \A k \in 0..n + 1 : g[k] = h[k]
      <4> TAKE k \in 0..n + 1
      <4>1. g[k] = SearchAt(f, edge, seed, stop, k)
        OBVIOUS
      <4> HIDE DEF g
      <4> QED
        BY <2>3, <4>1
    <3>2. g = [k \in 0..n + 1 |-> g[k]]
      OBVIOUS
    <3>3. h = [k \in 0..n + 1 |-> h[k]]
      OBVIOUS
    <3> HIDE DEF g, h
    <3>4. g = h
      BY <3>1, <3>2, <3>3
    <3> QED
      BY <3>4 DEF h
  <2>5. \E h : h = [k \in 0..n + 1 |-> SearchAt(h, edge, seed, stop, k)]
    <3> HIDE DEF g
    <3> QED
      BY <2>4
  <2> QED
    BY <2>5
<1> HIDE DEF Q
<1>4. N \in Q
  BY <1>2, <1>3, UpwardInduction
<1>5. F = [k \in 0..N |-> SearchAt(F, edge, seed, stop, k)]
  BY <1>4, Zenon DEF Q
<1> HIDE DEF F
<1> DEFINE R == {n \in Nat : n <= N => SearchInv(F[n], edge, N, seed, stop, n)}
<1>6. 0 \in R
  <2>1. F[0] = Start(seed)
    BY <1>5 DEF SearchAt, Start
  <2> QED
    BY <2>1, StartIs
<1>7. ASSUME NEW n \in Nat, n >= 0, n \in R
      PROVE  n + 1 \in R
  <2> SUFFICES ASSUME n + 1 <= N
               PROVE  SearchInv(F[n + 1], edge, N, seed, stop, n + 1)
    OBVIOUS
  <2>1. F[n + 1] = SearchAt(F, edge, seed, stop, n + 1)
    BY <1>5
  <2>2. n + 1 # 0 /\ (n + 1) - 1 = n
    OBVIOUS
  <2>3. F[n + 1] = SearchStep(F[n], edge, stop)
    BY <2>1, <2>2 DEF SearchAt
  <2>4. SearchInv(F[n], edge, N, seed, stop, n)
    BY <1>7
  <2> HIDE DEF R
  <2> QED
    BY <2>3, <2>4, StepKeeps
<1> HIDE DEF R
<1>8. N \in R
  BY <1>6, <1>7, UpwardInduction
<1> DEFINE t == F[N]
<1>9. SearchInv(t, edge, N, seed, stop, N)
  BY <1>8 DEF R
<1> HIDE DEF t
<1>10. Ended(t, stop)
  <2>1. ASSUME Cardinality(t.done) = N
        PROVE  Open(t) = {}
    <3>1. IsFiniteSet(1..N) /\ Cardinality(1..N) = N
      BY FS_Interval
    <3>2. t.done \subseteq 1..N /\ DOMAIN t.dist \subseteq 1..N
      BY <1>9 DEF SearchInv, TreeInv
    <3>3. t.done = 1..N
      BY <2>1, <3>1, <3>2, FS_Subset
    <3> QED
      BY <3>2, <3>3 DEF Open
  <2> QED
    BY <1>9, <2>1 DEF SearchInv, Ended
<1>11. TreeInv(t, edge, N, seed) /\ SettledInv(t, edge, stop) /\ Depths(t, N) # {}
  BY <1>9 DEF SearchInv
<1>12. ShortestTree(edge, N, seed, stop) = t
  BY <1>1 DEF t
<1> QED
  BY <1>10, <1>11, <1>12

\* What holds of the roots, and of a node when it holds of the one it hangs on,
\* holds of all that was reached.
LEMMA TreeInduction ==
  ASSUME NEW N \in Nat, NEW edge, NEW seed, NEW t, TreeInv(t, edge, N, seed),
         Depths(t, N) # {}, NEW Q, \A x \in DOMAIN t.dist \ DOMAIN t.via : x \in Q,
         \A x \in DOMAIN t.via : t.via[x].from \in Q => x \in Q
  PROVE  \A x \in DOMAIN t.dist : x \in Q
<1>1. PICK r \in Depths(t, N) : TRUE
  OBVIOUS
<1>2. \A x \in DOMAIN t.dist : r[x] \in 0..N
  BY <1>1 DEF Depths
<1>3. \A x \in DOMAIN t.via : /\ t.via[x].from \in DOMAIN t.dist /\ x \in DOMAIN t.dist
                              /\ r[t.via[x].from] < r[x]
  BY <1>1 DEF Depths, TreeInv
<1> DEFINE P == {k \in Nat : \A x \in DOMAIN t.dist : r[x] <= k => x \in Q}
<1>4. 0 \in P
  BY <1>2, <1>3
<1>5. ASSUME NEW k \in Nat, k >= 0, k \in P
      PROVE  k + 1 \in P
  <2> SUFFICES ASSUME NEW x \in DOMAIN t.dist, r[x] <= k + 1, x \in DOMAIN t.via
               PROVE  x \in Q
    OBVIOUS
  <2>1. r[t.via[x].from] <= k
    BY <1>2, <1>3
  <2> QED
    BY <1>3, <1>5, <2>1
<1> HIDE DEF P
<1>6. N \in P
  BY <1>4, <1>5, UpwardInduction
<1> QED
  BY <1>2, <1>6 DEF P

----------------------------------------------------------------------------
(***************************************************************************)
(* The way to a node.                                                      *)
(***************************************************************************)

LEMMA CostEmpty == Cost(<<>>) = 0
<1>1. DOMAIN [i \in DOMAIN <<>> |-> <<>>[i].w] = {}
  OBVIOUS
<1> QED
  BY <1>1, SumEmpty DEF Cost, SumFunction

LEMMA CostNatural ==
  ASSUME NEW edge, \A e \in edge : e.w \in Nat, NEW p \in Seq(edge)
  PROVE  Cost(p) \in Nat
<1> DEFINE f == [i \in DOMAIN p |-> p[i].w]
<1>1. DOMAIN f = 1..Len(p) /\ Len(p) \in Nat /\ \A i \in 1..Len(p) : f[i] \in Nat
  OBVIOUS
<1>2. IsFiniteSet(1..Len(p))
  BY <1>1, FS_Interval
<1>3. Cost(p) = SumFunctionOnSet(f, DOMAIN f)
  BY Zenon DEF Cost, SumFunction
<1> HIDE DEF f
<1> QED
  BY <1>1, <1>2, <1>3, SumNat

LEMMA CostAppend ==
  ASSUME NEW edge, \A e \in edge : e.w \in Nat,
         NEW p \in Seq(edge), NEW e \in edge
  PROVE  Cost(p) \in Nat /\ Cost(Append(p, e)) = Cost(p) + e.w
<1> DEFINE q == Append(p, e)
           n == Len(p)
           f == [i \in DOMAIN p |-> p[i].w]
           g == [i \in DOMAIN q |-> q[i].w]
<1>1. /\ n \in Nat /\ DOMAIN p = 1..n /\ DOMAIN q = (1..n) \cup {n + 1}
      /\ q[n + 1] = e /\ \A i \in 1..n : q[i] = p[i] /\ p[i] \in edge
  BY AppendProperties
<1>2. /\ DOMAIN f = 1..n /\ DOMAIN g = (1..n) \cup {n + 1}
      /\ g[n + 1] = e.w /\ \A i \in 1..n : f[i] = g[i] /\ g[i] \in Nat
  BY <1>1
<1>3. Cost(p) = SumFunctionOnSet(f, 1..n) /\ Cost(q) = SumFunctionOnSet(g, (1..n) \cup {n + 1})
  <2>1. Cost(p) = SumFunctionOnSet(f, DOMAIN f) /\ Cost(q) = SumFunctionOnSet(g, DOMAIN g)
    BY Zenon DEF Cost, SumFunction
  <2> HIDE DEF f, g
  <2> QED
    BY <1>2, <2>1
<1> HIDE DEF f, g, q
<1>4. IsFiniteSet(1..n) /\ n + 1 \notin 1..n
  BY <1>1, FS_Interval
<1>5. SumFunctionOnSet(f, 1..n) = SumFunctionOnSet(g, 1..n)
  BY <1>2, <1>4, SumSame
<1>6. \A i \in (1..n) \cup {n + 1} : g[i] \in Nat
  BY <1>2
<1>7. SumFunctionOnSet(g, (1..n) \cup {n + 1}) = SumFunctionOnSet(g, 1..n) + g[n + 1]
  BY <1>4, <1>6, SumAdd, ZenonT(30)
<1>8. SumFunctionOnSet(f, 1..n) \in Nat
  BY <1>2, <1>4, SumNat
<1> QED
  BY <1>2, <1>3, <1>5, <1>7, <1>8 DEF q

WayStep(f, t, m) ==
  IF m \notin DOMAIN t.via THEN <<>> ELSE Append(f[t.via[m].from], t.via[m])

\* Edges that lead from node x to node n, each from where the one before ends.
Leading(p, x, n) ==
  IF p = <<>> THEN x = n
  ELSE /\ p[1].from = x /\ p[Len(p)].to = n
       /\ \A i \in 1..Len(p) - 1 : p[i].to = p[i + 1].from

\* They go on leading with one more.
LEMMA LeadingOn ==
  ASSUME NEW edge, NEW p \in Seq(edge), NEW e \in edge, NEW x, Leading(p, x, e.from)
  PROVE  Leading(Append(p, e), x, e.to)
<1> DEFINE q == Append(p, e)
           n == Len(p)
<1>1. /\ n \in Nat /\ Len(q) = n + 1 /\ q[n + 1] = e /\ \A i \in 1..n : q[i] = p[i]
      /\ p = <<>> <=> n = 0
  BY AppendProperties, EmptySeq
<1> HIDE DEF q
<1>2. CASE p = <<>>
  BY <1>1, <1>2, EmptySeq DEF Leading, q
<1>3. CASE p # <<>>
  <2>1. p[1].from = x /\ p[n].to = e.from /\ \A i \in 1..n - 1 : p[i].to = p[i + 1].from
    BY <1>3 DEF Leading
  <2> HIDE DEF n
  <2>2. n \in 1..n /\ 1 \in 1..n
    BY <1>1, <1>3
  <2>3. ASSUME NEW i \in 1..(n + 1) - 1
        PROVE  q[i].to = q[i + 1].from
    <3>1. i \in 1..n
      BY <1>1
    <3>2. CASE i = n
      BY <1>1, <2>1, <2>2, <3>2
    <3>3. CASE i # n
      <4>1. i \in 1..n - 1 /\ i + 1 \in 1..n
        BY <1>1, <3>1, <3>3
      <4> QED
        BY <1>1, <2>1, <3>1, <4>1
    <3> QED
      BY <3>2, <3>3
  <2>4. q # <<>> /\ q[1].from = x /\ q[Len(q)].to = e.to
    BY <1>1, <2>1, <2>2, EmptySeq
  <2> QED
    BY <1>1, <2>3, <2>4 DEF Leading, q
<1> QED
  BY <1>2, <1>3

\* The edges up the tree lead to the node, from the start that the way begins at,
\* and are as long together as the distance says.
LEMMA WayIs ==
  ASSUME NEW N \in Nat, NEW edge, Joins(edge, N), NEW seed, Starts(seed, N),
         NEW t, TreeInv(t, edge, N, seed), Depths(t, N) # {}, NEW n \in DOMAIN t.dist
  PROVE  /\ PathTo(t, n) \in Seq(edge)
         /\ \E x \in DOMAIN seed : /\ t.dist[n] = seed[x] + Cost(PathTo(t, n))
                                  /\ Leading(PathTo(t, n), x, n)
<1> DEFINE D == DOMAIN t.dist
           F == CHOOSE f : f = [m \in D |-> WayStep(f, t, m)]
<1>1. PathTo(t, n) = F[n]
  BY Zenon DEF PathTo, WayStep
<1>2. PICK r \in Depths(t, N) : TRUE
  OBVIOUS
<1>3. \A m \in D : r[m] \in 0..N
  BY <1>2 DEF Depths
<1>4. \A m \in DOMAIN t.via : /\ m \in D /\ t.via[m].from \in D
                              /\ r[t.via[m].from] < r[m]
  BY <1>2 DEF Depths, TreeInv
<1> HIDE DEF F, D
<1> DEFINE Upto(k) == {m \in D : r[m] <= k}
           Q == {k \in Nat : \E f : f = [m \in Upto(k) |-> WayStep(f, t, m)]}
<1>5. 0 \in Q
  <2> DEFINE f == [m \in Upto(0) |-> <<>>]
  <2>1. \A m \in Upto(0) : m \notin DOMAIN t.via
    BY <1>3, <1>4
  <2>2. f = [m \in Upto(0) |-> WayStep(f, t, m)]
    <3>1. \A m \in Upto(0) : WayStep(f, t, m) = <<>>
      BY <2>1 DEF WayStep
    <3> HIDE DEF Upto
    <3> QED
      BY <3>1
  <2>3. \E h : h = [m \in Upto(0) |-> WayStep(h, t, m)]
    <3> HIDE DEF f
    <3> QED
      BY <2>2
  <2> QED
    BY <2>3
<1>6. ASSUME NEW k \in Nat, k >= 0, k \in Q
      PROVE  k + 1 \in Q
  <2>1. PICK f : f = [m \in Upto(k) |-> WayStep(f, t, m)]
    BY <1>6
  <2> DEFINE g == [m \in Upto(k + 1) |-> WayStep(f, t, m)]
  <2>2. \A m \in Upto(k) : m \in Upto(k + 1)
    BY <1>3
  <2>3. \A m \in Upto(k) : g[m] = f[m]
    <3> HIDE DEF Upto
    <3> QED
      BY <2>1, <2>2
  <2>4. \A m \in Upto(k + 1) : m \in DOMAIN t.via => t.via[m].from \in Upto(k)
    BY <1>3, <1>4
  <2> HIDE DEF Upto
  <2>5. \A m \in Upto(k + 1) : WayStep(g, t, m) = WayStep(f, t, m)
    <3> TAKE m \in Upto(k + 1)
    <3>1. m \in DOMAIN t.via => g[t.via[m].from] = f[t.via[m].from]
      BY <2>3, <2>4
    <3> HIDE DEF g
    <3> QED
      BY <3>1, Zenon DEF WayStep
  <2>6. g = [m \in Upto(k + 1) |-> WayStep(g, t, m)]
    <3> DEFINE h == [m \in Upto(k + 1) |-> WayStep(g, t, m)]
    <3>1. \A m \in Upto(k + 1) : g[m] = h[m]
      <4> TAKE m \in Upto(k + 1)
      <4>1. g[m] = WayStep(f, t, m)
        OBVIOUS
      <4> HIDE DEF g
      <4> QED
        BY <2>5, <4>1
    <3>2. g = [m \in Upto(k + 1) |-> g[m]]
      OBVIOUS
    <3>3. h = [m \in Upto(k + 1) |-> h[m]]
      OBVIOUS
    <3> HIDE DEF g, h
    <3>4. g = h
      BY <3>1, <3>2, <3>3
    <3> QED
      BY <3>4 DEF h
  <2>7. \E h : h = [m \in Upto(k + 1) |-> WayStep(h, t, m)]
    <3> HIDE DEF g
    <3> QED
      BY <2>6
  <2> QED
    BY <2>7
<1> HIDE DEF Q
<1>7. N \in Q
  BY <1>5, <1>6, UpwardInduction
<1>8. F = [m \in D |-> WayStep(F, t, m)]
  <2>1. Upto(N) = D
    BY <1>3
  <2> HIDE DEF Upto
  <2>2. \E f : f = [m \in D |-> WayStep(f, t, m)]
    BY <1>7, <2>1 DEF Q
  <2> QED
    BY <2>2, Zenon DEF F
<1> HIDE DEF Upto
<1> DEFINE P == {m \in D : F[m] \in Seq(edge) /\ \E x \in DOMAIN seed :
                   t.dist[m] = seed[x] + Cost(F[m]) /\ Leading(F[m], x, m)}
<1>9. ASSUME NEW m \in DOMAIN t.dist \ DOMAIN t.via
      PROVE  m \in P
  <2>1. m \in DOMAIN seed /\ t.dist[m] = seed[m] /\ seed[m] \in Nat /\ m \in D
    BY DEF TreeInv, Starts, D
  <2>2. F[m] = <<>>
    <3>1. F[m] = WayStep(F, t, m)
      BY <1>8, <2>1
    <3> QED
      BY <3>1 DEF WayStep
  <2>3. F[m] \in Seq(edge)
    BY <2>2
  <2>4. t.dist[m] = seed[m] + Cost(F[m]) /\ Leading(F[m], m, m)
    BY <2>1, <2>2, CostEmpty DEF Leading
  <2> QED
    BY <2>1, <2>3, <2>4
<1>10. ASSUME NEW m \in DOMAIN t.via, t.via[m].from \in P
       PROVE  m \in P
  <2> DEFINE e == t.via[m]
             p == F[e.from]
  <2>1. F[m] = Append(p, e)
    <3>1. F[m] = WayStep(F, t, m)
      BY <1>4, <1>8
    <3> QED
      BY <3>1 DEF WayStep
  <2>2. e \in edge /\ e.to = m /\ t.dist[m] = t.dist[e.from] + e.w
    BY DEF TreeInv
  <2>3. p \in Seq(edge)
    BY <1>10
  <2>4. PICK x \in DOMAIN seed : t.dist[e.from] = seed[x] + Cost(p) /\ Leading(p, x, e.from)
    BY <1>10
  <2>5. \A f \in edge : f.w \in Nat
    BY DEF Joins
  <2>6. seed[x] \in Nat
    BY DEF Starts
  <2> HIDE DEF e, p
  <2>7. /\ Append(p, e) \in Seq(edge) /\ Cost(p) \in Nat
        /\ Cost(Append(p, e)) = Cost(p) + e.w
    BY <2>2, <2>3, <2>5, CostAppend
  <2>8. t.dist[m] = seed[x] + Cost(Append(p, e))
    BY <2>2, <2>4, <2>5, <2>6, <2>7
  <2>10. Leading(Append(p, e), x, m)
    BY <2>2, <2>3, <2>4, LeadingOn
  <2>9. m \in D /\ F[m] \in Seq(edge) /\ t.dist[m] = seed[x] + Cost(F[m]) /\ Leading(F[m], x, m)
    BY <1>4, <2>1, <2>7, <2>8, <2>10
  <2> QED
    BY <2>9
<1> HIDE DEF P
<1>11. n \in P
  BY <1>9, <1>10, TreeInduction
<1> QED
  BY <1>1, <1>11 DEF P

----------------------------------------------------------------------------
(***************************************************************************)
(* The search that stops and the one that does not.                        *)
(***************************************************************************)

\* A search that never stops has tried every edge of what it reached.
LEMMA FullSearch ==
  ASSUME NEW N \in Nat, NEW edge, Joins(edge, N), NEW seed, Starts(seed, N)
  PROVE  LET d == ShortestTree(edge, N, seed, 0)
         IN  /\ TreeInv(d, edge, N, seed) /\ Depths(d, N) # {}
             /\ \A e \in edge : e.from \in DOMAIN d.dist =>
                  e.to \in DOMAIN d.dist /\ d.dist[e.to] <= d.dist[e.from] + e.w
<1> DEFINE d == ShortestTree(edge, N, seed, 0)
<1>1. /\ TreeInv(d, edge, N, seed) /\ SettledInv(d, edge, 0)
      /\ Depths(d, N) # {} /\ Ended(d, 0)
  BY SearchEnds
<1> HIDE DEF d
<1>2. d.done \subseteq DOMAIN d.dist /\ DOMAIN d.dist \subseteq 1..N
  BY <1>1 DEF TreeInv
<1>3. d.done = DOMAIN d.dist
  BY <1>1, <1>2 DEF Ended, Open
<1>4. \A e \in edge : e.from \in DOMAIN d.dist =>
        e.to \in DOMAIN d.dist /\ d.dist[e.to] <= d.dist[e.from] + e.w
  BY <1>1, <1>2, <1>3 DEF SettledInv
<1> QED
  BY <1>1, <1>4 DEF d

\* Stopping at the goal changes neither whether it is reached nor how far it is.
LEMMA StoppedIsFull ==
  ASSUME NEW N \in Nat, NEW edge, Joins(edge, N), NEW seed, Starts(seed, N), NEW n
  PROVE  LET t == ShortestTree(edge, N, seed, n)
             d == ShortestTree(edge, N, seed, 0)
         IN  IF n \in DOMAIN d.dist THEN n \in DOMAIN t.dist /\ t.dist[n] = d.dist[n]
             ELSE n \notin DOMAIN t.dist
<1> DEFINE t == ShortestTree(edge, N, seed, n)
           d == ShortestTree(edge, N, seed, 0)
<1>1. /\ TreeInv(t, edge, N, seed) /\ SettledInv(t, edge, n)
      /\ Depths(t, N) # {} /\ Ended(t, n)
  BY SearchEnds
<1>2. /\ TreeInv(d, edge, N, seed) /\ Depths(d, N) # {}
      /\ \A e \in edge : e.from \in DOMAIN d.dist =>
           e.to \in DOMAIN d.dist /\ d.dist[e.to] <= d.dist[e.from] + e.w
  BY FullSearch
<1> HIDE DEF t, d
<1>3. /\ \A e \in edge : e.w \in Nat
      /\ \A x \in DOMAIN t.dist : t.dist[x] \in Nat
      /\ \A x \in DOMAIN d.dist : d.dist[x] \in Nat
      /\ \A x \in DOMAIN seed : x \in DOMAIN t.dist /\ t.dist[x] <= seed[x]
      /\ \A x \in DOMAIN seed : x \in DOMAIN d.dist /\ d.dist[x] <= seed[x]
      /\ t.done \subseteq DOMAIN t.dist /\ d.done \subseteq DOMAIN d.dist
  BY <1>1, <1>2 DEF Joins, TreeInv
<1> DEFINE A == {x \in DOMAIN t.dist : x \in DOMAIN d.dist /\ d.dist[x] <= t.dist[x]}
           B == {x \in DOMAIN d.dist :
                   \/ x \in DOMAIN t.dist /\ t.dist[x] <= d.dist[x]
                   \/ n \in DOMAIN t.dist /\ t.dist[n] <= d.dist[x]}
<1>4. \A x \in DOMAIN t.dist : x \in A
  <2>1. ASSUME NEW x \in DOMAIN t.dist \ DOMAIN t.via
        PROVE  x \in A
    <3>1. x \in DOMAIN seed /\ t.dist[x] = seed[x]
      BY <1>1 DEF TreeInv
    <3> QED
      BY <1>3, <3>1
  <2>2. ASSUME NEW x \in DOMAIN t.via, t.via[x].from \in A
        PROVE  x \in A
    <3>1. /\ t.via[x] \in edge /\ t.via[x].to = x /\ x \in DOMAIN t.dist
          /\ t.dist[x] = t.dist[t.via[x].from] + t.via[x].w
      BY <1>1 DEF TreeInv
    <3>2. x \in DOMAIN d.dist /\ d.dist[x] <= d.dist[t.via[x].from] + t.via[x].w
      BY <1>2, <2>2, <3>1
    <3> QED
      BY <1>3, <2>2, <3>1, <3>2
  <2> HIDE DEF A
  <2> QED
    BY <1>1, <2>1, <2>2, TreeInduction
<1>5. \A x \in DOMAIN d.dist : x \in B
  <2>1. ASSUME NEW x \in DOMAIN d.dist \ DOMAIN d.via
        PROVE  x \in B
    <3>1. x \in DOMAIN seed /\ d.dist[x] = seed[x]
      BY <1>2 DEF TreeInv
    <3> QED
      BY <1>3, <3>1
  <2>2. ASSUME NEW x \in DOMAIN d.via, d.via[x].from \in B
        PROVE  x \in B
    <3> DEFINE e == d.via[x]
               f == e.from
    <3>1. /\ e \in edge /\ e.to = x /\ x \in DOMAIN d.dist /\ f \in DOMAIN d.dist
          /\ e.w \in Nat /\ d.dist[x] = d.dist[f] + e.w
      BY <1>2, <1>3 DEF TreeInv
    <3> HIDE DEF e
    <3>2. CASE n \in DOMAIN t.dist /\ t.dist[n] <= d.dist[f]
      BY <1>3, <3>1, <3>2
    <3>3. CASE f \in DOMAIN t.dist /\ t.dist[f] <= d.dist[f]
      <4>1. CASE f \in t.done /\ f # n
        <5>1. x \in DOMAIN t.dist /\ t.dist[x] <= t.dist[f] + e.w
          BY <1>1, <3>1, <4>1 DEF SettledInv
        <5> QED
          BY <1>3, <3>1, <3>3, <5>1
      <4>2. CASE f = n
        BY <1>3, <3>1, <3>3, <4>2
      <4>3. CASE f \notin t.done
        <5>1. n \in t.done
          BY <1>1, <3>3, <4>3 DEF Ended, Open
        <5>2. n \in DOMAIN t.dist /\ t.dist[n] <= t.dist[f]
          BY <1>1, <1>3, <3>3, <4>3, <5>1 DEF SettledInv
        <5> QED
          BY <1>3, <3>1, <3>3, <5>2
      <4> QED
        BY <4>1, <4>2, <4>3
    <3> QED
      BY <2>2, <3>2, <3>3 DEF e
  <2> HIDE DEF B
  <2> QED
    BY <1>2, <2>1, <2>2, TreeInduction
<1>6. IF n \in DOMAIN d.dist THEN n \in DOMAIN t.dist /\ t.dist[n] = d.dist[n]
      ELSE n \notin DOMAIN t.dist
  BY <1>3, <1>4, <1>5
<1> QED
  BY <1>6 DEF t, d

\* The search is right: the distances it ends with, when it never stops, are no
\* longer than any edge allows, and the way to a goal it stops at is as long as
\* they say, or there is none.
THEOREM SearchCorrect ==
  ASSUME NEW N \in Nat, NEW edge, Joins(edge, N), NEW seed, Starts(seed, N), NEW n
  PROVE  LET t == ShortestTree(edge, N, seed, n)
             d == ShortestTree(edge, N, seed, 0).dist
         IN  /\ \A e \in edge : e.from \in DOMAIN d =>
                  e.to \in DOMAIN d /\ d[e.to] <= d[e.from] + e.w
             /\ IF n \in DOMAIN d
                THEN /\ n \in DOMAIN t.dist
                     /\ PathTo(t, n) \in Seq(edge)
                     /\ \E x \in DOMAIN seed : d[n] = seed[x] + Cost(PathTo(t, n))
                ELSE n \notin DOMAIN t.dist
<1> DEFINE t == ShortestTree(edge, N, seed, n)
           d == ShortestTree(edge, N, seed, 0)
<1>1. \A e \in edge : e.from \in DOMAIN d.dist =>
        e.to \in DOMAIN d.dist /\ d.dist[e.to] <= d.dist[e.from] + e.w
  BY FullSearch
<1>2. IF n \in DOMAIN d.dist THEN n \in DOMAIN t.dist /\ t.dist[n] = d.dist[n]
      ELSE n \notin DOMAIN t.dist
  BY StoppedIsFull
<1>3. TreeInv(t, edge, N, seed) /\ Depths(t, N) # {}
  BY SearchEnds
<1> HIDE DEF t, d
<1>4. n \in DOMAIN t.dist =>
        /\ PathTo(t, n) \in Seq(edge)
        /\ \E x \in DOMAIN seed : t.dist[n] = seed[x] + Cost(PathTo(t, n))
  BY <1>3, WayIs
<1>5. IF n \in DOMAIN d.dist
      THEN /\ n \in DOMAIN t.dist
           /\ PathTo(t, n) \in Seq(edge)
           /\ \E x \in DOMAIN seed : d.dist[n] = seed[x] + Cost(PathTo(t, n))
      ELSE n \notin DOMAIN t.dist
  BY <1>2, <1>4
<1> QED
  BY <1>1, <1>5 DEF t, d

----------------------------------------------------------------------------
(***************************************************************************)
(* The routes over a graph.                                                *)
(***************************************************************************)

\* A graph with a node has a nearest one to any point.
LEMMA NearestNodeIs ==
  ASSUME NEW coord \in Seq(Point), NEW p \in Point
  PROVE  IF coord = <<>> THEN nearestNode(coord, p) = 0
         ELSE nearestNode(coord, p) \in DOMAIN coord
<1> DEFINE far == [n \in DOMAIN coord |-> haversineKm(coord[n], p)]
           W == {far[n] : n \in DOMAIN coord}
<1>1. CASE coord = <<>>
  BY <1>1 DEF nearestNode
<1>2. CASE coord # <<>>
  <2>1. DOMAIN coord \in SUBSET Nat /\ DOMAIN coord # {}
    <3>1. Len(coord) \in Nat \ {0}
      BY <1>2, EmptySeq
    <3>2. DOMAIN coord = 1..Len(coord)
      BY LenProperties
    <3>3. 1 \in DOMAIN coord
      BY <3>1, <3>2
    <3> QED
      BY <3>1, <3>2, <3>3
  <2>2. \A n \in DOMAIN coord : far[n] \in Nat
    <3>1. \A n \in DOMAIN coord : coord[n] \in Point
      OBVIOUS
    <3> QED
      BY <3>1, DistanceIs
  <2> HIDE DEF far
  <2>3. PICK m \in W : \A n \in W : m <= n
    <3>1. W \in SUBSET Nat /\ W # {}
      BY <2>1, <2>2
    <3> HIDE DEF W
    <3> QED
      BY <3>1, LeastNatural
  <2> DEFINE T == {n \in DOMAIN coord : far[n] = m}
  <2>4. PICK n \in T : \A k \in T : n <= k
    <3>1. T \in SUBSET Nat /\ T # {}
      BY <2>1, <2>3
    <3> HIDE DEF T
    <3> QED
      BY <3>1, LeastNatural
  <2>5. ASSUME NEW k \in DOMAIN coord
        PROVE  far[n] < far[k] \/ (far[n] = far[k] /\ n <= k)
    <3>1. far[n] = m /\ n \in DOMAIN coord
      BY <2>4
    <3>2. far[k] \in Nat /\ m \in Nat /\ m <= far[k]
      BY <2>2, <2>3, <3>1
    <3>3. CASE far[k] = m
      <4>1. k \in T
        BY <3>3
      <4> HIDE DEF T
      <4> QED
        BY <2>4, <3>1, <3>3, <4>1
    <3>4. CASE far[k] # m
      BY <3>1, <3>2, <3>4
    <3> QED
      BY <3>3, <3>4
  <2>6. n \in DOMAIN coord /\ \A k \in DOMAIN coord :
          \/ haversineKm(coord[n], p) < haversineKm(coord[k], p)
          \/ haversineKm(coord[n], p) = haversineKm(coord[k], p) /\ n <= k
    <3>1. n \in DOMAIN coord
      BY <2>4
    <3> QED
      BY <2>5, <3>1 DEF far
  <2> HIDE DEF T
  <2> QED
    BY <1>2, <2>6, Zenon DEF nearestNode
<1> QED
  BY <1>1, <1>2

LEMMA SearchWays ==
  ASSUME NEW N \in Nat, NEW edge, Joins(edge, N), NEW seed, Starts(seed, N), NEW stop
  PROVE  LET t == ShortestTree(edge, N, seed, stop)
         IN  \A x \in DOMAIN t.dist : x \in 1..N /\ PathTo(t, x) \in Seq(edge)
<1> DEFINE t == ShortestTree(edge, N, seed, stop)
<1>1. TreeInv(t, edge, N, seed) /\ Depths(t, N) # {}
  BY SearchEnds
<1> HIDE DEF t
<1>2. ASSUME NEW x \in DOMAIN t.dist
      PROVE  x \in 1..N /\ PathTo(t, x) \in Seq(edge)
  <2>1. PathTo(t, x) \in Seq(edge)
    BY <1>1, WayIs
  <2> QED
    BY <1>1, <2>1 DEF TreeInv
<1> QED
  BY <1>2 DEF t

LEMMA GraphIs ==
  ASSUME NEW g, IsGraph(g)
  PROVE  /\ Len(g.coord) \in Nat /\ DOMAIN g.coord = 1..Len(g.coord)
         /\ \A n \in 1..Len(g.coord) : g.coord[n] \in Point
         /\ Joins(g.edge, Len(g.coord))
<1>1. g.coord \in Seq(Point)
  BY DEF IsGraph
<1>2. Len(g.coord) \in Nat /\ DOMAIN g.coord = 1..Len(g.coord)
      /\ \A n \in 1..Len(g.coord) : g.coord[n] \in Point
  BY <1>1
<1> QED
  BY <1>2 DEF Joins, IsGraph

\* The places of a graph, its lines and its straight edges stay in S.
StaysIn(g, S) ==
  /\ g.coord \in Seq(S) /\ \A line \in ToSet(g.line) : line \in Seq(S)
  /\ \A e \in g.edge :
       e.line = 0 => densifyGreatCircle(g.coord[e.from], g.coord[e.to]) \in Seq(S)

\* Every graph's do in the plane.
LEMMA StaysInPlane ==
  ASSUME NEW g, IsGraph(g)
  PROVE  StaysIn(g, Point)
<1>1. g.coord \in Seq(Point) /\ \A line \in ToSet(g.line) : line \in Seq(Point)
  BY DEF IsGraph, ToSet
<1>2. ASSUME NEW e \in g.edge
      PROVE  densifyGreatCircle(g.coord[e.from], g.coord[e.to]) \in Seq(Point)
  <2>1. g.coord[e.from] \in Point /\ g.coord[e.to] \in Point
    BY GraphIs DEF Joins
  <2> QED
    BY <2>1, DirectLeads DEF Leads
<1> QED
  BY <1>1, <1>2 DEF StaysIn

\* So does an edge that is drawn, from whichever end.
LEMMA EdgeDrawn ==
  ASSUME NEW g, IsGraph(g), NEW S, StaysIn(g, S), NEW e \in g.edge
  PROVE  DrawEdge(g, e) \in Seq(S) /\ DrawEdge(g, e) # <<>>
<1>1. /\ g.coord[e.from] \in Point /\ g.coord[e.to] \in Point
      /\ e.line \in 0..Len(g.line)
  BY GraphIs DEF IsGraph, Joins
<1>2. CASE e.line = 0
  <2>1. DrawEdge(g, e) = densifyGreatCircle(g.coord[e.from], g.coord[e.to])
    BY <1>2 DEF DrawEdge
  <2> QED
    BY <1>1, <1>2, <2>1, DirectLeads DEF Leads, StaysIn
<1>3. CASE e.line # 0
  <2> DEFINE line == g.line[e.line]
  <2>1. g.line \in Seq(Seq(Point)) /\ \A r \in ToSet(g.line) : Len(r) >= 2
    BY DEF IsGraph
  <2>2. e.line \in DOMAIN g.line
    BY <1>1, <1>3, <2>1
  <2>3. line \in Seq(S) /\ Len(line) >= 2
    BY <2>1, <2>2 DEF ToSet, StaysIn
  <2>4. DrawEdge(g, e) = IF e.rev THEN Reverse(line) ELSE line
    BY <1>3 DEF DrawEdge
  <2> HIDE DEF line
  <2>5. line # <<>> /\ Reverse(line) \in Seq(S) /\ Len(Reverse(line)) = Len(line)
    BY <2>3 DEF Reverse
  <2>6. Reverse(line) # <<>>
    BY <2>3, <2>5
  <2> QED
    BY <2>3, <2>4, <2>5, <2>6
<1> QED
  BY <1>2, <1>3

\* And the way by cable alone.
LEMMA CableRouteIs ==
  ASSUME NEW g, IsGraph(g), NEW S, StaysIn(g, S), NEW a \in Point, NEW b \in Point
  PROVE  cableRoute(g, a, b) \in Seq(S)
<1> DEFINE nodes == DOMAIN g.coord
           reach(n, p) == haversineKm(g.coord[n], p)
           near(p)  == {n \in nodes : reach(n, p) <= SnapKm}
           start    == IF near(a) # {} THEN near(a) ELSE {nearestNode(g.coord, a)}
           seed     == [n \in start |-> reach(n, a)]
           N        == Len(g.coord)
           t        == ShortestTree(g.edge, N, seed, 0)
           ends     == near(b) \cap DOMAIN t.dist
           end      == IF ends = {} THEN nearestNode(g.coord, b)
                       ELSE CHOOSE n \in ends : \A m \in ends :
                              t.dist[n] + reach(n, b) <= t.dist[m] + reach(m, b)
           path     == PathTo(t, end)
           leg(i)   == IF i = 1 THEN DrawEdge(g, path[i]) ELSE Tail(DrawEdge(g, path[i]))
           legs     == [i \in DOMAIN path |-> leg(i)]
<1>1. cableRoute(g, a, b) =
        IF nodes = {} \/ end \notin DOMAIN t.dist THEN NoRoute
        ELSE IF path = <<>> THEN <<g.coord[end]>>
        ELSE FlattenSeq(legs)
  BY Zenon DEF cableRoute
<1>2. /\ N \in Nat /\ nodes = 1..N /\ Joins(g.edge, N)
      /\ \A n \in 1..N : g.coord[n] \in Point
  BY GraphIs
<1>3. g.coord \in Seq(Point) /\ (g.coord = <<>> => nodes = {})
  BY DEF IsGraph
<1> SUFFICES ASSUME nodes # {}, end \in DOMAIN t.dist
             PROVE  (IF path = <<>> THEN <<g.coord[end]>> ELSE FlattenSeq(legs)) \in Seq(S)
  <2>1. NoRoute \in Seq(S)
    BY EmptySeq DEF NoRoute
  <2> HIDE DEF end, t, legs, path, nodes
  <2> QED
    BY <1>1, <2>1
<1>4. start \subseteq 1..N
  <2>1. g.coord # <<>>
    BY <1>3
  <2>2. nearestNode(g.coord, a) \in 1..N
    BY <1>2, <1>3, <2>1, NearestNodeIs
  <2> HIDE DEF N
  <2> QED
    BY <1>2, <2>2
<1>5. Starts(seed, N)
  <2>1. \A n \in 1..N : reach(n, a) \in Nat
    BY <1>2, DistanceIs
  <2> HIDE DEF start, N, reach
  <2> QED
    BY <1>4, <2>1 DEF Starts
<1> HIDE DEF seed, N
<1>6. \A x \in DOMAIN t.dist : x \in 1..N /\ PathTo(t, x) \in Seq(g.edge)
  BY <1>2, <1>5, SearchWays
<1> HIDE DEF t, end
<1>7. end \in 1..N /\ path \in Seq(g.edge)
  BY <1>6
<1> HIDE DEF path
<1>8. g.coord[end] \in S
  BY <1>2, <1>7 DEF StaysIn
<1>9. FlattenSeq(legs) \in Seq(S)
  <2>1. ASSUME NEW i \in DOMAIN path
        PROVE  leg(i) \in Seq(S)
    <3>1. path[i] \in g.edge
      BY <1>7
    <3>2. DrawEdge(g, path[i]) \in Seq(S) /\ DrawEdge(g, path[i]) # <<>>
      BY <3>1, EdgeDrawn
    <3> QED
      BY <3>2
  <2> HIDE DEF leg
  <2>2. legs \in Seq(Seq(S))
    BY <1>7, <2>1
  <2> HIDE DEF legs
  <2> QED
    BY <2>2, FlattenIs
<1> HIDE DEF legs
<1> QED
  BY <1>8, <1>9

\* A way from a to b in S: both ends as they are given.
Spans(S, line, a, b) ==
  /\ line \in Seq(S) /\ Len(line) >= 2
  /\ line[1] = a /\ line[Len(line)] = b

LEMMA BetweenSpans ==
  ASSUME NEW S, NEW a \in S, NEW b \in S, NEW mid \in Seq(S),
         NEW last \in Seq(S), Len(last) >= 1, last[Len(last)] = b
  PROVE  Spans(S, <<a>> \o mid \o last, a, b)
<1> DEFINE head == <<a>> \o mid
           line == head \o last
<1>1. <<a>> \in Seq(S) /\ Len(<<a>>) = 1 /\ <<a>>[1] = a
  OBVIOUS
<1>2. head \in Seq(S) /\ Len(head) = 1 + Len(mid) /\ head[1] = a
  BY <1>1
<1>3. Len(mid) \in Nat /\ Len(last) \in Nat
  OBVIOUS
<1> HIDE DEF head
<1>4. /\ line \in Seq(S) /\ Len(line) = Len(head) + Len(last)
      /\ \A k \in 1..Len(head) + Len(last) :
           line[k] = IF k <= Len(head) THEN head[k] ELSE last[k - Len(head)]
  BY <1>2
<1>5. 1 \in 1..Len(head) + Len(last) /\ Len(line) \in 1..Len(head) + Len(last)
  BY <1>2, <1>3, <1>4
<1>6. line[1] = a
  BY <1>2, <1>3, <1>4, <1>5
<1>7. line[Len(line)] = b
  <2>1. ~(Len(line) <= Len(head)) /\ Len(line) - Len(head) = Len(last)
    BY <1>2, <1>3, <1>4
  <2> QED
    BY <1>4, <1>5, <2>1
<1>8. Len(line) >= 2
  BY <1>2, <1>3, <1>4
<1> HIDE DEF line
<1>9. Spans(S, line, a, b)
  BY <1>4, <1>6, <1>7, <1>8 DEF Spans
<1> QED
  BY <1>9 DEF line, head

\* What is drawn along a way leads from its one end to the other.
LEMMA SpansLead ==
  ASSUME NEW a, NEW b, NEW line, Spans(Point, line, a, b)
  PROVE  Leads(densifyPath(line), a, b)
<1>1. line \in Seq(Point) /\ Len(line) >= 2 /\ line[1] = a /\ line[Len(line)] = b
  BY DEF Spans
<1>2. Leads(densifyPath(line), line[1], line[Len(line)])
  BY <1>1, DensifyLeads
<1> QED
  BY <1>1, <1>2

\* The way found from one node of a graph to another.
LEMMA NodesWay ==
  ASSUME NEW g, IsGraph(g), NEW s \in 1..Len(g.coord), NEW stop
  PROVE  LET t == ShortestTree(g.edge, Len(g.coord), [x \in {s} |-> 0], stop)
         IN  \A x \in DOMAIN t.dist :
               x \in 1..Len(g.coord) /\ PathTo(t, x) \in Seq(g.edge)
<1> DEFINE N == Len(g.coord)
           seed == [x \in {s} |-> 0]
<1>1. N \in Nat /\ Joins(g.edge, N)
  BY GraphIs
<1>2. Starts(seed, N)
  BY DEF Starts
<1> HIDE DEF N, seed
<1>3. LET t == ShortestTree(g.edge, N, seed, stop)
      IN  \A x \in DOMAIN t.dist : x \in 1..N /\ PathTo(t, x) \in Seq(g.edge)
  BY <1>1, <1>2, SearchWays
<1> QED
  BY <1>3, Zenon DEF N, seed

----------------------------------------------------------------------------
(***************************************************************************)
(* Lists: the members at some places, and folds from the left.             *)
(***************************************************************************)

\* The members at the places I are those of the list, in its order, none of
\* them further back than it was.
LEMMA SublistIs ==
  ASSUME NEW S, NEW s \in Seq(S), NEW I \in SUBSET (DOMAIN s)
  PROVE  /\ Sublist(s, I) \in Seq(S)
         /\ Len(Sublist(s, I)) = Cardinality(I)
         /\ \A k \in 1..Len(Sublist(s, I)) : Sublist(s, I)[k] = s[Nth(I, k)]
         /\ \A k \in 1..Len(Sublist(s, I)) : Nth(I, k) \in I /\ k <= Nth(I, k)
         /\ \A i \in I : \E k \in 1..Len(Sublist(s, I)) : k <= i /\ Nth(I, k) = i
         /\ \A j, k \in 1..Len(Sublist(s, I)) : Nth(I, j) <= Nth(I, k) => j <= k
<1> DEFINE m == Cardinality(I)
           r == Sublist(s, I)
<1>1. Len(s) \in Nat /\ DOMAIN s = 1..Len(s)
  OBVIOUS
<1>2. /\ m \in Nat
      /\ \A k \in 1..m : Nth(I, k) \in I /\ k <= Nth(I, k)
      /\ \A i \in I : \E k \in 1..m : k <= i /\ Nth(I, k) = i
      /\ \A j, k \in 1..m : Nth(I, j) <= Nth(I, k) => j <= k
  BY <1>1, NthIs
<1>3. r = [k \in 1..m |-> s[Nth(I, k)]]
  BY DEF Sublist, Nth
<1> HIDE DEF m, r
<1>4. \A k \in 1..m : s[Nth(I, k)] \in S
  BY <1>2
<1>5. r \in Seq(S) /\ Len(r) = m
  BY <1>2, <1>3, <1>4
<1> QED
  BY <1>2, <1>3, <1>5 DEF m, r

\* The greatest of some numbers.
LEMMA MaxIs ==
  ASSUME NEW n \in Nat, NEW T \in SUBSET (1..n), T # {}
  PROVE  Max(T) \in T /\ \A y \in T : Max(T) >= y
<1> DEFINE B == {m \in Nat : \A y \in T : y <= m}
<1>1. \A y \in T : y \in Nat /\ y >= 1 /\ y <= n
  OBVIOUS
<1>2. n \in B
  BY <1>1
<1>3. PICK m \in B : \A k \in B : m <= k
  <2> HIDE DEF B
  <2>1. B \in SUBSET Nat /\ B # {}
    BY <1>2 DEF B
  <2> QED
    BY <2>1, LeastNatural
<1>4. m \in T
  <2> SUFFICES ASSUME m \notin T
               PROVE  FALSE
    OBVIOUS
  <2>1. \A y \in T : y <= m - 1
    BY <1>1, <1>3
  <2>2. m - 1 \in Nat
    <3>1. PICK y \in T : TRUE
      OBVIOUS
    <3>2. y <= m - 1 /\ y \in Nat /\ y >= 1
      BY <1>1, <2>1, <3>1
    <3> QED
      BY <1>3, <3>2
  <2>3. m - 1 \in B
    BY <2>1, <2>2
  <2> QED
    BY <1>3, <2>3
<1>5. \E x \in T : \A y \in T : x >= y
  BY <1>1, <1>3, <1>4
<1> QED
  BY <1>5, Zenon DEF Max

\* And the least of some numbers.
LEMMA MinIs ==
  ASSUME NEW T \in SUBSET Nat, T # {}
  PROVE  Min(T) \in T /\ \A y \in T : Min(T) <= y
<1>1. \E x \in T : \A y \in T : x <= y
  BY LeastNatural
<1> QED
  BY <1>1, Zenon DEF Min

\* The places folded so far are a prefix, and the last of them is its greatest.
LEMMA UpTo ==
  ASSUME NEW n \in Nat, NEW k \in 1..n
  PROVE  /\ 1..k \in SUBSET (1..n) /\ 1..k # {}
         /\ Max(1..k) = k /\ (1..k) \ {k} = 1..k - 1
<1>1. k \in 1..k /\ 1..k \in SUBSET (1..n)
  OBVIOUS
<1>2. Max(1..k) \in 1..k /\ Max(1..k) >= k
  BY <1>1, MaxIs
<1>3. Max(1..k) = k
  BY <1>2
<1> QED
  BY <1>1, <1>3

\* A fold from the left is a function of the places folded so far.
Folds(f, n, base, step) ==
  \A T \in SUBSET (1..n) :
    f[T] = IF T = {} THEN base ELSE step[<<Max(T), f[T \ {Max(T)}]>>]

CanFold(n, V, base, step) ==
  \E f \in [SUBSET (1..n) -> V] : Folds(f, n, base, step)

\* If the steps stay in V, there is such a function.
LEMMA FoldExists ==
  ASSUME NEW n \in Nat, NEW V, NEW base \in V, NEW step \in [(1..n) \X V -> V]
  PROVE  CanFold(n, V, base, step)
<1> DEFINE Q == {k \in Nat : k <= n => CanFold(k, V, base, step)}
<1>1. 0 \in Q
  <2> DEFINE f == [T \in SUBSET (1..0) |-> base]
  <2>1. 1..0 = {}
    OBVIOUS
  <2>2. f \in [SUBSET (1..0) -> V] /\ Folds(f, 0, base, step)
    BY <2>1 DEF Folds
  <2> HIDE DEF f
  <2>3. CanFold(0, V, base, step)
    BY <2>2 DEF CanFold
  <2> QED
    BY <2>3
<1>2. ASSUME NEW k \in Nat, k >= 0, k \in Q
      PROVE  k + 1 \in Q
  <2> SUFFICES ASSUME k + 1 <= n
               PROVE  CanFold(k + 1, V, base, step)
    OBVIOUS
  <2>0. CanFold(k, V, base, step)
    BY <1>2
  <2>1. PICK f \in [SUBSET (1..k) -> V] : Folds(f, k, base, step)
    BY <2>0, Zenon DEF CanFold
  <2> DEFINE g == [T \in SUBSET (1..k + 1) |->
                     IF k + 1 \in T THEN step[<<k + 1, f[T \ {k + 1}]>>] ELSE f[T]]
  <2>2. ASSUME NEW T \in SUBSET (1..k + 1), k + 1 \notin T
        PROVE  T \in SUBSET (1..k)
    BY <2>2
  <2>3. ASSUME NEW T \in SUBSET (1..k + 1)
        PROVE  T \ {k + 1} \in SUBSET (1..k)
    OBVIOUS
  <2>4. g \in [SUBSET (1..k + 1) -> V]
    <3>1. ASSUME NEW T \in SUBSET (1..k + 1)
          PROVE  g[T] \in V
      <4>1. k + 1 \in 1..n
        OBVIOUS
      <4>2. CASE k + 1 \in T
        <5>1. <<k + 1, f[T \ {k + 1}]>> \in (1..n) \X V
          BY <2>3, <4>1
        <5> QED
          BY <4>2, <5>1
      <4>3. CASE k + 1 \notin T
        BY <2>2, <4>3
      <4> QED
        BY <4>2, <4>3
    <3> QED
      BY <3>1
  <2>5. \A T \in SUBSET (1..k) : g[T] = f[T]
    <3> TAKE T \in SUBSET (1..k)
    <3>1. T \in SUBSET (1..k + 1) /\ k + 1 \notin T
      OBVIOUS
    <3> QED
      BY <3>1
  <2>6. ASSUME NEW T \in SUBSET (1..k + 1), k + 1 \in T
        PROVE  g[T] = step[<<k + 1, g[T \ {k + 1}]>>]
    <3>1. g[T] = step[<<k + 1, f[T \ {k + 1}]>>]
      BY <2>6
    <3> QED
      BY <2>3, <2>5, <3>1
  <2> HIDE DEF g
  <2>7. ASSUME NEW T \in SUBSET (1..k + 1)
        PROVE  g[T] = IF T = {} THEN base ELSE step[<<Max(T), g[T \ {Max(T)}]>>]
    <3>1. CASE k + 1 \in T
      <4>1. Max(T) \in T /\ \A y \in T : Max(T) >= y
        <5>1. k + 1 \in Nat /\ T # {}
          BY <3>1
        <5> QED
          BY <5>1, MaxIs
      <4>2. Max(T) = k + 1
        <5>1. Max(T) \in 1..k + 1 /\ Max(T) >= k + 1
          BY <3>1, <4>1
        <5> QED
          BY <5>1
      <4> QED
        BY <2>6, <3>1, <4>2
    <3>2. CASE k + 1 \notin T
      <4>1. T \in SUBSET (1..k)
        BY <2>2, <3>2
      <4>2. T \ {Max(T)} \in SUBSET (1..k)
        BY <4>1
      <4>3. f[T] = IF T = {} THEN base ELSE step[<<Max(T), f[T \ {Max(T)}]>>]
        BY <2>1, <4>1 DEF Folds
      <4> QED
        BY <2>5, <4>1, <4>2, <4>3
    <3> QED
      BY <3>1, <3>2
  <2>8. Folds(g, k + 1, base, step)
    BY <2>7 DEF Folds
  <2> QED
    BY <2>4, <2>8 DEF CanFold
<1> HIDE DEF Q
<1>3. n \in Q
  BY <1>1, <1>2, UpwardInduction
<1> QED
  BY <1>3 DEF Q

\* What holds of a fold of nothing and is kept by every place holds of the whole.
LEMMA FoldInduction ==
  ASSUME NEW n \in Nat, NEW F, NEW V, F[{}] \in V,
         \A k \in 1..n : F[1..k - 1] \in V => F[1..k] \in V
  PROVE  \A k \in 0..n : F[1..k] \in V
<1> DEFINE Q == {k \in 1..n : F[1..k] \in V}
<1>1. 1..0 = {}
  OBVIOUS
<1>2. ASSUME NEW k \in 1..n, k = 1 \/ k - 1 \in Q
      PROVE  k \in Q
  BY <1>1, <1>2
<1> HIDE DEF Q
<1>3. \A k \in 1..n : k \in Q
  BY <1>2, IndexInduction
<1>4. ASSUME NEW k \in 0..n
      PROVE  F[1..k] \in V
  <2>1. CASE k = 0
    BY <1>1, <2>1
  <2>2. CASE k # 0
    BY <1>3, <2>2 DEF Q
  <2> QED
    BY <2>1, <2>2
<1> QED
  BY <1>4

----------------------------------------------------------------------------
(***************************************************************************)
(* The cables as they are read.                                            *)
(***************************************************************************)

\* Lines of the data, of two points or more, their longitudes within bounds.
RawLines == {l \in Seq((-Half..Half) \X Int) : Len(l) >= 2}

\* Lines after stitching, which may go on east over the dateline.
Lines == {l \in Seq((-Half..3 * Half) \X Int) : Len(l) >= 2}

\* A list of members of one set is a list of members of a larger one.
LEMMA LargerSet ==
  ASSUME NEW S, NEW T, S \subseteq T, NEW s \in Seq(S)
  PROVE  s \in Seq(T)
<1>1. \A i \in 1..Len(s) : s[i] \in T
  OBVIOUS
<1> QED
  BY <1>1

\* A list backwards has the same members and length.
LEMMA ReverseIs ==
  ASSUME NEW S, NEW s \in Seq(S)
  PROVE  Reverse(s) \in Seq(S) /\ Len(Reverse(s)) = Len(s)
<1>1. \A i \in 1..Len(s) : s[(Len(s) - i) + 1] \in S
  OBVIOUS
<1> QED
  BY <1>1 DEF Reverse

\* The ends of n lines, and what stitching has made of them so far.
LineEnds(n) == [bi : 1..n, head : BOOLEAN]

JoinState(n) == [used : SUBSET (1..n), merged : Seq(Lines)]

\* Joining one end makes lines of lines.
LEMMA JoinKeeps ==
  ASSUME NEW brs \in Seq(RawLines), NEW neg \in SUBSET LineEnds(Len(brs)),
         NEW acc \in JoinState(Len(brs)), NEW p \in LineEnds(Len(brs))
  PROVE  JoinEnd(brs, neg, acc, p) \in JoinState(Len(brs))
<1> DEFINE gap(n) == Magnitude(EndPoint(brs, n)[2] - EndPoint(brs, p)[2])
           free == {n \in neg : n.bi \notin acc.used \cup {p.bi} /\ gap(n) < LatTolerance}
           best == CHOOSE n \in free : \A m \in free : gap(n) <= gap(m)
           west == [i \in DOMAIN brs[best.bi] |->
                      <<brs[best.bi][i][1] + 2 * Half, brs[best.bi][i][2]>>]
           a == IF p.head THEN Reverse(brs[p.bi]) ELSE brs[p.bi]
           b == IF best.head THEN west ELSE Reverse(west)
           Wide == (-Half..3 * Half) \X Int
<1>0. Half \in Nat \ {0}
  BY GeographyAssumption
<1>1. CASE p.bi \in acc.used \/ free = {}
  BY <1>1 DEF JoinEnd
<1>2. CASE ~(p.bi \in acc.used \/ free = {})
  <2>1. \A n \in LineEnds(Len(brs)) :
          n.bi \in 1..Len(brs) /\ brs[n.bi] \in Seq((-Half..Half) \X Int) /\ Len(brs[n.bi]) >= 2
    <3>1. \A n \in LineEnds(Len(brs)) : n.bi \in 1..Len(brs) /\ brs[n.bi] \in RawLines
      BY DEF LineEnds
    <3> QED
      BY <3>1 DEF RawLines
  <2>2. best \in free
    <3>1. \A n \in LineEnds(Len(brs)) : EndPoint(brs, n)[2] \in Int
      <4> TAKE n \in LineEnds(Len(brs))
      <4>1. 1 \in DOMAIN brs[n.bi] /\ Len(brs[n.bi]) \in DOMAIN brs[n.bi]
        BY <2>1
      <4>2. brs[n.bi][1] \in (-Half..Half) \X Int /\ Last(brs[n.bi]) \in (-Half..Half) \X Int
        BY <2>1, <4>1 DEF Last
      <4> QED
        BY <4>2 DEF EndPoint
    <3>2. \A n \in neg : gap(n) \in Nat
      <4>1. \A n \in LineEnds(Len(brs)) :
              EndPoint(brs, n)[2] - EndPoint(brs, p)[2] \in Int
        BY <3>1
      <4> QED
        BY <4>1, MagnitudeIs
    <3> HIDE DEF gap
    <3> DEFINE G == {gap(n) : n \in free}
    <3>3. G \in SUBSET Nat /\ G # {}
      BY <1>2, <3>2
    <3>4. \E m \in G : \A n \in G : m <= n
      <4> HIDE DEF G
      <4> QED
        BY <3>3, LeastNatural
    <3>5. \E n \in free : \A m \in free : gap(n) <= gap(m)
      BY <3>4
    <3> HIDE DEF free
    <3> QED
      BY <3>5
  <2> HIDE DEF best
  <2>3. best \in LineEnds(Len(brs))
    BY <2>2
  <2>4. west \in Seq(Wide) /\ Len(west) >= 2
    <3>1. brs[best.bi] \in Seq((-Half..Half) \X Int) /\ Len(brs[best.bi]) >= 2
      BY <2>1, <2>3
    <3> DEFINE l == brs[best.bi]
    <3> HIDE DEF l
    <3>2. \A i \in 1..Len(l) : l[i] \in (-Half..Half) \X Int
      BY <3>1 DEF l
    <3>3. \A i \in 1..Len(l) : <<l[i][1] + 2 * Half, l[i][2]>> \in Wide
      BY <1>0, <3>2
    <3>4. west = [i \in 1..Len(l) |-> <<l[i][1] + 2 * Half, l[i][2]>>]
      BY <3>1 DEF l
    <3> HIDE DEF west, Wide
    <3> QED
      BY <3>1, <3>3, <3>4 DEF l
  <2>5. a \in Seq(Wide) /\ Len(a) >= 2
    <3> DEFINE l == brs[p.bi]
    <3>1. l \in Seq((-Half..Half) \X Int) /\ Len(l) >= 2
      BY <2>1
    <3>2. l \in Seq(Wide)
      <4>0. (-Half..Half) \X Int \subseteq Wide
        <5>1. -Half..Half \subseteq -Half..3 * Half
          BY <1>0
        <5> QED
          BY <5>1
      <4> HIDE DEF l, Wide
      <4> QED
        BY <3>1, <4>0, LargerSet
    <3> HIDE DEF l, Wide
    <3>3. a = IF p.head THEN Reverse(l) ELSE l
      BY DEF l
    <3> HIDE DEF a
    <3> QED
      BY <3>1, <3>2, <3>3, ReverseIs
  <2> HIDE DEF west, Wide
  <2>6. b \in Seq(Wide) /\ Len(b) >= 2
    BY <2>4, ReverseIs
  <2> HIDE DEF a, b
  <2>7. a \o Tail(b) \in Seq(Wide) /\ Len(a \o Tail(b)) >= 2
    BY <2>5, <2>6
  <2>8. a \o Tail(b) \in Lines
    BY <2>7 DEF Lines, Wide
  <2>9. JoinEnd(brs, neg, acc, p) =
          [used |-> acc.used \cup {p.bi, best.bi}, merged |-> Append(acc.merged, a \o Tail(b))]
    BY <1>2, Zenon DEF JoinEnd, best, a, b, west
  <2> QED
    BY <2>3, <2>8, <2>9 DEF JoinState, LineEnds
<1> QED
  BY <1>1, <1>2

\* So does joining all of them.
LEMMA StitchFold ==
  ASSUME NEW brs \in Seq(RawLines), NEW neg \in SUBSET LineEnds(Len(brs)),
         NEW pos \in Seq(LineEnds(Len(brs))), NEW base \in JoinState(Len(brs))
  PROVE  FoldLeft(LAMBDA acc, p : JoinEnd(brs, neg, acc, p), base, pos)
           \in JoinState(Len(brs))
<1> DEFINE n == Len(pos)
           V == JoinState(Len(brs))
           R(f) == f = [T \in SUBSET (DOMAIN pos) |->
                          IF T = {} THEN base
                          ELSE JoinEnd(brs, neg, f[T \ {Max(T)}], pos[Max(T)])]
           F == CHOOSE f : R(f)
           step == [a \in (1..n) \X V |-> JoinEnd(brs, neg, a[2], pos[a[1]])]
<1>1. FoldLeft(LAMBDA acc, p : JoinEnd(brs, neg, acc, p), base, pos) = F[DOMAIN pos]
  BY Zenon DEF FoldLeft, MapThenFoldSet
<1>2. n \in Nat /\ DOMAIN pos = 1..n /\ \A i \in 1..n : pos[i] \in LineEnds(Len(brs))
  OBVIOUS
<1>3. R(F)
  <2>1. \A a \in (1..n) \X V : JoinEnd(brs, neg, a[2], pos[a[1]]) \in V
    BY <1>2, JoinKeeps
  <2>2. step \in [(1..n) \X V -> V]
    BY <2>1
  <2>3. \A i \in 1..n, v \in V : step[<<i, v>>] = JoinEnd(brs, neg, v, pos[i])
    OBVIOUS
  <2> HIDE DEF step, V, n
  <2>4. PICK f \in [SUBSET (1..n) -> V] : Folds(f, n, base, step)
    <3>1. base \in V
      BY DEF V
    <3>2. CanFold(n, V, base, step)
      BY <1>2, <2>2, <3>1, FoldExists
    <3> QED
      BY <3>2, Zenon DEF CanFold
  <2>5. ASSUME NEW T \in SUBSET (1..n), T # {}
        PROVE  f[T] = JoinEnd(brs, neg, f[T \ {Max(T)}], pos[Max(T)])
    <3>1. Max(T) \in 1..n /\ f[T \ {Max(T)}] \in V
      BY <1>2, <2>5, MaxIs
    <3>2. f[T] = step[<<Max(T), f[T \ {Max(T)}]>>]
      BY <2>4, <2>5 DEF Folds
    <3> QED
      BY <2>3, <3>1, <3>2
  <2>6. f[{}] = base
    BY <2>4 DEF Folds
  <2>7. R(f)
    BY <1>2, <2>4, <2>5, <2>6
  <2> QED
    BY <2>7
<1> HIDE DEF F
<1>4. F[{}] = base
  BY <1>3
<1>5. ASSUME NEW k \in 1..n
      PROVE  F[1..k] = JoinEnd(brs, neg, F[1..k - 1], pos[k])
  <2>1. /\ 1..k \in SUBSET (DOMAIN pos) /\ 1..k # {}
        /\ Max(1..k) = k /\ (1..k) \ {k} = 1..k - 1
    BY <1>2, UpTo
  <2> HIDE DEF n
  <2> QED
    BY <1>3, <2>1
<1>6. \A k \in 1..n : F[1..k - 1] \in V => F[1..k] \in V
  BY <1>2, <1>5, JoinKeeps
<1> HIDE DEF V, n
<1>7. \A k \in 0..n : F[1..k] \in V
  BY <1>2, <1>4, <1>6, FoldInduction DEF V
<1>8. FoldLeft(LAMBDA acc, p : JoinEnd(brs, neg, acc, p), base, pos) = F[1..n]
  BY <1>1, <1>2
<1>9. F[1..n] \in V
  BY <1>2, <1>7
<1> QED
  BY <1>8, <1>9, Zenon DEF V

\* Stitching at the dateline (cables.ts) makes lines of two points or more of
\* such lines, none of them west of the dateline.
LEMMA StitchIs ==
  ASSUME NEW brs \in Seq(RawLines)
  PROVE  stitchAntimeridian(brs) \in Seq(Lines)
<1> DEFINE E == LineEnds(Len(brs))
           two == [i \in DOMAIN brs |-> << [bi |-> i, head |-> TRUE],
                                           [bi |-> i, head |-> FALSE] >>]
           ends == FlattenSeq(two)
           I == {i \in DOMAIN ends : EndPoint(brs, ends[i])[1] >= Dateline}
           pos == Sublist(ends, I)
           neg == {e \in ToSet(ends) : EndPoint(brs, e)[1] <= -Dateline}
           base == [used |-> {}, merged |-> <<>>]
           all == FoldLeft(LAMBDA acc, p : JoinEnd(brs, neg, acc, p), base, pos)
<1>1. two \in Seq(Seq(E))
  <2>1. \A i \in 1..Len(brs) : << [bi |-> i, head |-> TRUE], [bi |-> i, head |-> FALSE] >>
                                 \in Seq(E)
    BY DEF LineEnds
  <2>2. two = [i \in 1..Len(brs) |-> << [bi |-> i, head |-> TRUE], [bi |-> i, head |-> FALSE] >>]
    OBVIOUS
  <2> HIDE DEF two, E
  <2> QED
    BY <2>1, <2>2
<1> HIDE DEF two, E
<1>2. ends \in Seq(E)
  BY <1>1, FlattenIs
<1> HIDE DEF ends
<1>3. pos \in Seq(E)
  BY <1>2, SublistIs
<1>4. neg \in SUBSET E
  BY <1>2 DEF ToSet
<1>5. base \in JoinState(Len(brs))
  BY EmptySeq DEF JoinState
<1> HIDE DEF pos, neg, base, I
<1>6. all \in JoinState(Len(brs))
  BY <1>3, <1>4, <1>5, StitchFold, Zenon DEF E
<1>7. stitchAntimeridian(brs) = Sublist(brs, DOMAIN brs \ all.used) \o all.merged
  BY Zenon DEF stitchAntimeridian, two, ends, I, pos, neg, base
<1> HIDE DEF all
<1>8. all.merged \in Seq(Lines)
  BY <1>6 DEF JoinState
<1>9. Sublist(brs, DOMAIN brs \ all.used) \in Seq(Lines)
  <2>1. RawLines \subseteq Lines
    <3>1. -Half..Half \subseteq -Half..3 * Half
      BY GeographyAssumption
    <3>2. \A l \in Seq((-Half..Half) \X Int) : l \in Seq((-Half..3 * Half) \X Int)
      <4>1. (-Half..Half) \X Int \subseteq (-Half..3 * Half) \X Int
        BY <3>1
      <4> QED
        BY <4>1
    <3> QED
      BY <3>2 DEF RawLines, Lines
  <2>2. brs \in Seq(Lines)
    BY <2>1
  <2> QED
    BY <2>2, SublistIs
<1> QED
  BY <1>7, <1>8, <1>9

----------------------------------------------------------------------------
(***************************************************************************)
(* The distance is one.                                                    *)
(***************************************************************************)

\* Whole turns shorter than two are none or one.
LEMMA FewTurns ==
  ASSUME NEW t \in Turns, t < 4 * Half, t > -(4 * Half)
  PROVE  t \in {-(2 * Half), 0, 2 * Half}
<1> DEFINE n == 2 * Half
<1>1. Half \in Nat \ {0} /\ n \in Nat \ {0} /\ 4 * Half = n + n
  BY GeographyAssumption
<1>2. PICK k \in Int : t = n * k
  BY DEF Turns
<1> HIDE DEF n
<1>3. k >= 2 => n * k >= n + n
  BY <1>1
<1>4. k <= -2 => n * k <= -(n + n)
  BY <1>1
<1>5. n * 0 = 0 /\ n * 1 = n /\ n * (-1) = -n /\ n * k \in Int
  BY <1>1
<1>6. k \in {-1, 0, 1}
  BY <1>1, <1>2, <1>3, <1>4, <1>5
<1> QED
  BY <1>2, <1>5, <1>6 DEF n

\* The shorter way is at most half a turn.
LEMMA ShorterRange ==
  ASSUME NEW x \in Int, NEW y \in Int
  PROVE  Shorter(x, y) <= Half /\ Shorter(x, y) > -Half
<1> DEFINE n == 2 * Half
           w == y - x
           r == w % n
<1>1. Half \in Nat \ {0} /\ n \in Nat \ {0} /\ n = Half + Half /\ w \in Int
  BY GeographyAssumption
<1>2. Shorter(x, y) = IF r > Half THEN r - n ELSE r
  BY DEF Shorter
<1> HIDE DEF w, n
<1>3. r \in 0..n - 1
  BY <1>1
<1> HIDE DEF r
<1> QED
  BY <1>1, <1>2, <1>3

\* It is as far one way as the other.
LEMMA DistanceBack ==
  ASSUME NEW a \in Point, NEW b \in Point
  PROVE  haversineKm(a, b) = haversineKm(b, a)
<1>1. /\ a[1] \in Int /\ a[2] \in Int /\ b[1] \in Int /\ b[2] \in Int /\ Half \in Nat \ {0}
  BY GeographyAssumption DEF Point
<1> DEFINE d == Shorter(a[1], b[1])
           r == Shorter(b[1], a[1])
<1>2. /\ d \in Int /\ (a[1] + d) - b[1] \in Turns /\ d <= Half /\ d > -Half
      /\ r \in Int /\ (b[1] + r) - a[1] \in Turns /\ r <= Half /\ r > -Half
  BY <1>1, ShorterIs, ShorterRange
<1> HIDE DEF d, r
<1>3. d + r \in Turns
  <2>1. ((a[1] + d) - b[1]) + ((b[1] + r) - a[1]) \in Turns
    BY <1>2, TurnsAdd
  <2>2. ((a[1] + d) - b[1]) + ((b[1] + r) - a[1]) = d + r
    BY <1>1, <1>2
  <2> QED
    BY <2>1, <2>2
<1>4. d + r \in {-(2 * Half), 0, 2 * Half}
  BY <1>1, <1>2, <1>3, FewTurns
<1>5. Magnitude(d) = Magnitude(r)
  BY <1>1, <1>2, <1>4 DEF Magnitude
<1>6. Magnitude(b[2] - a[2]) = Magnitude(a[2] - b[2])
  BY <1>1 DEF Magnitude
<1> QED
  BY <1>5, <1>6 DEF haversineKm, d, r

\* A way over a third point is no shorter.
LEMMA DistanceVia ==
  ASSUME NEW a \in Point, NEW b \in Point, NEW c \in Point
  PROVE  haversineKm(a, c) <= haversineKm(a, b) + haversineKm(b, c)
<1>1. /\ a[1] \in Int /\ a[2] \in Int /\ b[1] \in Int /\ b[2] \in Int
      /\ c[1] \in Int /\ c[2] \in Int
  BY DEF Point
<1> DEFINE d == Shorter(a[1], b[1])
           r == Shorter(b[1], c[1])
           t == ((a[1] + d) - b[1]) + ((b[1] + r) - c[1])
           s == Shorter(a[1], c[1])
<1>2. /\ d \in Int /\ (a[1] + d) - b[1] \in Turns
      /\ r \in Int /\ (b[1] + r) - c[1] \in Turns
      /\ s \in Int /\ \A x \in Turns : Shorter(a[1], c[1] + x) = s
  BY <1>1, ShorterIs
<1> HIDE DEF d, r, s
<1>3. Magnitude(Shorter(a[1], a[1] + (d + r))) <= Magnitude((a[1] + (d + r)) - a[1])
  <2> DEFINE y == a[1] + (d + r)
  <2>1. y \in Int
    BY <1>1, <1>2
  <2> HIDE DEF y
  <2>2. Magnitude(Shorter(a[1], y)) <= Magnitude(y - a[1])
    BY <1>1, <2>1, ShorterIs
  <2> QED
    BY <2>2 DEF y
<1>4. t \in Turns /\ c[1] + t = a[1] + (d + r) /\ (a[1] + (d + r)) - a[1] = d + r
  BY <1>1, <1>2, TurnsAdd
<1>5. Magnitude(s) <= Magnitude(d + r)
  BY <1>2, <1>3, <1>4
<1>6. Magnitude(d + r) <= Magnitude(d) + Magnitude(r)
  BY <1>2 DEF Magnitude
<1>7. Magnitude(c[2] - a[2]) <= Magnitude(b[2] - a[2]) + Magnitude(c[2] - b[2])
  BY <1>1 DEF Magnitude
<1>8. /\ haversineKm(a, c) = Magnitude(s) + Magnitude(c[2] - a[2])
      /\ haversineKm(a, b) = Magnitude(d) + Magnitude(b[2] - a[2])
      /\ haversineKm(b, c) = Magnitude(r) + Magnitude(c[2] - b[2])
  BY DEF haversineKm, d, r, s
<1>9. /\ Magnitude(s) \in Int /\ Magnitude(d) \in Int /\ Magnitude(r) \in Int /\ Magnitude(d + r) \in Int
      /\ Magnitude(c[2] - a[2]) \in Int /\ Magnitude(b[2] - a[2]) \in Int /\ Magnitude(c[2] - b[2]) \in Int
  BY <1>1, <1>2, MagnitudeIs
<1> QED
  BY <1>5, <1>6, <1>7, <1>8, <1>9

\* Turns at either end make no difference, and no place is away from itself.
LEMMA DistanceSame ==
  ASSUME NEW a \in Point, NEW b \in Point, NEW c \in Point, NEW d \in Point,
         Same(a, c), Same(b, d)
  PROVE  haversineKm(a, b) = haversineKm(c, d) /\ haversineKm(a, c) = 0
<1>1. haversineKm(c, b) = haversineKm(a, b) /\ haversineKm(d, c) = haversineKm(b, c)
  BY DistanceIs
<1>2. haversineKm(d, c) = haversineKm(c, d) /\ haversineKm(b, c) = haversineKm(c, b)
  BY DistanceBack
<1>3. haversineKm(a, a) <= Magnitude(a[1] - a[1]) + Magnitude(a[2] - a[2])
      /\ haversineKm(a, a) \in Nat /\ haversineKm(c, a) = haversineKm(a, a)
      /\ haversineKm(c, a) = haversineKm(a, c)
  BY DistanceIs, DistanceBack
<1>4. a[1] - a[1] = 0 /\ a[2] - a[2] = 0
  BY DEF Point
<1>5. haversineKm(a, a) = 0
  <2>1. haversineKm(a, a) <= Magnitude(0) + Magnitude(0)
    BY <1>3, <1>4
  <2>2. Magnitude(0) = 0
    BY DEF Magnitude
  <2> QED
    BY <1>3, <2>1, <2>2
<1> QED
  BY <1>1, <1>2, <1>3, <1>5

----------------------------------------------------------------------------
(***************************************************************************)
(* The cable network, segment by segment.                                  *)
(***************************************************************************)

\* Where landings are: points with their longitude normalised.
Place == (-Half..Half - 1) \X Int

\* A longitude of a stitched line is normalised into the half-open range.
LEMMA NormLonIs ==
  ASSUME NEW x \in Int, x >= -Half
  PROVE  normLon(x) \in -Half..Half - 1 /\ normLon(x) - x \in Turns
<1>1. Half \in Nat \ {0}
  BY GeographyAssumption
<1>2. x + 3 * Half \in Int /\ x + 3 * Half >= 0
  BY <1>1
<1> DEFINE r == JsRem(x + 3 * Half, 2 * Half)
<1>3. r \in 0..2 * Half - 1 /\ r - (x + 3 * Half) \in Turns
  BY <1>2, JsRemIs
<1>4. normLon(x) = r - Half
  BY DEF normLon
<1> HIDE DEF r
<1>5. (r - (x + 3 * Half)) + 2 * Half = (r - Half) - x
  BY <1>1, <1>3
<1>6. (r - (x + 3 * Half)) + 2 * Half \in Turns
  BY <1>3, TurnsAdd
<1> QED
  BY <1>1, <1>3, <1>4, <1>5, <1>6

\* They are points.
LEMMA PlaceIsPoint == Place \subseteq Point
  BY GeographyAssumption DEF Place, Point

\* Landings in different places are some distance apart, the dateline having
\* one longitude only.
LEMMA PlacesApart ==
  ASSUME NEW a \in Place, NEW b \in Place
  PROVE  haversineKm(a, b) \in Nat /\ (haversineKm(a, b) = 0 <=> a = b)
<1>1. a \in Point /\ b \in Point
  BY PlaceIsPoint
<1>2. haversineKm(a, b) \in Nat
  BY <1>1, DistanceIs
<1>3. ASSUME haversineKm(a, b) = 0
      PROVE  a = b
  <2>1. Same(a, b)
    BY <1>1, <1>3, DistanceIs
  <2>2. PICK k \in Int : b[1] - a[1] = 2 * Half * k
    BY <2>1 DEF Same, Turns
  <2>3. Half \in Nat \ {0} /\ a[1] \in -Half..Half - 1 /\ b[1] \in -Half..Half - 1
    BY GeographyAssumption DEF Place
  <2>4. 2 * Half * k < 2 * Half /\ 2 * Half * k > -(2 * Half)
    BY <2>2, <2>3
  <2>5. k = 0
    <3>1. ASSUME k >= 1
          PROVE  FALSE
      <4>1. 2 * Half * k >= 2 * Half
        BY <2>3, <3>1
      <4> QED
        BY <2>3, <2>4, <4>1
    <3>2. ASSUME k <= -1
          PROVE  FALSE
      <4>1. 2 * Half * k <= -(2 * Half)
        BY <2>3, <3>2
      <4> QED
        BY <2>3, <2>4, <4>1
    <3> QED
      BY <3>1, <3>2
  <2>6. a[1] = b[1] /\ a[2] = b[2]
    BY <2>1, <2>2, <2>3, <2>5 DEF Same
  <2> QED
    BY <2>6 DEF Place
<1>4. ASSUME a = b
      PROVE  haversineKm(a, b) = 0
  <2>1. haversineKm(a, a) <= Magnitude(a[1] - a[1]) + Magnitude(a[2] - a[2])
    BY <1>1, DistanceIs
  <2>2. a[1] - a[1] = 0 /\ a[2] - a[2] = 0
    BY <1>1 DEF Point
  <2>3. haversineKm(a, a) <= 0
    BY <2>1, <2>2 DEF Magnitude
  <2> QED
    BY <1>2, <1>4, <2>3
<1> QED
  BY <1>2, <1>3, <1>4

\* The records a cable network is made of.
CableEdges == [from : Nat, to : Nat, w : Nat, line : Nat, rev : BOOLEAN]

GraphRecords ==
  [coord : Seq(Place), line : Seq(Lines), edge : SUBSET CableEdges,
   pieces : SUBSET SUBSET Nat]

\* A cable network: landings in places of their own, and edges between landings,
\* along cables that are there, each with one the other way.
Wired(edge, N, L) ==
  \A e \in edge : /\ e.from \in 1..N /\ e.to \in 1..N /\ e.line \in 0..L
                  /\ \E f \in edge : f.from = e.to /\ f.to = e.from

Distinct(coord) == \A m, n \in 1..Len(coord) : coord[m] = coord[n] => m = n

\* An edge along a cable is as long as the cable, whose ends are near the landings
\* they belong to; any other edge is as long as the great circle.
Entry(line, rev) == line[IF rev THEN Len(line) ELSE 1]

Measured(coord, lines, e) ==
  IF e.line = 0 THEN e.w = haversineKm(coord[e.from], coord[e.to])
  ELSE /\ e.w = pathLengthKm(lines[e.line])
       /\ haversineKm(coord[e.from], Entry(lines[e.line], e.rev)) < ClusterKm
       /\ haversineKm(coord[e.to], Entry(lines[e.line], ~e.rev)) < ClusterKm

Weighed(g) == \A e \in g.edge : Measured(g.coord, g.line, e)

CableGraphs ==
  {g \in GraphRecords :
     Distinct(g.coord) /\ Wired(g.edge, Len(g.coord), Len(g.line)) /\ Weighed(g)}

\* What is known of a network, part by part.
LEMMA CableGraphIs ==
  ASSUME NEW g \in CableGraphs
  PROVE  /\ g.coord \in Seq(Place) /\ Len(g.coord) \in Nat /\ DOMAIN g.coord = 1..Len(g.coord)
         /\ \A n \in 1..Len(g.coord) : g.coord[n] \in Place
         /\ g.line \in Seq(Lines) /\ Len(g.line) \in Nat
         /\ g.edge \in SUBSET CableEdges /\ g.pieces \in SUBSET SUBSET Nat
         /\ Distinct(g.coord) /\ Wired(g.edge, Len(g.coord), Len(g.line)) /\ Weighed(g)
  BY DEF CableGraphs, GraphRecords

\* More landings and more lines leave an edge measured.
LEMMA MeasuredStill ==
  ASSUME NEW coord, NEW lines, NEW N, NEW L, NEW c, NEW l,
         NEW e, e.from \in 1..N, e.to \in 1..N, e.line \in 0..L,
         \A n \in 1..N : c[n] = coord[n], \A k \in 1..L : l[k] = lines[k],
         L \in Nat, Measured(coord, lines, e)
  PROVE  Measured(c, l, e)
<1>1. c[e.from] = coord[e.from] /\ c[e.to] = coord[e.to]
  OBVIOUS
<1>2. CASE e.line = 0
  BY <1>1, <1>2 DEF Measured
<1>3. CASE e.line # 0
  <2>1. l[e.line] = lines[e.line]
    BY <1>3
  <2> QED
    BY <1>1, <1>3, <2>1 DEF Measured
<1> QED
  BY <1>2, <1>3

\* A point of a cable, as the data has it or carried on over the dateline.
Berth == {p \in Point : p[1] >= -Half}

\* Where a point is put, and the landings near enough to take it in.
At(p) == <<normLon(p[1]), p[2]>>

NearBy(g, p) ==
  {n \in DOMAIN g.coord :
     /\ \A k \in 1..2 : g.coord[n][k] \div Cell - At(p)[k] \div Cell \in -1..1
     /\ haversineKm(g.coord[n], At(p)) < ClusterKm}

\* A point of a line is put in such a place.
LEMMA AtIs == \A p \in Berth : At(p) \in Place /\ Same(p, At(p))
<1> TAKE p \in Berth
<1>1. p[1] \in Int /\ p[2] \in Int /\ p[1] >= -Half
  BY DEF Berth, Point
<1>2. normLon(p[1]) \in -Half..Half - 1 /\ normLon(p[1]) - p[1] \in Turns
  BY <1>1, NormLonIs
<1> QED
  BY <1>1, <1>2 DEF At, Place, Same

\* The landing of a point is one of the network or none, and one there is when
\* a landing lies in its very place.
LEMMA LandingIs ==
  ASSUME NEW g \in CableGraphs, NEW p \in Berth
  PROVE  /\ Landing(g, p) \in 0..Len(g.coord)
         /\ \A n \in 1..Len(g.coord) : g.coord[n] = At(p) => Landing(g, p) # 0
         /\ Landing(g, p) # 0 => haversineKm(g.coord[Landing(g, p)], p) < ClusterKm
<1> DEFINE near == NearBy(g, p)
           far(n) == haversineKm(g.coord[n], At(p))
           best == CHOOSE n \in near : \A m \in near : far(n) <= far(m)
<1>1. Landing(g, p) = IF near = {} THEN 0 ELSE best
  BY DEF Landing, NearBy, At
<1>2. /\ Len(g.coord) \in Nat /\ DOMAIN g.coord = 1..Len(g.coord) /\ At(p) \in Place
      /\ \A n \in 1..Len(g.coord) : g.coord[n] \in Place
  BY CableGraphIs, AtIs
<1>3. near \subseteq 1..Len(g.coord)
  BY <1>2 DEF NearBy
<1>4. near # {} => best \in near
  <2>1. \A n \in near : far(n) \in Nat
    BY <1>2, <1>3, PlacesApart
  <2> DEFINE G == {far(n) : n \in near}
  <2> SUFFICES ASSUME near # {}
               PROVE  best \in near
    OBVIOUS
  <2> HIDE DEF far, near
  <2>2. G \in SUBSET Nat /\ G # {}
    BY <2>1
  <2>3. \E m \in G : \A n \in G : m <= n
    <3> HIDE DEF G
    <3> QED
      BY <2>2, LeastNatural
  <2>4. \E n \in near : \A m \in near : far(n) <= far(m)
    BY <2>3
  <2> QED
    BY <2>4
<1>5. ASSUME NEW n \in 1..Len(g.coord), g.coord[n] = At(p)
      PROVE  n \in near
  <2>1. haversineKm(g.coord[n], At(p)) = 0 /\ ClusterKm \in Nat \ {0}
    BY <1>2, <1>5, PlacesApart, CableAssumption
  <2>2. \A k \in 1..2 : g.coord[n][k] \div Cell - At(p)[k] \div Cell \in -1..1
    <3> TAKE k \in 1..2
    <3>1. At(p)[k] \in Int /\ Cell \in Nat \ {0}
      BY <1>2, GeographyAssumption, CableAssumption, SMTT(30) DEF Place
    <3>2. At(p)[k] \div Cell \in Int
      BY <3>1
    <3>3. g.coord[n][k] \div Cell = At(p)[k] \div Cell
      BY <1>5
    <3> QED
      BY <3>2, <3>3
  <2> QED
    BY <1>2, <2>1, <2>2 DEF NearBy
<1> HIDE DEF near, best
<1>6. Landing(g, p) \in 0..Len(g.coord)
  <2>1. CASE near = {}
    BY <1>1, <1>2, <2>1
  <2>2. CASE near # {}
    <3>1. best \in 1..Len(g.coord) /\ Landing(g, p) = best
      BY <1>1, <1>3, <1>4, <2>2
    <3> QED
      BY <1>2, <3>1
  <2> QED
    BY <2>1, <2>2
<1>7. ASSUME NEW n \in 1..Len(g.coord), g.coord[n] = At(p)
      PROVE  Landing(g, p) # 0
  BY <1>1, <1>2, <1>3, <1>4, <1>5, <1>7
<1>8. ASSUME Landing(g, p) # 0
      PROVE  haversineKm(g.coord[Landing(g, p)], p) < ClusterKm
  <2>1. Landing(g, p) = best /\ best \in near
    BY <1>1, <1>4, <1>8
  <2>2. best \in 1..Len(g.coord) /\ haversineKm(g.coord[best], At(p)) < ClusterKm
    BY <1>3, <2>1 DEF NearBy, near
  <2>3. g.coord[best] \in Point /\ At(p) \in Point /\ p \in Point /\ Same(p, At(p))
    BY <1>2, <2>2, AtIs, PlaceIsPoint DEF Berth
  <2>4. haversineKm(g.coord[best], p) = haversineKm(g.coord[best], At(p))
    BY <2>3, SameSelf, DistanceSame
  <2> QED
    BY <2>1, <2>2, <2>4
<1> QED
  BY <1>6, <1>7, <1>8

\* The landings of g are among those of h, each where it was.
Grown(g, h) ==
  /\ Len(g.coord) <= Len(h.coord)
  /\ \A n \in 1..Len(g.coord) : h.coord[n] = g.coord[n]

\* findOrAdd keeps the network one, and the point has a landing then.
LEMMA FindOrAddIs ==
  ASSUME NEW g \in CableGraphs, NEW p \in Berth
  PROVE  LET h == findOrAdd(g, p)
         IN  /\ h \in CableGraphs /\ h.line = g.line /\ Grown(g, h)
             /\ Landing(h, p) \in 1..Len(h.coord)
             /\ haversineKm(h.coord[Landing(h, p)], p) < ClusterKm
<1> DEFINE h == findOrAdd(g, p)
           N == Len(g.coord)
<1>1. /\ g.coord \in Seq(Place) /\ N \in Nat /\ DOMAIN g.coord = 1..N
      /\ g.line \in Seq(Lines) /\ Len(g.line) \in Nat
      /\ g.edge \in SUBSET CableEdges /\ g.pieces \in SUBSET SUBSET Nat
      /\ Distinct(g.coord) /\ Wired(g.edge, N, Len(g.line)) /\ Weighed(g)
  BY CableGraphIs
<1>2. /\ Landing(g, p) \in 0..N /\ At(p) \in Place
      /\ \A n \in 1..N : g.coord[n] = At(p) => Landing(g, p) # 0
  BY LandingIs, AtIs
<1>3. CASE Landing(g, p) # 0
  <2>1. h = g
    BY <1>3 DEF findOrAdd
  <2>2. Landing(h, p) \in 1..Len(h.coord)
    BY <1>1, <1>2, <1>3, <2>1
  <2>3. haversineKm(h.coord[Landing(h, p)], p) < ClusterKm
    BY <1>3, <2>1, LandingIs
  <2> QED
    BY <1>1, <2>1, <2>2, <2>3 DEF Grown
<1>4. CASE Landing(g, p) = 0
  <2>1. h = [coord |-> Append(g.coord, At(p)), line |-> g.line, edge |-> g.edge,
             pieces |-> g.pieces \cup {{N + 1}}]
    BY <1>4 DEF findOrAdd, At, CableGraphs, GraphRecords
  <2> HIDE DEF h
  <2>2. /\ h.coord \in Seq(Place) /\ Len(h.coord) = N + 1 /\ h.coord[N + 1] = At(p)
        /\ \A n \in 1..N : h.coord[n] = g.coord[n]
    BY <1>1, <1>2, <2>1
  <2>3. Distinct(h.coord)
    <3>1. ASSUME NEW m \in 1..Len(h.coord), NEW n \in 1..Len(h.coord), h.coord[m] = h.coord[n]
          PROVE  m = n
      <4>1. \A i \in 1..N : g.coord[i] # At(p)
        BY <1>2, <1>4
      <4>2. CASE m = N + 1 \/ n = N + 1
        BY <1>1, <2>2, <3>1, <4>1, <4>2, SMTT(30)
      <4>3. CASE m # N + 1 /\ n # N + 1
        <5>1. m \in 1..N /\ n \in 1..N
          BY <1>1, <2>2, <4>3
        <5> QED
          BY <1>1, <2>2, <3>1, <5>1 DEF Distinct
      <4> QED
        BY <4>2, <4>3
    <3> QED
      BY <3>1 DEF Distinct
  <2>4. Wired(h.edge, Len(h.coord), Len(h.line))
    <3>1. 1..N \subseteq 1..N + 1
      BY <1>1
    <3>2. h.edge = g.edge /\ h.line = g.line
      BY <2>1
    <3> QED
      BY <1>1, <2>2, <3>1, <3>2 DEF Wired
  <2>10. Weighed(h)
    <3>1. h.edge = g.edge /\ h.line = g.line
      BY <2>1
    <3>2. ASSUME NEW e \in g.edge
          PROVE  Measured(h.coord, h.line, e)
      <4>1. e.from \in 1..N /\ e.to \in 1..N /\ e.line \in 0..Len(g.line)
        BY <1>1 DEF Wired
      <4>2. Measured(g.coord, g.line, e)
        BY <1>1 DEF Weighed
      <4> QED
        BY <1>1, <2>2, <3>1, <4>1, <4>2, MeasuredStill
    <3> QED
      BY <3>1, <3>2 DEF Weighed
  <2>5. h.pieces \in SUBSET SUBSET Nat
    <3>1. {N + 1} \in SUBSET Nat
      BY <1>1
    <3> QED
      BY <1>1, <2>1, <3>1
  <2>6. h \in CableGraphs
    BY <1>1, <2>1, <2>2, <2>3, <2>4, <2>5, <2>10 DEF CableGraphs, GraphRecords
  <2>7. /\ Landing(h, p) \in 1..Len(h.coord)
        /\ haversineKm(h.coord[Landing(h, p)], p) < ClusterKm
    <3>1. N + 1 \in 1..Len(h.coord)
      BY <1>1, <2>2
    <3>2. Landing(h, p) \in 0..Len(h.coord) /\ Landing(h, p) # 0
          /\ haversineKm(h.coord[Landing(h, p)], p) < ClusterKm
      BY <2>2, <2>6, <3>1, LandingIs
    <3> QED
      BY <1>1, <2>2, <3>2
  <2>8. Grown(g, h)
    BY <1>1, <2>2 DEF Grown
  <2> QED
    BY <2>1, <2>6, <2>7, <2>8 DEF h
<1> QED
  BY <1>3, <1>4

\* The two edges addEdge adds, there and back.
There(a, b, w, line) == [from |-> a, to |-> b, w |-> w, line |-> line, rev |-> FALSE]

\* An edge measured one way is measured the other way.
LEMMA MeasuredBack ==
  ASSUME NEW coord, NEW lines, NEW a, NEW b, NEW w, NEW line,
         coord[a] \in Point, coord[b] \in Point, Measured(coord, lines, There(a, b, w, line))
  PROVE  \A e \in Both(a, b, w, line) : Measured(coord, lines, e)
<1> DEFINE there == There(a, b, w, line)
           back == [from |-> b, to |-> a, w |-> w, line |-> line, rev |-> TRUE]
<1>1. /\ there.from = a /\ there.to = b /\ there.w = w /\ there.line = line
      /\ there.rev = FALSE
      /\ back.from = b /\ back.to = a /\ back.w = w /\ back.line = line /\ back.rev = TRUE
  BY DEF There
<1>2. Both(a, b, w, line) = {there, back} /\ Measured(coord, lines, there)
  BY DEF Both, There
<1>3. haversineKm(coord[a], coord[b]) = haversineKm(coord[b], coord[a])
  BY DistanceBack
<1> HIDE DEF there, back
<1>4. Measured(coord, lines, back)
  <2>1. CASE line = 0
    BY <1>1, <1>2, <1>3, <2>1 DEF Measured
  <2>2. CASE line # 0
    BY <1>1, <1>2, <2>2 DEF Measured, Entry
  <2> QED
    BY <2>1, <2>2
<1> QED
  BY <1>2, <1>4

\* addEdge keeps the network one; between two landings apart it adds both edges.
LEMMA AddEdgeIs ==
  ASSUME NEW g \in CableGraphs, NEW a \in 1..Len(g.coord), NEW b \in 1..Len(g.coord),
         NEW w \in Nat, NEW line \in 0..Len(g.line),
         Measured(g.coord, g.line, There(a, b, w, line))
  PROVE  LET h == addEdge(g, a, b, w, line)
         IN  /\ h \in CableGraphs /\ h.coord = g.coord /\ h.line = g.line
             /\ g.edge \subseteq h.edge
             /\ a # b /\ w # 0 =>
                  h.edge = g.edge \cup Both(a, b, w, line)
<1> DEFINE h == addEdge(g, a, b, w, line)
           N == Len(g.coord)
           new == IF a = b \/ w <= 0 THEN {} ELSE Both(a, b, w, line)
<1>1. /\ g.coord \in Seq(Place) /\ N \in Nat /\ DOMAIN g.coord = 1..N
      /\ g.line \in Seq(Lines) /\ Len(g.line) \in Nat
      /\ g.edge \in SUBSET CableEdges /\ g.pieces \in SUBSET SUBSET Nat
      /\ Distinct(g.coord) /\ Wired(g.edge, N, Len(g.line)) /\ Weighed(g)
  BY CableGraphIs
<1>2. h = [coord |-> g.coord, line |-> g.line, edge |-> g.edge \cup new,
           pieces |-> union(g.pieces, a, b)]
  <2>1. h = [g EXCEPT !.edge = @ \cup new, !.pieces = union(@, a, b)]
    BY DEF addEdge
  <2>2. g \in GraphRecords
    BY DEF CableGraphs
  <2> HIDE DEF new, h
  <2> QED
    BY <2>1, <2>2 DEF GraphRecords
<1>3. new \in SUBSET CableEdges
  BY <1>1 DEF Both, CableEdges
<1>4. union(g.pieces, a, b) \in SUBSET SUBSET Nat
  <2> DEFINE both == {c \in g.pieces : a \in c \/ b \in c}
  <2>1. UNION both \in SUBSET Nat
    BY <1>1
  <2> QED
    BY <1>1, <2>1 DEF union
<1>5. ASSUME NEW e \in g.edge \cup new
      PROVE  /\ e.from \in 1..N /\ e.to \in 1..N /\ e.line \in 0..Len(g.line)
             /\ \E f \in g.edge \cup new : f.from = e.to /\ f.to = e.from
  <2>1. CASE e \in g.edge
    BY <1>1, <2>1 DEF Wired
  <2>2. CASE e \in new
    <3> DEFINE there == [from |-> a, to |-> b, w |-> w, line |-> line, rev |-> FALSE]
               back == [from |-> b, to |-> a, w |-> w, line |-> line, rev |-> TRUE]
    <3>1. e \in Both(a, b, w, line) /\ new = Both(a, b, w, line)
      BY <2>2
    <3>2. Both(a, b, w, line) = {there, back}
      BY DEF Both
    <3>3. /\ there.from = a /\ there.to = b /\ there.line = line
          /\ back.from = b /\ back.to = a /\ back.line = line
      OBVIOUS
    <3> HIDE DEF there, back, new
    <3>4. \E f \in new : f.from = e.to /\ f.to = e.from
      BY <3>1, <3>2, <3>3
    <3>5. e.from \in 1..N /\ e.to \in 1..N /\ e.line \in 0..Len(g.line)
      BY <3>1, <3>2, <3>3
    <3> QED
      BY <3>4, <3>5
  <2> QED
    BY <2>1, <2>2
<1>6. Wired(h.edge, N, Len(g.line))
  <2> HIDE DEF new, h
  <2>1. h.edge = g.edge \cup new
    BY <1>2
  <2> QED
    BY <1>5, <2>1 DEF Wired
<1>9. Weighed(h)
  <2>1. g.coord[a] \in Point /\ g.coord[b] \in Point
    BY CableGraphIs, PlaceIsPoint
  <2>2. \A e \in new : Measured(g.coord, g.line, e)
    <3>1. new \subseteq Both(a, b, w, line)
      OBVIOUS
    <3> HIDE DEF new
    <3> QED
      BY <2>1, <3>1, MeasuredBack
  <2> HIDE DEF new, h
  <2> QED
    BY <1>1, <1>2, <2>2 DEF Weighed
<1> HIDE DEF new, h
<1>7. h \in CableGraphs
  BY <1>1, <1>2, <1>3, <1>4, <1>6, <1>9 DEF CableGraphs, GraphRecords
<1>8. a # b /\ w # 0 => new = Both(a, b, w, line)
  BY DEF new
<1> QED
  BY <1>2, <1>7, <1>8 DEF h

\* A stitched line has ends that can be landings.
LEMMA LineEndsAre ==
  ASSUME NEW seg \in Lines
  PROVE  seg # <<>> /\ seg[1] \in Berth /\ Last(seg) \in Berth
<1>1. seg \in Seq((-Half..3 * Half) \X Int) /\ Len(seg) >= 2
  BY DEF Lines
<1>2. (-Half..3 * Half) \X Int \subseteq Berth
  BY GeographyAssumption DEF Berth, Point
<1>3. seg[1] \in (-Half..3 * Half) \X Int /\ seg[Len(seg)] \in (-Half..3 * Half) \X Int
  BY <1>1
<1> QED
  BY <1>1, <1>2, <1>3 DEF Last

\* Its length is a natural number.
LEMMA LengthIs ==
  ASSUME NEW seg \in Lines
  PROVE  pathLengthKm(seg) \in Nat
<1> DEFINE n == Len(seg)
           f == [i \in 1..n - 1 |-> haversineKm(seg[i], seg[i + 1])]
<1>1. n \in Nat /\ n >= 2 /\ \A i \in 1..n : seg[i] \in Point
  <2>1. seg \in Seq((-Half..3 * Half) \X Int) /\ Len(seg) >= 2
    BY DEF Lines
  <2>2. (-Half..3 * Half) \X Int \subseteq Point
    BY GeographyAssumption DEF Point
  <2> QED
    BY <2>1, <2>2
<1>2. IsFiniteSet(1..n - 1)
  BY <1>1, FS_Interval
<1>3. \A i \in 1..n - 1 : f[i] \in Nat
  BY <1>1, DistanceIs
<1>4. pathLengthKm(seg) = SumFunctionOnSet(f, 1..n - 1)
  BY DEF pathLengthKm, SumFunction
<1> HIDE DEF f
<1> QED
  BY <1>2, <1>3, <1>4, SumNat

\* A network and some of its landings.
Listed ==
  {s \in [g : CableGraphs, uniq : Seq(Nat)] :
     \A i \in 1..Len(s.uniq) : s.uniq[i] \in 1..Len(s.g.coord)}

\* A list with one more member is a list.
LEMMA WithMemberIs ==
  ASSUME NEW S, NEW list \in Seq(S), NEW n \in S
  PROVE  WithMember(list, n) \in Seq(S)
<1>1. Append(list, n) \in Seq(S)
  OBVIOUS
<1> QED
  BY <1>1, Zenon DEF WithMember

\* A line more, field by field.
LEMMA LineAdded ==
  ASSUME NEW t \in GraphRecords, NEW seg \in Lines
  PROVE  /\ [t EXCEPT !.line = Append(@, seg)] =
              [coord |-> t.coord, line |-> Append(t.line, seg), edge |-> t.edge,
               pieces |-> t.pieces]
         /\ Append(t.line, seg) \in Seq(Lines)
         /\ Len(Append(t.line, seg)) = Len(t.line) + 1
<1>1. t = [coord |-> t.coord, line |-> t.line, edge |-> t.edge, pieces |-> t.pieces]
  BY DEF GraphRecords
<1>2. t.line \in Seq(Lines)
  BY DEF GraphRecords
<1>3. Append(t.line, seg) \in Seq(Lines) /\ Len(Append(t.line, seg)) = Len(t.line) + 1
  BY <1>2
<1>4. [t EXCEPT !.line = Append(@, seg)] =
        [coord |-> t.coord, line |-> Append(t.line, seg), edge |-> t.edge,
         pieces |-> t.pieces]
  BY <1>1
<1> QED
  BY <1>3, <1>4

\* One more segment leaves a network and some of its landings.
LEMMA SegmentKeeps ==
  ASSUME NEW acc \in Listed, NEW seg \in Lines
  PROVE  AddSegment(acc, seg) \in Listed
<1> DEFINE one == findOrAdd(acc.g, seg[1])
           two == findOrAdd(one, Last(seg))
           ia == Landing(one, seg[1])
           ib == Landing(two, Last(seg))
           g == [two EXCEPT !.line = Append(@, seg)]
           h == addEdge(g, ia, ib, pathLengthKm(seg), Len(g.line))
           uniq == WithMember(WithMember(acc.uniq, ia), ib)
<1>1. CASE Len(seg) < 2 \/ crossesArctic(seg)
  BY <1>1 DEF AddSegment
<1>2. CASE ~(Len(seg) < 2 \/ crossesArctic(seg))
  <2>1. AddSegment(acc, seg) = [g |-> h, uniq |-> uniq]
    BY <1>2 DEF AddSegment
  <2>2. /\ acc.g \in CableGraphs /\ acc.uniq \in Seq(Nat) /\ Len(acc.g.coord) \in Nat
        /\ \A i \in 1..Len(acc.uniq) : acc.uniq[i] \in 1..Len(acc.g.coord)
    BY CableGraphIs DEF Listed
  <2>3. seg[1] \in Berth /\ Last(seg) \in Berth /\ pathLengthKm(seg) \in Nat
    BY LineEndsAre, LengthIs
  <2>4. /\ one \in CableGraphs /\ Grown(acc.g, one) /\ ia \in 1..Len(one.coord)
        /\ haversineKm(one.coord[ia], seg[1]) < ClusterKm
    BY <2>2, <2>3, FindOrAddIs
  <2> HIDE DEF one
  <2>5. /\ two \in CableGraphs /\ Grown(one, two) /\ ib \in 1..Len(two.coord)
        /\ haversineKm(two.coord[ib], Last(seg)) < ClusterKm
    BY <2>3, <2>4, FindOrAddIs
  <2> HIDE DEF two, ia, ib
  <2>6. /\ Len(two.coord) \in Nat /\ Len(one.coord) \in Nat
        /\ Len(acc.g.coord) <= Len(two.coord)
        /\ ia \in 1..Len(two.coord) /\ ib \in 1..Len(two.coord)
    <3>1. Len(two.coord) \in Nat /\ Len(one.coord) \in Nat
      BY <2>4, <2>5, CableGraphIs
    <3> QED
      BY <2>2, <2>4, <2>5, <3>1 DEF Grown
  <2>7. /\ g \in CableGraphs /\ g.coord = two.coord
        /\ Len(g.line) \in Nat /\ Len(g.line) >= 1
    <3>1. two \in GraphRecords /\ Distinct(two.coord)
          /\ Wired(two.edge, Len(two.coord), Len(two.line)) /\ Len(two.line) \in Nat
          /\ Weighed(two)
      BY <2>5, CableGraphIs DEF CableGraphs
    <3>2. g = [coord |-> two.coord, line |-> Append(two.line, seg), edge |-> two.edge,
               pieces |-> two.pieces]
      BY <3>1, LineAdded
    <3>3. Append(two.line, seg) \in Seq(Lines) /\ Len(Append(two.line, seg)) = Len(two.line) + 1
      BY <3>1, LineAdded
    <3>4. Wired(two.edge, Len(two.coord), Len(two.line) + 1)
      <4>1. 0..Len(two.line) \subseteq 0..Len(two.line) + 1
        BY <3>1
      <4> QED
        BY <3>1, <4>1 DEF Wired
    <3> HIDE DEF g
    <3>5. g \in GraphRecords
      BY <3>1, <3>2, <3>3 DEF GraphRecords
    <3>6. ASSUME NEW e \in two.edge
          PROVE  Measured(g.coord, g.line, e)
      <4>1. /\ e.from \in 1..Len(two.coord) /\ e.to \in 1..Len(two.coord)
            /\ e.line \in 0..Len(two.line) /\ Measured(two.coord, two.line, e)
        BY <3>1 DEF Wired, Weighed
      <4>2. \A k \in 1..Len(two.line) : g.line[k] = two.line[k]
        BY <3>1, <3>2 DEF GraphRecords
      <4> QED
        BY <3>1, <3>2, <4>1, <4>2, MeasuredStill
    <3>7. Weighed(g)
      BY <3>2, <3>6 DEF Weighed
    <3> QED
      BY <3>1, <3>2, <3>3, <3>4, <3>5, <3>7 DEF CableGraphs
  <2>11. g.line[Len(g.line)] = seg
    <3>1. two \in GraphRecords
      BY <2>5 DEF CableGraphs
    <3>2. g.line = Append(two.line, seg) /\ two.line \in Seq(Lines)
      BY <3>1, LineAdded DEF GraphRecords
    <3> QED
      BY <3>2
  <2> HIDE DEF g
  <2>8. h \in CableGraphs /\ h.coord = two.coord
    <3> DEFINE w == pathLengthKm(seg)
               l == Len(g.line)
    <3>1. l \in 0..l /\ l # 0 /\ w \in Nat
      BY <2>3, <2>7
    <3>2. g.coord[ia] = one.coord[ia]
      BY <2>4, <2>5, <2>7 DEF Grown
    <3>3. Measured(g.coord, g.line, There(ia, ib, w, l))
      <4> DEFINE e == There(ia, ib, w, l)
      <4>1. e.from = ia /\ e.to = ib /\ e.w = w /\ e.line = l /\ e.rev = FALSE
        BY DEF There
      <4>2. Entry(seg, FALSE) = seg[1] /\ Entry(seg, ~FALSE) = Last(seg)
        BY DEF Entry, Last
      <4> HIDE DEF e
      <4> QED
        BY <2>4, <2>5, <2>7, <2>11, <3>1, <3>2, <4>1, <4>2 DEF Measured, e
    <3> HIDE DEF w, l
    <3>4. h = addEdge(g, ia, ib, w, l)
      BY DEF w, l
    <3> HIDE DEF h
    <3>5. ia \in 1..Len(g.coord) /\ ib \in 1..Len(g.coord) /\ l \in 0..Len(g.line)
      BY <2>6, <2>7, <3>1 DEF l
    <3>6. h \in CableGraphs /\ h.coord = g.coord
      BY <2>7, <3>1, <3>3, <3>4, <3>5, AddEdgeIs
    <3> QED
      BY <2>7, <3>6
  <2> HIDE DEF h
  <2>9. uniq \in Seq(1..Len(two.coord))
    <3>1. acc.uniq \in Seq(1..Len(two.coord))
      <4>0. 1..Len(acc.g.coord) \subseteq 1..Len(two.coord)
        BY <2>2, <2>6
      <4>1. \A i \in 1..Len(acc.uniq) : acc.uniq[i] \in 1..Len(two.coord)
        BY <2>2, <4>0
      <4> QED
        BY <2>2, <4>1
    <3>2. WithMember(acc.uniq, ia) \in Seq(1..Len(two.coord))
      BY <2>6, <3>1, WithMemberIs
    <3> QED
      BY <2>6, <3>2, WithMemberIs
  <2> HIDE DEF uniq
  <2>10. uniq \in Seq(Nat) /\ \A i \in 1..Len(uniq) : uniq[i] \in 1..Len(h.coord)
    <3>1. 1..Len(two.coord) \subseteq Nat
      BY <2>6
    <3> QED
      BY <2>8, <2>9, <3>1
  <2> QED
    BY <2>1, <2>8, <2>10 DEF Listed
<1> QED
  BY <1>1, <1>2

\* So do all the segments of a system.
LEMMA SegmentsFold ==
  ASSUME NEW base \in Listed,
         NEW segs \in Seq(Lines)
  PROVE  FoldLeft(AddSegment, base, segs)
           \in Listed
<1> DEFINE n == Len(segs)
           V == Listed
           R(f) == f = [T \in SUBSET (DOMAIN segs) |->
                          IF T = {} THEN base
                          ELSE AddSegment(f[T \ {Max(T)}], segs[Max(T)])]
           F == CHOOSE f : R(f)
           step == [a \in (1..n) \X V |-> AddSegment(a[2], segs[a[1]])]
<1>1. FoldLeft(AddSegment, base, segs) = F[DOMAIN segs]
  BY Zenon DEF FoldLeft, MapThenFoldSet
<1>2. n \in Nat /\ DOMAIN segs = 1..n /\ \A i \in 1..n : segs[i] \in Lines
  OBVIOUS
<1>3. R(F)
  <2>1. \A a \in (1..n) \X V : AddSegment(a[2], segs[a[1]]) \in V
    BY <1>2, SegmentKeeps
  <2>2. step \in [(1..n) \X V -> V]
    BY <2>1
  <2>3. \A i \in 1..n, v \in V : step[<<i, v>>] = AddSegment(v, segs[i])
    OBVIOUS
  <2> HIDE DEF step, V, n
  <2>4. PICK f \in [SUBSET (1..n) -> V] : Folds(f, n, base, step)
    <3>1. base \in V
      BY DEF V
    <3>2. CanFold(n, V, base, step)
      BY <1>2, <2>2, <3>1, FoldExists
    <3> QED
      BY <3>2, Zenon DEF CanFold
  <2>5. ASSUME NEW T \in SUBSET (1..n), T # {}
        PROVE  f[T] = AddSegment(f[T \ {Max(T)}], segs[Max(T)])
    <3>1. Max(T) \in 1..n /\ f[T \ {Max(T)}] \in V
      BY <1>2, <2>5, MaxIs
    <3>2. f[T] = step[<<Max(T), f[T \ {Max(T)}]>>]
      BY <2>4, <2>5 DEF Folds
    <3> QED
      BY <2>3, <3>1, <3>2
  <2>6. f[{}] = base
    BY <2>4 DEF Folds
  <2>7. R(f)
    BY <1>2, <2>4, <2>5, <2>6
  <2> QED
    BY <2>7
<1> HIDE DEF F
<1>4. F[{}] = base
  BY <1>3
<1>5. ASSUME NEW k \in 1..n
      PROVE  F[1..k] = AddSegment(F[1..k - 1], segs[k])
  <2>1. /\ 1..k \in SUBSET (DOMAIN segs) /\ 1..k # {}
        /\ Max(1..k) = k /\ (1..k) \ {k} = 1..k - 1
    BY <1>2, UpTo
  <2> HIDE DEF n
  <2> QED
    BY <1>3, <2>1
<1>6. \A k \in 1..n : F[1..k - 1] \in V => F[1..k] \in V
  BY <1>2, <1>5, SegmentKeeps
<1> HIDE DEF V, n
<1>7. \A k \in 0..n : F[1..k] \in V
  BY <1>2, <1>4, <1>6, FoldInduction DEF V
<1>8. FoldLeft(AddSegment, base, segs) = F[1..n]
  BY <1>1, <1>2
<1>9. F[1..n] \in V
  BY <1>2, <1>7
<1> QED
  BY <1>8, <1>9, Zenon DEF V

\* Two landings of a network, and the networks with its landings.
Pairs(g) == (1..Len(g.coord)) \X (1..Len(g.coord))

Chorded(g) == {h \in CableGraphs : h.coord = g.coord}

\* One more chord leaves a network with the same landings.
LEMMA ChordKeeps ==
  ASSUME NEW g \in CableGraphs, NEW h \in Chorded(g), NEW p \in Pairs(g)
  PROVE  Chord(h, p) \in Chorded(g)
<1>1. h \in CableGraphs /\ h.coord = g.coord
  BY DEF Chorded
<1>2. p[1] \in 1..Len(h.coord) /\ p[2] \in 1..Len(h.coord)
  BY <1>1 DEF Pairs
<1>3. haversineKm(h.coord[p[1]], h.coord[p[2]]) \in Nat
  BY <1>1, <1>2, CableGraphIs, PlacesApart
<1>4. 0 \in 0..Len(h.line)
  BY <1>1, CableGraphIs
<1>5. CASE Joined(h.pieces, p[1], p[2])
  BY <1>5 DEF Chord
<1>6. CASE ~Joined(h.pieces, p[1], p[2])
  <2> DEFINE w == haversineKm(h.coord[p[1]], h.coord[p[2]])
  <2>1. Chord(h, p) = addEdge(h, p[1], p[2], w, 0)
    BY <1>6 DEF Chord
  <2> HIDE DEF w
  <2>3. Measured(h.coord, h.line, There(p[1], p[2], w, 0))
    BY DEF Measured, There, w
  <2>2. addEdge(h, p[1], p[2], w, 0) \in CableGraphs
        /\ addEdge(h, p[1], p[2], w, 0).coord = h.coord
    BY <1>1, <1>2, <1>3, <1>4, <2>3, AddEdgeIs DEF w
  <2> QED
    BY <1>1, <2>1, <2>2 DEF Chorded
<1> QED
  BY <1>5, <1>6

\* So do all the chords of a system.
LEMMA ChordsFold ==
  ASSUME NEW g \in CableGraphs,
         NEW base \in Chorded(g),
         NEW pairs \in Seq(Pairs(g))
  PROVE  FoldLeft(Chord, base, pairs)
           \in Chorded(g)
<1> DEFINE n == Len(pairs)
           V == Chorded(g)
           R(f) == f = [T \in SUBSET (DOMAIN pairs) |->
                          IF T = {} THEN base
                          ELSE Chord(f[T \ {Max(T)}], pairs[Max(T)])]
           F == CHOOSE f : R(f)
           step == [a \in (1..n) \X V |-> Chord(a[2], pairs[a[1]])]
<1>1. FoldLeft(Chord, base, pairs) = F[DOMAIN pairs]
  BY Zenon DEF FoldLeft, MapThenFoldSet
<1>2. n \in Nat /\ DOMAIN pairs = 1..n /\ \A i \in 1..n : pairs[i] \in Pairs(g)
  OBVIOUS
<1>3. R(F)
  <2>1. \A a \in (1..n) \X V : Chord(a[2], pairs[a[1]]) \in V
    BY <1>2, ChordKeeps
  <2>2. step \in [(1..n) \X V -> V]
    BY <2>1
  <2>3. \A i \in 1..n, v \in V : step[<<i, v>>] = Chord(v, pairs[i])
    OBVIOUS
  <2> HIDE DEF step, V, n
  <2>4. PICK f \in [SUBSET (1..n) -> V] : Folds(f, n, base, step)
    <3>1. base \in V
      BY DEF V
    <3>2. CanFold(n, V, base, step)
      BY <1>2, <2>2, <3>1, FoldExists
    <3> QED
      BY <3>2, Zenon DEF CanFold
  <2>5. ASSUME NEW T \in SUBSET (1..n), T # {}
        PROVE  f[T] = Chord(f[T \ {Max(T)}], pairs[Max(T)])
    <3>1. Max(T) \in 1..n /\ f[T \ {Max(T)}] \in V
      BY <1>2, <2>5, MaxIs
    <3>2. f[T] = step[<<Max(T), f[T \ {Max(T)}]>>]
      BY <2>4, <2>5 DEF Folds
    <3> QED
      BY <2>3, <3>1, <3>2
  <2>6. f[{}] = base
    BY <2>4 DEF Folds
  <2>7. R(f)
    BY <1>2, <2>4, <2>5, <2>6
  <2> QED
    BY <2>7
<1> HIDE DEF F
<1>4. F[{}] = base
  BY <1>3
<1>5. ASSUME NEW k \in 1..n
      PROVE  F[1..k] = Chord(F[1..k - 1], pairs[k])
  <2>1. /\ 1..k \in SUBSET (DOMAIN pairs) /\ 1..k # {}
        /\ Max(1..k) = k /\ (1..k) \ {k} = 1..k - 1
    BY <1>2, UpTo
  <2> HIDE DEF n
  <2> QED
    BY <1>3, <2>1
<1>6. \A k \in 1..n : F[1..k - 1] \in V => F[1..k] \in V
  BY <1>2, <1>5, ChordKeeps
<1> HIDE DEF V, n
<1>7. \A k \in 0..n : F[1..k] \in V
  BY <1>2, <1>4, <1>6, FoldInduction DEF V
<1>8. FoldLeft(Chord, base, pairs) = F[1..n]
  BY <1>1, <1>2
<1>9. F[1..n] \in V
  BY <1>2, <1>7
<1> QED
  BY <1>8, <1>9, Zenon DEF V

\* So addSystem makes a network of one.
LEMMA SystemKeeps ==
  ASSUME NEW g \in CableGraphs, NEW segs \in Seq(Lines)
  PROVE  addSystem(g, segs) \in CableGraphs
<1> DEFINE base == [g |-> g, uniq |-> <<>>]
           all == FoldLeft(AddSegment, base, segs)
           n == Len(all.uniq)
           rows == [i \in DOMAIN all.uniq |->
                      [k \in 1..Len(all.uniq) - i |-> <<all.uniq[i], all.uniq[i + k]>>]]
           pairs == FlattenSeq(rows)
<1>1. base \in Listed
  BY EmptySeq DEF Listed
<1> HIDE DEF base
<1>2. all \in Listed
  BY <1>1, SegmentsFold, Zenon
<1>3. addSystem(g, segs) = FoldLeft(Chord, all.g, pairs)
  BY Zenon DEF addSystem, base
<1> HIDE DEF all
<1>4. /\ all.g \in CableGraphs /\ n \in Nat /\ DOMAIN all.uniq = 1..n
      /\ \A i \in 1..n : all.uniq[i] \in 1..Len(all.g.coord)
  BY <1>2 DEF Listed
<1>5. rows \in Seq(Seq(Pairs(all.g)))
  <2>1. ASSUME NEW i \in 1..n
        PROVE  [k \in 1..n - i |-> <<all.uniq[i], all.uniq[i + k]>>] \in Seq(Pairs(all.g))
    <3>1. n - i \in Nat
      BY <1>4
    <3>2. \A k \in 1..n - i : i + k \in 1..n
      BY <1>4
    <3>3. \A k \in 1..n - i : <<all.uniq[i], all.uniq[i + k]>> \in Pairs(all.g)
      BY <1>4, <3>2 DEF Pairs
    <3> HIDE DEF n
    <3> QED
      BY <3>1, <3>3
  <2> DEFINE row(i) == [k \in 1..n - i |-> <<all.uniq[i], all.uniq[i + k]>>]
             P == Pairs(all.g)
  <2>2. rows = [i \in 1..n |-> row(i)]
    BY <1>4
  <2>3. \A i \in 1..n : row(i) \in Seq(P)
    BY <2>1
  <2> HIDE DEF rows, n, row, P
  <2>4. rows \in Seq(Seq(P))
    BY <1>4, <2>2, <2>3
  <2> QED
    BY <2>4 DEF P
<1> HIDE DEF rows
<1>6. pairs \in Seq(Pairs(all.g))
  BY <1>5, FlattenIs
<1> HIDE DEF pairs
<1>7. all.g \in Chorded(all.g)
  BY <1>4 DEF Chorded
<1>8. FoldLeft(Chord, all.g, pairs) \in Chorded(all.g)
  BY <1>4, <1>6, <1>7, ChordsFold, Zenon
<1>9. FoldLeft(Chord, all.g, pairs) \in CableGraphs
  BY <1>8, Zenon DEF Chorded
<1> QED
  BY <1>3, <1>9, Zenon

\* And so do all the systems, one after the other.
LEMMA SystemsFold ==
  ASSUME NEW base \in CableGraphs,
         NEW systems \in Seq(Seq(Lines))
  PROVE  FoldLeft(addSystem, base, systems)
           \in CableGraphs
<1> DEFINE n == Len(systems)
           V == CableGraphs
           R(f) == f = [T \in SUBSET (DOMAIN systems) |->
                          IF T = {} THEN base
                          ELSE addSystem(f[T \ {Max(T)}], systems[Max(T)])]
           F == CHOOSE f : R(f)
           step == [a \in (1..n) \X V |-> addSystem(a[2], systems[a[1]])]
<1>1. FoldLeft(addSystem, base, systems) = F[DOMAIN systems]
  BY Zenon DEF FoldLeft, MapThenFoldSet
<1>2. n \in Nat /\ DOMAIN systems = 1..n /\ \A i \in 1..n : systems[i] \in Seq(Lines)
  OBVIOUS
<1>3. R(F)
  <2>1. \A a \in (1..n) \X V : addSystem(a[2], systems[a[1]]) \in V
    BY <1>2, SystemKeeps
  <2>2. step \in [(1..n) \X V -> V]
    BY <2>1
  <2>3. \A i \in 1..n, v \in V : step[<<i, v>>] = addSystem(v, systems[i])
    OBVIOUS
  <2> HIDE DEF step, V, n
  <2>4. PICK f \in [SUBSET (1..n) -> V] : Folds(f, n, base, step)
    <3>1. base \in V
      BY DEF V
    <3>2. CanFold(n, V, base, step)
      BY <1>2, <2>2, <3>1, FoldExists
    <3> QED
      BY <3>2, Zenon DEF CanFold
  <2>5. ASSUME NEW T \in SUBSET (1..n), T # {}
        PROVE  f[T] = addSystem(f[T \ {Max(T)}], systems[Max(T)])
    <3>1. Max(T) \in 1..n /\ f[T \ {Max(T)}] \in V
      BY <1>2, <2>5, MaxIs
    <3>2. f[T] = step[<<Max(T), f[T \ {Max(T)}]>>]
      BY <2>4, <2>5 DEF Folds
    <3> QED
      BY <2>3, <3>1, <3>2
  <2>6. f[{}] = base
    BY <2>4 DEF Folds
  <2>7. R(f)
    BY <1>2, <2>4, <2>5, <2>6
  <2> QED
    BY <2>7
<1> HIDE DEF F
<1>4. F[{}] = base
  BY <1>3
<1>5. ASSUME NEW k \in 1..n
      PROVE  F[1..k] = addSystem(F[1..k - 1], systems[k])
  <2>1. /\ 1..k \in SUBSET (DOMAIN systems) /\ 1..k # {}
        /\ Max(1..k) = k /\ (1..k) \ {k} = 1..k - 1
    BY <1>2, UpTo
  <2> HIDE DEF n
  <2> QED
    BY <1>3, <2>1
<1>6. \A k \in 1..n : F[1..k - 1] \in V => F[1..k] \in V
  BY <1>2, <1>5, SystemKeeps
<1> HIDE DEF V, n
<1>7. \A k \in 0..n : F[1..k] \in V
  BY <1>2, <1>4, <1>6, FoldInduction DEF V
<1>8. FoldLeft(addSystem, base, systems) = F[1..n]
  BY <1>1, <1>2
<1>9. F[1..n] \in V
  BY <1>2, <1>7
<1> QED
  BY <1>8, <1>9, Zenon DEF V

----------------------------------------------------------------------------
(***************************************************************************)
(* What the edges connect.                                                 *)
(***************************************************************************)

\* Edges between the nodes 1..N, sets of nodes no edge leads out of, and a set
\* with the nodes its edges lead to.
Within(edge, N) == \A e \in edge : e.from \in 1..N /\ e.to \in 1..N

Closed(edge, C) == \A e \in edge : e.from \in C => e.to \in C

Grow(edge, r) == r \cup {e.to : e \in {f \in edge : f.from \in r}}

\* What is reached from a node is the least set with it that no edge leads out
\* of: each round of growing is closed already or adds a node.
LEMMA ReachableIs ==
  ASSUME NEW N \in Nat, NEW edge, Within(edge, N), NEW n \in 1..N
  PROVE  LET r == Reachable(edge, n, N)
         IN  /\ r \subseteq 1..N /\ n \in r /\ Closed(edge, r)
             /\ \A C : n \in C /\ Closed(edge, C) => r \subseteq C
<1> DEFINE V == {r \in SUBSET (1..N) : n \in r}
           step == [r \in V |-> Grow(edge, r)]
           R(f) == f = [k \in 0..N |->
                     IF k = 0 THEN {n}
                     ELSE LET r == f[k - 1] IN r \cup {e.to : e \in {g \in edge : g.from \in r}}]
           F == CHOOSE f : R(f)
<1>1. Reachable(edge, n, N) = F[N]
  BY Zenon DEF Reachable
<1>2. \A r \in V : Grow(edge, r) \in V /\ r \subseteq Grow(edge, r)
  BY DEF Grow, Within
<1>3. R(F)
  <2>1. step \in [V -> V] /\ {n} \in V
    BY <1>2
  <2>2. PICK f \in [0..N -> V] : Iterates(f, N, {n}, step)
    <3> HIDE DEF step, V
    <3> QED
      BY <2>1, IterationExists
  <2>3. ASSUME NEW k \in 0..N, k # 0
        PROVE  f[k] = Grow(edge, f[k - 1])
    <3>1. k \in 1..N /\ k - 1 \in 0..N
      BY <2>3
    <3>2. f[k - 1] \in V /\ f[k] = step[f[k - 1]]
      BY <2>2, <3>1 DEF Iterates
    <3> HIDE DEF V
    <3> QED
      BY <3>2
  <2>4. f = [k \in 0..N |-> IF k = 0 THEN {n} ELSE Grow(edge, f[k - 1])]
    <3> HIDE DEF V
    <3> QED
      BY <2>2, <2>3 DEF Iterates
  <2>5. R(f)
    BY <2>4 DEF Grow
  <2> QED
    BY <2>5
<1>4. F = [k \in 0..N |-> IF k = 0 THEN {n} ELSE Grow(edge, F[k - 1])]
  BY <1>3 DEF Grow
<1> HIDE DEF F
<1>5. F[0] = {n} /\ \A k \in 1..N : F[k] = Grow(edge, F[k - 1])
  <2>1. F[0] = {n}
    BY <1>4
  <2>2. ASSUME NEW k \in 1..N
        PROVE  F[k] = Grow(edge, F[k - 1])
    <3>1. k \in 0..N /\ k # 0
      OBVIOUS
    <3> QED
      BY <1>4, <3>1
  <2> QED
    BY <2>1, <2>2
\* Each round is closed already or adds a node.
<1> DEFINE Q == {k \in Nat : k <= N => /\ F[k] \in V
                                       /\ Closed(edge, F[k]) \/ Cardinality(F[k]) >= k + 1
                                       /\ \A C : n \in C /\ Closed(edge, C) => F[k] \subseteq C}
<1>6. IsFiniteSet(1..N) /\ Cardinality(1..N) = N
  BY FS_Interval
<1>7. 0 \in Q
  <2>1. Cardinality({n}) = 1
    BY FS_Singleton
  <2> QED
    BY <1>5, <2>1
<1>8. ASSUME NEW k \in Nat, k >= 0, k \in Q
      PROVE  k + 1 \in Q
  <2> SUFFICES ASSUME k + 1 <= N
               PROVE  /\ F[k + 1] \in V
                      /\ Closed(edge, F[k + 1]) \/ Cardinality(F[k + 1]) >= k + 1 + 1
                      /\ \A C : n \in C /\ Closed(edge, C) => F[k + 1] \subseteq C
    OBVIOUS
  <2>1. /\ F[k] \in V
        /\ Closed(edge, F[k]) \/ Cardinality(F[k]) >= k + 1
        /\ \A C : n \in C /\ Closed(edge, C) => F[k] \subseteq C
    BY <1>8
  <2>2. F[k + 1] = Grow(edge, F[k])
    BY <1>5
  <2> HIDE DEF Q
  <2>3. F[k + 1] \in V /\ F[k] \subseteq F[k + 1]
    BY <1>2, <2>1, <2>2
  <2>4. \A C : n \in C /\ Closed(edge, C) => F[k + 1] \subseteq C
    BY <2>1, <2>2 DEF Grow, Closed
  <2>5. CASE Closed(edge, F[k])
    <3>1. F[k + 1] = F[k]
      BY <2>2, <2>5 DEF Grow, Closed
    <3> QED
      BY <2>3, <2>4, <2>5, <3>1
  <2>6. CASE ~Closed(edge, F[k])
    <3>1. PICK e \in edge : e.from \in F[k] /\ e.to \notin F[k]
      BY <2>6 DEF Closed
    <3>2. e.to \in F[k + 1]
      BY <2>2, <3>1 DEF Grow
    <3>3. IsFiniteSet(F[k + 1]) /\ IsFiniteSet(F[k])
      BY <1>6, <2>1, <2>3, FS_Subset
    <3>4. F[k] \cup {e.to} \in SUBSET F[k + 1]
      BY <2>3, <3>2
    <3>5. Cardinality(F[k] \cup {e.to}) = Cardinality(F[k]) + 1
      BY <3>1, <3>3, FS_AddElement
    <3>6. Cardinality(F[k] \cup {e.to}) <= Cardinality(F[k + 1])
      BY <3>3, <3>4, FS_Subset
    <3>7. Cardinality(F[k]) \in Nat /\ Cardinality(F[k + 1]) \in Nat
      BY <3>3, FS_CardinalityType
    <3>8. Cardinality(F[k + 1]) >= k + 1 + 1
      BY <2>1, <2>6, <3>5, <3>6, <3>7
    <3> QED
      BY <2>3, <2>4, <3>8
  <2> QED
    BY <2>5, <2>6
<1> HIDE DEF Q
<1>9. N \in Q
  BY <1>7, <1>8, UpwardInduction
<1>10. /\ F[N] \in V
       /\ Closed(edge, F[N]) \/ Cardinality(F[N]) >= N + 1
       /\ \A C : n \in C /\ Closed(edge, C) => F[N] \subseteq C
  BY <1>9 DEF Q
<1>11. Closed(edge, F[N])
  <2>1. F[N] \in SUBSET (1..N)
    BY <1>10
  <2>2. Cardinality(F[N]) <= N /\ IsFiniteSet(F[N])
    BY <1>6, <2>1, FS_Subset
  <2>3. Cardinality(F[N]) \in Nat
    BY <2>2, FS_CardinalityType
  <2> QED
    BY <1>10, <2>2, <2>3
<1> QED
  BY <1>1, <1>10, <1>11

\* With every edge both ways, the nodes reached from each other reach the same.
LEMMA ClassIs ==
  ASSUME NEW N \in Nat, NEW edge, Within(edge, N),
         \A e \in edge : \E f \in edge : f.from = e.to /\ f.to = e.from,
         NEW n \in 1..N, NEW m \in Reachable(edge, n, N)
  PROVE  m \in 1..N /\ Reachable(edge, m, N) = Reachable(edge, n, N)
<1> DEFINE P(x) == Reachable(edge, x, N)
           C == {x \in 1..N : n \in P(x)}
<1>1. ASSUME NEW x \in 1..N
      PROVE  /\ P(x) \subseteq 1..N /\ x \in P(x) /\ Closed(edge, P(x))
             /\ \A D : x \in D /\ Closed(edge, D) => P(x) \subseteq D
  BY ReachableIs
<1>0. m \in P(n)
  OBVIOUS
<1> HIDE DEF P
<1>2. m \in 1..N
  BY <1>0, <1>1
<1>3. ASSUME NEW e \in edge, e.from \in C
      PROVE  e.to \in C
  <2>1. PICK f \in edge : f.from = e.to /\ f.to = e.from
    OBVIOUS
  <2>2. e.to \in 1..N /\ e.from \in 1..N
    BY DEF Within
  <2>3. e.from \in P(e.to)
    BY <1>1, <2>1, <2>2 DEF Closed
  <2>4. P(e.from) \subseteq P(e.to)
    BY <1>1, <2>2, <2>3
  <2> QED
    BY <1>3, <2>2, <2>4
<1>4. Closed(edge, C) /\ n \in C
  <2>1. Closed(edge, C)
    <3> HIDE DEF C
    <3> QED
      BY <1>3 DEF Closed
  <2>2. n \in C
    BY <1>1
  <2> QED
    BY <2>1, <2>2
<1>5. n \in P(m)
  <2>1. P(n) \subseteq C
    <3> HIDE DEF C
    <3> QED
      BY <1>1, <1>4
  <2> QED
    BY <1>0, <2>1
<1>6. P(m) \subseteq P(n) /\ P(n) \subseteq P(m)
  BY <1>0, <1>1, <1>2, <1>5
<1> QED
  BY <1>2, <1>6 DEF P

\* A network with some of its landings tied together.
Tying(g) ==
  {s \in [main : SUBSET (1..Len(g.coord)), g : CableGraphs] :
     s.g.coord = g.coord /\ g.edge \subseteq s.g.edge}

\* The nearest pair BridgeTo chooses, and what it makes of it.
TiePairs(s, members) == (members \ s.main) \X s.main

PairGap(s, p) == haversineKm(s.g.coord[p[1]], s.g.coord[p[2]])

BestPair(s, members) ==
  CHOOSE p \in TiePairs(s, members) :
    \A q \in TiePairs(s, members) : PairGap(s, p) <= PairGap(s, q)

\* BridgeTo leaves a network with the same landings; if there is a pair to tie,
\* it ties the nearest, both ways, and the component counts as tied.
LEMMA BridgeToIs ==
  ASSUME NEW g \in CableGraphs, NEW s \in Tying(g),
         NEW members \in SUBSET (1..Len(g.coord)), NEW number \in 1..Len(g.coord)
  PROVE  LET r == BridgeTo(s, members, number)
             p == BestPair(s, members)
         IN  /\ r \in Tying(g)
             /\ TiePairs(s, members) # {} =>
                  /\ r.main = s.main \cup members \cup {number}
                  /\ p \in TiePairs(s, members)
                  /\ s.g.edge \subseteq r.g.edge
                  /\ \E e \in r.g.edge : e.from = p[1] /\ e.to = p[2]
                  /\ \E e \in r.g.edge : e.from = p[2] /\ e.to = p[1]
<1> DEFINE pairs == TiePairs(s, members)
           gap(p) == PairGap(s, p)
           best == BestPair(s, members)
           h == addEdge(s.g, best[1], best[2], gap(best), 0)
           r == BridgeTo(s, members, number)
<1>1. /\ s.main \in SUBSET (1..Len(g.coord)) /\ s.g \in CableGraphs
      /\ s.g.coord = g.coord /\ g.edge \subseteq s.g.edge
  BY DEF Tying
<1>2. r = IF pairs = {} THEN s
          ELSE [main |-> s.main \cup members \cup {number}, g |-> h]
  BY Zenon DEF BridgeTo, TiePairs, PairGap, BestPair
<1>3. CASE pairs = {}
  BY <1>2, <1>3
<1>4. CASE pairs # {}
  <2>1. \A p \in pairs : /\ p[1] \in 1..Len(s.g.coord) /\ p[2] \in 1..Len(s.g.coord)
                         /\ p[1] # p[2]
    BY <1>1 DEF TiePairs
  <2>2. \A p \in pairs : gap(p) \in Nat /\ gap(p) # 0
    <3> TAKE p \in pairs
    <3>1. /\ p[1] \in 1..Len(s.g.coord) /\ p[2] \in 1..Len(s.g.coord)
          /\ p[1] # p[2]
      BY <2>1
    <3>2. s.g.coord[p[1]] \in Place /\ s.g.coord[p[2]] \in Place /\ Distinct(s.g.coord)
      BY <1>1, <3>1, CableGraphIs
    <3>3. s.g.coord[p[1]] # s.g.coord[p[2]]
      BY <3>1, <3>2 DEF Distinct
    <3> QED
      BY <3>2, <3>3, PlacesApart DEF PairGap
  <2>3. best \in pairs
    <3> DEFINE G == {gap(p) : p \in pairs}
    <3> HIDE DEF gap, pairs
    <3>1. G \in SUBSET Nat /\ G # {}
      BY <1>4, <2>2
    <3>2. \E m \in G : \A n \in G : m <= n
      <4> HIDE DEF G
      <4> QED
        BY <3>1, LeastNatural
    <3>3. \E p \in pairs : \A q \in pairs : gap(p) <= gap(q)
      BY <3>2
    <3>4. best = CHOOSE p \in pairs : \A q \in pairs : gap(p) <= gap(q)
      BY Zenon DEF BestPair, pairs, gap
    <3> HIDE DEF best
    <3> QED
      BY <3>3, <3>4
  <2> DEFINE w == gap(best)
  <2>4. /\ best[1] \in 1..Len(s.g.coord) /\ best[2] \in 1..Len(s.g.coord)
        /\ best[1] # best[2] /\ w \in Nat /\ w # 0
    <3> HIDE DEF best, pairs, gap
    <3> QED
      BY <2>1, <2>2, <2>3
  <2>5. h = addEdge(s.g, best[1], best[2], w, 0)
    OBVIOUS
  <2>11. Measured(s.g.coord, s.g.line, There(best[1], best[2], w, 0))
    <3>1. w = haversineKm(s.g.coord[best[1]], s.g.coord[best[2]])
      BY DEF PairGap
    <3> HIDE DEF best, w
    <3> QED
      BY <3>1 DEF Measured, There
  <2> HIDE DEF best, pairs, gap, h, r, w
  <2>6. 0 \in 0..Len(s.g.line)
    BY <1>1, CableGraphIs
  <2>7. /\ h \in CableGraphs /\ h.coord = s.g.coord /\ s.g.edge \subseteq h.edge
        /\ h.edge = s.g.edge \cup Both(best[1], best[2], w, 0)
    <3> DEFINE t == s.g
               a == best[1]
               b == best[2]
    <3>1. /\ t \in CableGraphs /\ a \in 1..Len(t.coord) /\ b \in 1..Len(t.coord)
          /\ a # b /\ w # 0 /\ w \in Nat /\ 0 \in 0..Len(t.line)
          /\ h = addEdge(t, a, b, w, 0) /\ Measured(t.coord, t.line, There(a, b, w, 0))
      BY <1>1, <2>4, <2>5, <2>6, <2>11
    <3> HIDE DEF t, a, b
    <3>2. /\ h \in CableGraphs /\ h.coord = t.coord /\ t.edge \subseteq h.edge
          /\ h.edge = t.edge \cup Both(a, b, w, 0)
      BY <3>1, AddEdgeIs
    <3> QED
      BY <3>2 DEF t, a, b
  <2>8. r.main = s.main \cup members \cup {number} /\ r.g = h
    BY <1>2, <1>4
  <2>9. r \in Tying(g)
    BY <1>1, <1>2, <1>4, <2>7 DEF Tying
  <2>10. /\ \E e \in h.edge : e.from = best[1] /\ e.to = best[2]
         /\ \E e \in h.edge : e.from = best[2] /\ e.to = best[1]
    <3> DEFINE there == [from |-> best[1], to |-> best[2], w |-> w, line |-> 0, rev |-> FALSE]
               back == [from |-> best[2], to |-> best[1], w |-> w, line |-> 0, rev |-> TRUE]
    <3>1. there \in h.edge /\ back \in h.edge
      BY <2>7 DEF Both
    <3> QED
      BY <3>1
  <2> QED
    BY <2>3, <2>7, <2>8, <2>9, <2>10 DEF best, pairs, r
<1> QED
  BY <1>3, <1>4 DEF r, pairs

\* In any case what is tied are landings of the network.
LEMMA BridgeKeeps ==
  ASSUME NEW g \in CableGraphs, NEW s \in Tying(g),
         NEW comps, \A i \in DOMAIN comps : comps[i] \in SUBSET (1..Len(g.coord)),
         DOMAIN comps \subseteq 1..Len(g.coord), NEW i \in DOMAIN comps
  PROVE  BridgeTo(s, comps[i], i) \in Tying(g)
<1>1. comps[i] \in SUBSET (1..Len(g.coord)) /\ i \in 1..Len(g.coord)
  OBVIOUS
<1> QED
  BY <1>1, BridgeToIs

\* The bridging of all the components, an operator of its own.
BridgeAll(comps, base, rest) ==
  FoldLeft(LAMBDA acc, i : BridgeTo(acc, comps[i], i), base, rest)

\* It ties them in order, one after the other.
LEMMA BridgesFold ==
  ASSUME NEW g \in CableGraphs,
         NEW base \in Tying(g),
         NEW comps, \A i \in DOMAIN comps : comps[i] \in SUBSET (1..Len(g.coord)),
         DOMAIN comps \subseteq 1..Len(g.coord),
         NEW rest \in Seq(DOMAIN comps)
  PROVE  \E f : /\ BridgeAll(comps, base, rest) = f[1..Len(rest)]
                /\ f[{}] = base
                /\ \A k \in 1..Len(rest) : f[1..k] = BridgeTo(f[1..k - 1], comps[rest[k]], rest[k])
                /\ \A k \in 0..Len(rest) : f[1..k] \in Tying(g)
<1> DEFINE n == Len(rest)
           V == Tying(g)
           R(f) == f = [T \in SUBSET (DOMAIN rest) |->
                          IF T = {} THEN base
                          ELSE BridgeTo(f[T \ {Max(T)}], comps[rest[Max(T)]], rest[Max(T)])]
           F == CHOOSE f : R(f)
           step == [a \in (1..n) \X V |-> BridgeTo(a[2], comps[rest[a[1]]], rest[a[1]])]
<1>1. BridgeAll(comps, base, rest) = F[DOMAIN rest]
  BY Zenon DEF BridgeAll, FoldLeft, MapThenFoldSet
<1>2. n \in Nat /\ DOMAIN rest = 1..n /\ \A i \in 1..n : rest[i] \in DOMAIN comps
  OBVIOUS
<1>3. R(F)
  <2>1. \A a \in (1..n) \X V : BridgeTo(a[2], comps[rest[a[1]]], rest[a[1]]) \in V
    BY <1>2, BridgeKeeps
  <2>2. step \in [(1..n) \X V -> V]
    BY <2>1
  <2>3. \A i \in 1..n, v \in V : step[<<i, v>>] = BridgeTo(v, comps[rest[i]], rest[i])
    OBVIOUS
  <2> HIDE DEF step, V, n
  <2>4. PICK f \in [SUBSET (1..n) -> V] : Folds(f, n, base, step)
    <3>1. base \in V
      BY DEF V
    <3>2. CanFold(n, V, base, step)
      BY <1>2, <2>2, <3>1, FoldExists
    <3> QED
      BY <3>2, Zenon DEF CanFold
  <2>5. ASSUME NEW T \in SUBSET (1..n), T # {}
        PROVE  f[T] = BridgeTo(f[T \ {Max(T)}], comps[rest[Max(T)]], rest[Max(T)])
    <3>1. Max(T) \in 1..n /\ f[T \ {Max(T)}] \in V
      BY <1>2, <2>5, MaxIs
    <3>2. f[T] = step[<<Max(T), f[T \ {Max(T)}]>>]
      BY <2>4, <2>5 DEF Folds
    <3> QED
      BY <2>3, <3>1, <3>2
  <2>6. f[{}] = base
    BY <2>4 DEF Folds
  <2>7. R(f)
    BY <1>2, <2>4, <2>5, <2>6
  <2> QED
    BY <2>7
<1> HIDE DEF F
<1>4. F[{}] = base
  BY <1>3
<1>5. ASSUME NEW k \in 1..n
      PROVE  F[1..k] = BridgeTo(F[1..k - 1], comps[rest[k]], rest[k])
  <2>1. /\ 1..k \in SUBSET (DOMAIN rest) /\ 1..k # {}
        /\ Max(1..k) = k /\ (1..k) \ {k} = 1..k - 1
    BY <1>2, UpTo
  <2> HIDE DEF n
  <2> QED
    BY <1>3, <2>1
<1>6. \A k \in 1..n : F[1..k - 1] \in V => F[1..k] \in V
  BY <1>2, <1>5, BridgeKeeps
<1> HIDE DEF V, n
<1>7. \A k \in 0..n : F[1..k] \in V
  BY <1>2, <1>4, <1>6, FoldInduction DEF V
<1>8. BridgeAll(comps, base, rest) = F[1..n]
  BY <1>1, <1>2
<1>9. /\ BridgeAll(comps, base, rest) = F[1..Len(rest)]
      /\ F[{}] = base
      /\ \A k \in 1..Len(rest) : F[1..k] = BridgeTo(F[1..k - 1], comps[rest[k]], rest[k])
      /\ \A k \in 0..Len(rest) : F[1..k] \in Tying(g)
  BY <1>4, <1>5, <1>7, <1>8, Zenon DEF V, n
<1> QED
  BY <1>9, Zenon
\* What each landing reaches, the least landing of each, and the components.
Pieces(g) == [n \in 1..Len(g.coord) |-> Reachable(g.edge, n, Len(g.coord))]

Firsts(g) == {n \in 1..Len(g.coord) : \A m \in Pieces(g)[n] : n <= m}

Comps(g) == Sublist(Pieces(g), Firsts(g))

\* The pieces part the landings, and no edge leads out of one.
LEMMA PiecesAre ==
  ASSUME NEW g \in CableGraphs, NEW n \in 1..Len(g.coord)
  PROVE  /\ Pieces(g)[n] \in SUBSET (1..Len(g.coord)) /\ n \in Pieces(g)[n]
         /\ \A m \in Pieces(g)[n] : Pieces(g)[m] = Pieces(g)[n]
         /\ Closed(g.edge, Pieces(g)[n])
         /\ \A C : Closed(g.edge, C) /\ n \in C => Pieces(g)[n] \subseteq C
<1> DEFINE N == Len(g.coord)
<1>1. /\ N \in Nat /\ Within(g.edge, N)
      /\ \A e \in g.edge : \E f \in g.edge : f.from = e.to /\ f.to = e.from
  BY CableGraphIs DEF Wired, Within
<1> HIDE DEF N
<1>2. \A x \in 1..N : Pieces(g)[x] = Reachable(g.edge, x, N)
  BY DEF Pieces, N
<1>3. n \in 1..N
  BY DEF N
<1>4. /\ Pieces(g)[n] \subseteq 1..N /\ n \in Pieces(g)[n]
      /\ Closed(g.edge, Pieces(g)[n])
      /\ \A C : Closed(g.edge, C) /\ n \in C => Pieces(g)[n] \subseteq C
  BY <1>1, <1>2, <1>3, ReachableIs
<1>5. \A m \in Pieces(g)[n] : Pieces(g)[m] = Pieces(g)[n]
  <2> TAKE m \in Pieces(g)[n]
  <2>1. m \in Reachable(g.edge, n, N)
    BY <1>2, <1>3
  <2>2. m \in 1..N /\ Reachable(g.edge, m, N) = Reachable(g.edge, n, N)
    BY <1>1, <1>3, <2>1, ClassIs
  <2> QED
    BY <1>2, <1>3, <2>2
<1> QED
  BY <1>4, <1>5 DEF N

\* The components are the pieces, each once, none further back in their list
\* than its landings are numbered, and none with a part that is closed.
LEMMA CompsAre ==
  ASSUME NEW g \in CableGraphs
  PROVE  LET comps == Comps(g)
             N     == Len(g.coord)
         IN  /\ comps \in Seq(SUBSET (1..N)) /\ Len(comps) <= N
             /\ \A i \in 1..Len(comps) : comps[i] # {}
             /\ \A x \in 1..N : \E i \in 1..Len(comps) : i <= x /\ x \in comps[i]
             /\ \A i, j \in 1..Len(comps) : i # j => comps[i] \cap comps[j] = {}
             /\ \A i \in 1..Len(comps) : \A C :
                  Closed(g.edge, C) /\ C \cap comps[i] # {} => comps[i] \subseteq C
<1> DEFINE comps == Comps(g)
           N == Len(g.coord)
           P == Pieces(g)
           I == Firsts(g)
           M == Len(comps)
<1>0. N \in Nat
  BY CableGraphIs
<1>1. \A n \in 1..N : /\ P[n] \in SUBSET (1..N) /\ n \in P[n]
                      /\ \A m \in P[n] : P[m] = P[n]
                      /\ \A C : Closed(g.edge, C) /\ n \in C => P[n] \subseteq C
  BY PiecesAre
<1>2. P \in Seq(SUBSET (1..N)) /\ DOMAIN P = 1..N
  <2>1. P = [n \in 1..N |-> P[n]]
    BY DEF Pieces
  <2> HIDE DEF P, N
  <2> QED
    BY <1>0, <1>1, <2>1
<1>3. I \in SUBSET (1..N) /\ \A n \in 1..N : n \in I <=> \A m \in P[n] : n <= m
  BY DEF Firsts
<1> HIDE DEF P, I
<1>4. comps = Sublist(P, I)
  BY DEF Comps, P, I
<1> HIDE DEF comps, N
<1>5. /\ comps \in Seq(SUBSET (1..N)) /\ M = Cardinality(I) /\ M \in Nat
      /\ \A k \in 1..M : comps[k] = P[Nth(I, k)] /\ Nth(I, k) \in I
      /\ \A i \in I : \E k \in 1..M : k <= i /\ Nth(I, k) = i
      /\ \A j, k \in 1..M : Nth(I, j) <= Nth(I, k) => j <= k
  <2> DEFINE S == SUBSET (1..N)
  <2> HIDE DEF S
  <2>1. P \in Seq(S) /\ I \in SUBSET (DOMAIN P)
    BY <1>2, <1>3 DEF S
  <2>2. /\ comps \in Seq(S) /\ Len(comps) = Cardinality(I)
        /\ \A k \in 1..Len(comps) : comps[k] = P[Nth(I, k)]
        /\ \A k \in 1..Len(comps) : Nth(I, k) \in I /\ k <= Nth(I, k)
        /\ \A i \in I : \E k \in 1..Len(comps) : k <= i /\ Nth(I, k) = i
        /\ \A j, k \in 1..Len(comps) : Nth(I, j) <= Nth(I, k) => j <= k
    BY <1>4, <2>1, SublistIs
  <2> QED
    BY <2>2 DEF S
<1>6. M <= N
  <2>1. IsFiniteSet(1..N) /\ Cardinality(1..N) = N
    BY <1>0, FS_Interval
  <2>2. Cardinality(I) <= N
    BY <1>3, <2>1, FS_Subset
  <2> QED
    BY <1>5, <2>2
<1> HIDE DEF M
<1>7. ASSUME NEW i \in 1..M
      PROVE  comps[i] # {}
  BY <1>1, <1>3, <1>5
<1>8. ASSUME NEW x \in 1..N
      PROVE  \E i \in 1..M : i <= x /\ x \in comps[i]
  <2>1. P[x] \in SUBSET Nat /\ P[x] # {}
    BY <1>0, <1>1
  <2>2. PICK m \in P[x] : \A n \in P[x] : m <= n
    BY <2>1, LeastNatural
  <2>3. m \in 1..N /\ P[m] = P[x] /\ x \in P[x]
    BY <1>1, <2>2
  <2>4. m \in I
    BY <1>3, <2>2, <2>3
  <2>5. PICK k \in 1..M : k <= m /\ Nth(I, k) = m
    BY <1>5, <2>4
  <2>6. m <= x /\ x \in comps[k]
    BY <1>5, <2>2, <2>3, <2>5
  <2>7. k <= x
    BY <1>0, <1>5, <2>3, <2>5, <2>6
  <2> QED
    BY <2>6, <2>7
<1>9. ASSUME NEW i \in 1..M, NEW j \in 1..M, NEW x \in comps[i], x \in comps[j]
      PROVE  i = j
  <2> DEFINE a == Nth(I, i)
             b == Nth(I, j)
  <2>1. a \in I /\ b \in I /\ comps[i] = P[a] /\ comps[j] = P[b]
    BY <1>5
  <2>2. (a <= b => i <= j) /\ (b <= a => j <= i)
    BY <1>5
  <2> HIDE DEF a, b
  <2>3. a \in 1..N /\ b \in 1..N
    BY <1>3, <2>1
  <2>4. P[x] = P[a] /\ P[x] = P[b]
    BY <1>1, <1>9, <2>1, <2>3
  <2>5. a \in P[b] /\ b \in P[a]
    BY <1>1, <2>3, <2>4
  <2>6. a <= b /\ b <= a
    BY <1>3, <2>1, <2>3, <2>5
  <2> QED
    BY <1>5, <2>2, <2>6
<1>10. ASSUME NEW i \in 1..M, NEW C, Closed(g.edge, C), NEW x \in C, x \in comps[i]
       PROVE  comps[i] \subseteq C
  <2>1. Nth(I, i) \in 1..N /\ comps[i] = P[Nth(I, i)]
    BY <1>3, <1>5
  <2>2. x \in 1..N /\ P[x] = comps[i]
    BY <1>1, <1>10, <2>1
  <2> QED
    BY <1>1, <1>10, <2>2
<1>11. \A i, j \in 1..M : i # j => comps[i] \cap comps[j] = {}
  BY <1>9
<1>12. \A i \in 1..M : \A C : Closed(g.edge, C) /\ C \cap comps[i] # {} => comps[i] \subseteq C
  BY <1>10
<1> QED
  BY <1>5, <1>6, <1>7, <1>8, <1>11, <1>12 DEF comps, N, M

\* The first of the largest components, and the others.
MainOf(comps) ==
  CHOOSE i \in DOMAIN comps : \A k \in DOMAIN comps :
    \/ Cardinality(comps[k]) < Cardinality(comps[i])
    \/ Cardinality(comps[k]) = Cardinality(comps[i]) /\ i <= k

RestOf(comps) == Sublist([i \in DOMAIN comps |-> i], DOMAIN comps \ {MainOf(comps)})

\* A network with landings has a largest component.
LEMMA MainIs ==
  ASSUME NEW N \in Nat, NEW comps \in Seq(SUBSET (1..N)), comps # <<>>
  PROVE  MainOf(comps) \in 1..Len(comps)
<1> DEFINE M == Len(comps)
           size(i) == Cardinality(comps[i])
           S == {N - size(i) : i \in 1..M}
<1>1. M \in Nat /\ M >= 1 /\ DOMAIN comps = 1..M /\ \A i \in 1..M : comps[i] \in SUBSET (1..N)
  OBVIOUS
<1>2. ASSUME NEW i \in 1..M
      PROVE  size(i) \in Nat /\ size(i) <= N
  <2>1. IsFiniteSet(1..N) /\ Cardinality(1..N) = N
    BY FS_Interval
  <2>2. IsFiniteSet(comps[i]) /\ Cardinality(comps[i]) <= N
    BY <1>1, <2>1, FS_Subset
  <2> QED
    BY <2>2, FS_CardinalityType
<1> HIDE DEF size
<1>3. PICK a \in 1..M : \A k \in 1..M : size(k) <= size(a)
  <2>1. S \in SUBSET Nat /\ S # {}
    BY <1>1, <1>2
  <2>2. \E m \in S : \A n \in S : m <= n
    <3> HIDE DEF S
    <3> QED
      BY <2>1, LeastNatural
  <2>3. PICK i \in 1..M : \A k \in 1..M : N - size(i) <= N - size(k)
    BY <2>2
  <2> QED
    BY <1>2, <2>3
<1> DEFINE T == {i \in 1..M : size(i) = size(a)}
<1>4. PICK i \in T : \A k \in T : i <= k
  <2>1. T \in SUBSET Nat /\ T # {}
    BY <1>1
  <2> HIDE DEF T
  <2> QED
    BY <2>1, LeastNatural
<1>5. \A k \in 1..M : size(k) < size(i) \/ (size(k) = size(i) /\ i <= k)
  <2> TAKE k \in 1..M
  <2>1. size(i) = size(a) /\ size(k) <= size(a) /\ size(k) \in Nat /\ size(a) \in Nat
    BY <1>2, <1>3, <1>4
  <2>2. size(k) = size(a) => i <= k
    BY <1>4
  <2> QED
    BY <2>1, <2>2
<1>6. \E j \in DOMAIN comps : \A k \in DOMAIN comps :
        \/ Cardinality(comps[k]) < Cardinality(comps[j])
        \/ Cardinality(comps[k]) = Cardinality(comps[j]) /\ j <= k
  BY <1>1, <1>4, <1>5 DEF size
<1>7. MainOf(comps) \in DOMAIN comps
  BY <1>6, Zenon DEF MainOf
<1> QED
  BY <1>1, <1>7

\* The others are all the others, in their order.
LEMMA RestIs ==
  ASSUME NEW N \in Nat, NEW comps \in Seq(SUBSET (1..N)), comps # <<>>
  PROVE  LET main == MainOf(comps)
             rest == RestOf(comps)
         IN  /\ rest \in Seq(DOMAIN comps)
             /\ \A t \in 1..Len(rest) : rest[t] # main
             /\ \A j \in 1..Len(comps) : j # main => \E t \in 1..Len(rest) : rest[t] = j
             /\ \A t, u \in 1..Len(rest) : rest[t] <= rest[u] => t <= u
<1> DEFINE M == Len(comps)
           s == [i \in DOMAIN comps |-> i]
           I == DOMAIN comps \ {MainOf(comps)}
           rest == RestOf(comps)
<1>1. M \in Nat /\ DOMAIN comps = 1..M
  OBVIOUS
<1>2. s \in Seq(1..M) /\ DOMAIN s = 1..M /\ \A i \in 1..M : s[i] = i
  BY <1>1
<1>3. I \in SUBSET (DOMAIN s) /\ I \in SUBSET (1..M)
  BY <1>1, <1>2
<1>4. rest = Sublist(s, I)
  BY DEF RestOf
<1> HIDE DEF rest, s
<1>5. /\ rest \in Seq(1..M) /\ Len(rest) \in Nat
      /\ \A k \in 1..Len(rest) : rest[k] = s[Nth(I, k)] /\ Nth(I, k) \in I
      /\ \A i \in I : \E k \in 1..Len(rest) : Nth(I, k) = i
      /\ \A j, k \in 1..Len(rest) : Nth(I, j) <= Nth(I, k) => j <= k
  <2> DEFINE S == 1..M
  <2> HIDE DEF I, S
  <2>1. s \in Seq(S) /\ I \in SUBSET (DOMAIN s)
    BY <1>2, <1>3 DEF S
  <2>2. /\ rest \in Seq(S) /\ Len(rest) = Cardinality(I)
        /\ \A k \in 1..Len(rest) : rest[k] = s[Nth(I, k)]
        /\ \A k \in 1..Len(rest) : Nth(I, k) \in I /\ k <= Nth(I, k)
        /\ \A i \in I : \E k \in 1..Len(rest) : k <= i /\ Nth(I, k) = i
        /\ \A j, k \in 1..Len(rest) : Nth(I, j) <= Nth(I, k) => j <= k
    BY <1>4, <2>1, SublistIs, ZenonT(30)
  <2> HIDE DEF M
  <2> QED
    BY <2>2 DEF S
<1>6. \A k \in 1..Len(rest) : rest[k] = Nth(I, k)
  <2> HIDE DEF I, M
  <2> QED
    BY <1>2, <1>3, <1>5
<1>7. \A t \in 1..Len(rest) : rest[t] # MainOf(comps)
  <2>1. \A i \in I : i # MainOf(comps)
    OBVIOUS
  <2> HIDE DEF I
  <2> QED
    BY <1>5, <1>6, <2>1
<1>8. \A j \in 1..M : j # MainOf(comps) => \E t \in 1..Len(rest) : rest[t] = j
  <2>1. \A j \in 1..M : j # MainOf(comps) => j \in I
    BY <1>1
  <2> HIDE DEF I
  <2> QED
    BY <1>5, <1>6, <2>1
<1>9. \A t, u \in 1..Len(rest) : rest[t] <= rest[u] => t <= u
  <2> HIDE DEF I
  <2> QED
    BY <1>5, <1>6
<1> QED
  BY <1>1, <1>5, <1>7, <1>8, <1>9 DEF rest

\* The landings of the component main and of the first t of the others.
Tied(comps, t) ==
  UNION {comps[j] : j \in {MainOf(comps)} \cup {RestOf(comps)[u] : u \in 1..t}}

\* Nothing that is closed under the edges holds a part of S and not the whole.
OneTied(edge, S) == \A C : Closed(edge, C) /\ C \cap S # {} => S \subseteq C

\* An edge both ways between two such sets makes one of them.
LEMMA TieOne ==
  ASSUME NEW edge, NEW S, NEW D, OneTied(edge, S), OneTied(edge, D),
         NEW edge2, edge \subseteq edge2,
         NEW a \in D, NEW b \in S,
         \E e \in edge2 : e.from = a /\ e.to = b,
         \E e \in edge2 : e.from = b /\ e.to = a
  PROVE  OneTied(edge2, S \cup D)
<1> SUFFICES ASSUME NEW C, Closed(edge2, C), NEW x \in C, x \in S \cup D
             PROVE  S \cup D \subseteq C
  BY DEF OneTied
<1>1. Closed(edge, C)
  BY DEF Closed
<1>2. (a \in C => b \in C) /\ (b \in C => a \in C)
  BY DEF Closed
<1>3. (x \in S => S \subseteq C) /\ (x \in D => D \subseteq C)
  BY <1>1 DEF OneTied
<1>4. (b \in C => S \subseteq C) /\ (a \in C => D \subseteq C)
  BY <1>1 DEF OneTied
<1> QED
  BY <1>2, <1>3, <1>4

\* The landings tied so far, one component at a time.
LEMMA TiedMore ==
  ASSUME NEW comps, NEW t \in Nat
  PROVE  /\ Tied(comps, 0) = comps[MainOf(comps)]
         /\ Tied(comps, t + 1) = Tied(comps, t) \cup comps[RestOf(comps)[t + 1]]
<1>1. 1..0 = {} /\ 1..t + 1 = (1..t) \cup {t + 1}
  OBVIOUS
<1>2. {RestOf(comps)[u] : u \in 1..t + 1} = {RestOf(comps)[u] : u \in 1..t} \cup {RestOf(comps)[t + 1]}
  BY <1>1
<1>3. {RestOf(comps)[u] : u \in 1..0} = {}
  BY <1>1
<1> QED
  BY <1>2, <1>3 DEF Tied

\* One more component is tied.  No landing of it is tied yet, so there is a
\* pair; the landing that has the component's number, which the code counts as
\* tied with it, is tied by then or belongs to it.
LEMMA BridgeStep ==
  ASSUME NEW g \in CableGraphs, g.coord # <<>>,
         NEW t \in Nat, t + 1 \in 1..Len(RestOf(Comps(g))),
         NEW s \in Tying(g), s.main = Tied(Comps(g), t), OneTied(s.g.edge, s.main),
         NEW i, i = RestOf(Comps(g))[t + 1]
  PROVE  LET r == BridgeTo(s, Comps(g)[i], i)
         IN  r \in Tying(g) /\ r.main = Tied(Comps(g), t + 1) /\ OneTied(r.g.edge, r.main)
<1> DEFINE N == Len(g.coord)
           comps == Comps(g)
           main == MainOf(comps)
           rest == RestOf(comps)
           r == BridgeTo(s, comps[i], i)
<1>1. /\ N \in Nat /\ N >= 1
      /\ comps \in Seq(SUBSET (1..N)) /\ Len(comps) <= N
      /\ \A k \in 1..Len(comps) : comps[k] # {}
      /\ \A x \in 1..N : \E k \in 1..Len(comps) : k <= x /\ x \in comps[k]
      /\ \A k, j \in 1..Len(comps) : k # j => comps[k] \cap comps[j] = {}
      /\ \A k \in 1..Len(comps) : OneTied(g.edge, comps[k])
  <2>1. N \in Nat /\ N >= 1
    BY CableGraphIs
  <2> QED
    BY <2>1, CompsAre DEF OneTied
<1> HIDE DEF comps, N
<1>2. comps # <<>>
  <2>1. 1 \in 1..N
    BY <1>1
  <2>2. PICK k \in 1..Len(comps) : k <= 1
    BY <1>1, <2>1
  <2> QED
    BY <1>1, <2>2
<1>3. /\ main \in 1..Len(comps) /\ rest \in Seq(1..Len(comps)) /\ Len(rest) \in Nat
      /\ \A u \in 1..Len(rest) : rest[u] # main
      /\ \A j \in 1..Len(comps) : j # main => \E u \in 1..Len(rest) : rest[u] = j
      /\ \A u, v \in 1..Len(rest) : rest[u] <= rest[v] => u <= v
  <2>1. DOMAIN comps = 1..Len(comps)
    BY <1>1
  <2> QED
    <3>1. main \in 1..Len(comps)
      BY <1>1, <1>2, MainIs
    <3>2. /\ rest \in Seq(DOMAIN comps)
          /\ \A u \in 1..Len(rest) : rest[u] # main
          /\ \A j \in 1..Len(comps) : j # main => \E u \in 1..Len(rest) : rest[u] = j
          /\ \A u, v \in 1..Len(rest) : rest[u] <= rest[v] => u <= v
      BY <1>1, <1>2, RestIs
    <3> HIDE DEF main, rest
    <3>3. rest \in Seq(1..Len(comps)) /\ Len(rest) \in Nat
      BY <2>1, <3>2
    <3> QED
      BY <3>1, <3>2, <3>3
<1>4. s.main = UNION {comps[j] : j \in {main} \cup {rest[u] : u \in 1..t}}
  BY DEF Tied, comps
<1>5. i \in 1..Len(comps) /\ i # main /\ i \in 1..N /\ comps[i] \in SUBSET (1..N)
      /\ i = rest[t + 1] /\ t + 1 \in 1..Len(rest) /\ t + 1 \notin 1..t
  <2>1. i = rest[t + 1] /\ t + 1 \in 1..Len(rest) /\ t + 1 \notin 1..t
    BY DEF comps
  <2> HIDE DEF main, rest
  <2>2. i \in 1..Len(comps) /\ i # main
    BY <1>3, <2>1
  <2>3. i \in 1..N /\ comps[i] \in SUBSET (1..N)
    BY <1>1, <2>2
  <2> QED
    BY <2>1, <2>2, <2>3
<1> HIDE DEF main, rest
\* No landing of the component is tied yet.
<1>6. comps[i] \cap s.main = {}
  <2>1. ASSUME NEW j \in {main} \cup {rest[u] : u \in 1..t}
        PROVE  j \in 1..Len(comps) /\ j # i
    <3>1. CASE j = main
      BY <1>3, <1>5, <3>1
    <3>2. CASE j # main
      <4>1. PICK u \in 1..t : j = rest[u]
        BY <2>1, <3>2
      <4>2. u \in 1..Len(rest) /\ u # t + 1 /\ ~(t + 1 <= u)
        BY <1>3, <1>5, <4>1
      <4>3. rest[u] \in 1..Len(comps)
        BY <1>3, <4>2
      <4>4. j # i
        <5>1. j = i => rest[t + 1] <= rest[u]
          BY <1>5, <4>1, <4>3
        <5> QED
          BY <1>3, <1>5, <4>2, <5>1
      <4> QED
        BY <4>1, <4>3, <4>4
    <3> QED
      BY <3>1, <3>2
  <2>2. \A j \in {main} \cup {rest[u] : u \in 1..t} : comps[i] \cap comps[j] = {}
    BY <1>1, <1>5, <2>1
  <2> QED
    BY <1>4, <2>2
\* The landing that has the component's number is tied by now.
<1>7. i \in s.main \cup comps[i]
  <2>1. PICK k \in 1..Len(comps) : k <= i /\ i \in comps[k]
    BY <1>1, <1>5
  <2>2. CASE k = i
    BY <2>1, <2>2
  <2>3. CASE k = main
    BY <1>4, <2>1, <2>3
  <2>4. CASE k # i /\ k # main
    <3>1. PICK u \in 1..Len(rest) : rest[u] = k
      BY <1>3, <2>4
    <3>2. u <= t + 1
      BY <1>3, <1>5, <2>1, <3>1
    <3>3. u # t + 1
      BY <1>5, <2>4, <3>1
    <3>4. u \in 1..t
      BY <1>3, <3>2, <3>3
    <3> QED
      BY <1>4, <2>1, <3>1, <3>4
  <2> QED
    BY <2>2, <2>3, <2>4
<1>8. comps[i] # {} /\ s.main # {} /\ OneTied(g.edge, comps[i])
  <2>1. comps[main] # {}
    BY <1>1, <1>3
  <2>2. comps[main] \subseteq s.main
    BY <1>4
  <2> QED
    BY <1>1, <1>5, <2>1, <2>2
<1>9. TiePairs(s, comps[i]) # {}
  <2>1. PICK x \in comps[i], y \in s.main : TRUE
    BY <1>8
  <2>2. x \in comps[i] \ s.main
    BY <1>6
  <2>3. <<x, y>> \in TiePairs(s, comps[i])
    BY <2>2 DEF TiePairs
  <2> QED
    BY <2>3
<1> DEFINE p == BestPair(s, comps[i])
<1>10. /\ r \in Tying(g) /\ r.main = s.main \cup comps[i] \cup {i}
       /\ p \in TiePairs(s, comps[i]) /\ s.g.edge \subseteq r.g.edge
       /\ \E e \in r.g.edge : e.from = p[1] /\ e.to = p[2]
       /\ \E e \in r.g.edge : e.from = p[2] /\ e.to = p[1]
  BY <1>5, <1>9, BridgeToIs DEF N
<1> HIDE DEF p, r
<1>11. r.main = s.main \cup comps[i]
  BY <1>7, <1>10
<1>12. r.main = Tied(comps, t + 1)
  BY <1>5, <1>11, TiedMore DEF comps, rest
<1>13. p[1] \in comps[i] /\ p[2] \in s.main
  BY <1>10 DEF TiePairs
<1>14. OneTied(s.g.edge, comps[i])
  <2>1. g.edge \subseteq s.g.edge
    BY DEF Tying
  <2> QED
    BY <1>8, <2>1 DEF OneTied, Closed
<1>15. OneTied(r.g.edge, s.main \cup comps[i])
  <2> DEFINE a == p[1]
             b == p[2]
  <2>1. a \in comps[i] /\ b \in s.main
        /\ (\E e \in r.g.edge : e.from = a /\ e.to = b)
        /\ (\E e \in r.g.edge : e.from = b /\ e.to = a)
    BY <1>10, <1>13
  <2> HIDE DEF a, b
  <2> QED
    BY <1>10, <1>14, <2>1, TieOne
<1> QED
  BY <1>10, <1>11, <1>12, <1>15 DEF r, comps

\* After bridgeComponents all the landings are tied together.
LEMMA BridgeIs ==
  ASSUME NEW g \in CableGraphs
  PROVE  LET r == BridgeComponents(g)
         IN  r \in CableGraphs /\ r.coord = g.coord /\ OneTied(r.edge, 1..Len(g.coord))
<1> DEFINE N == Len(g.coord)
           comps == Comps(g)
           main == MainOf(comps)
           rest == RestOf(comps)
           base == [main |-> comps[main], g |-> g]
           n == Len(rest)
<1>0. N \in Nat /\ (g.coord = <<>> <=> N = 0)
  BY CableGraphIs
<1>1. CASE N = 0
  <2>1. BridgeComponents(g) = g
    BY <1>1, Zenon DEF BridgeComponents
  <2>2. 1..N = {}
    BY <1>1
  <2> QED
    BY <2>1, <2>2 DEF OneTied
<1>2. CASE N # 0
  <2>1. BridgeComponents(g) =
          BridgeAll(comps, base, rest).g
    BY <1>2, Zenon DEF BridgeAll, BridgeComponents, Comps, Pieces, Firsts, MainOf, RestOf
  <2>2. /\ comps \in Seq(SUBSET (1..N)) /\ Len(comps) <= N
        /\ \A x \in 1..N : \E k \in 1..Len(comps) : k <= x /\ x \in comps[k]
        /\ \A k \in 1..Len(comps) : OneTied(g.edge, comps[k])
    BY CompsAre DEF OneTied
  <2> HIDE DEF N, comps
  <2>3. comps # <<>> /\ DOMAIN comps = 1..Len(comps) /\ Len(comps) \in Nat
        /\ \A k \in DOMAIN comps : comps[k] \in SUBSET (1..N)
    <3>1. 1 \in 1..N
      BY <1>0, <1>2
    <3>2. PICK k \in 1..Len(comps) : k <= 1
      BY <2>2, <3>1
    <3> QED
      BY <2>2, <3>2
  <2>4. /\ main \in 1..Len(comps) /\ rest \in Seq(DOMAIN comps) /\ n \in Nat
        /\ \A j \in 1..Len(comps) : j # main => \E u \in 1..n : rest[u] = j
    <3>1. main \in 1..Len(comps)
      BY <1>0, <2>2, <2>3, MainIs
    <3>2. /\ rest \in Seq(DOMAIN comps)
          /\ \A j \in 1..Len(comps) : j # main => \E u \in 1..Len(rest) : rest[u] = j
      BY <1>0, <2>2, <2>3, RestIs
    <3> HIDE DEF main, rest
    <3> QED
      BY <3>1, <3>2
  <2>5. base \in Tying(g)
    <3>1. comps[main] \in SUBSET (1..Len(g.coord))
      BY <2>3, <2>4 DEF N
    <3> HIDE DEF main
    <3> QED
      BY <3>1 DEF Tying
  <2>6. DOMAIN comps \subseteq 1..Len(g.coord)
    BY <1>0, <2>2, <2>3 DEF N
  <2> HIDE DEF main, rest, base
  <2>7. PICK f : /\ BridgeAll(comps, base, rest) = f[1..n]
                 /\ f[{}] = base
                 /\ \A k \in 1..n : f[1..k] = BridgeTo(f[1..k - 1], comps[rest[k]], rest[k])
                 /\ \A k \in 0..n : f[1..k] \in Tying(g)
    <3>1. \A i \in DOMAIN comps : comps[i] \in SUBSET (1..Len(g.coord))
      BY <2>3 DEF N
    <3>2. rest \in Seq(DOMAIN comps)
      BY <2>4
    <3> QED
      BY <2>5, <2>6, <3>1, <3>2, BridgesFold, SMTT(30)
  <2>8. BridgeComponents(g) = f[1..n].g
    BY <2>1, <2>7, Zenon
  <2>9. /\ f[{}] = base
        /\ \A k \in 1..n : f[1..k] = BridgeTo(f[1..k - 1], comps[rest[k]], rest[k])
        /\ \A k \in 0..n : f[1..k] \in Tying(g)
    BY <2>7, Zenon
  <2> DEFINE Right(k) == f[1..k].main = Tied(comps, k) /\ OneTied(f[1..k].g.edge, f[1..k].main)
             Q == {k \in Nat : k <= n => Right(k)}
  <2>10. 0 \in Q
    <3>1. 1..0 = {}
      OBVIOUS
    <3>2. base.main = comps[main] /\ base.g = g
      BY DEF base
    <3>3. Tied(comps, 0) = comps[main]
      BY TiedMore DEF main
    <3> QED
      BY <2>2, <2>4, <2>9, <3>1, <3>2, <3>3
  <2>11. ASSUME NEW k \in Nat, k >= 0, k \in Q
         PROVE  k + 1 \in Q
    <3> SUFFICES ASSUME k + 1 <= n
                 PROVE  Right(k + 1)
      OBVIOUS
    <3>1. Right(k)
      BY <2>4, <2>11
    <3> DEFINE s == f[1..k]
               i == rest[k + 1]
               r == f[1..k + 1]
    <3>2. k + 1 \in 1..n /\ k \in 0..n /\ (k + 1) - 1 = k
      BY <2>4
    <3>3. s \in Tying(g) /\ s.main = Tied(comps, k) /\ OneTied(s.g.edge, s.main)
      BY <2>9, <3>1, <3>2
    <3>4. r = BridgeTo(s, comps[i], i)
      BY <2>9, <3>2
    <3>5. k + 1 \in 1..Len(RestOf(Comps(g))) /\ g.coord # <<>> /\ i = RestOf(Comps(g))[k + 1]
      BY <1>0, <1>2, <3>2 DEF rest, comps
    <3>6. s.main = Tied(Comps(g), k)
      BY <3>3 DEF comps
    <3> HIDE DEF s, i, r, Right, n
    <3>7. LET t == BridgeTo(s, Comps(g)[i], i)
          IN  t.main = Tied(Comps(g), k + 1) /\ OneTied(t.g.edge, t.main)
      BY <3>3, <3>5, <3>6, BridgeStep
    <3>8. r.main = Tied(comps, k + 1) /\ OneTied(r.g.edge, r.main)
      BY <3>4, <3>7 DEF comps
    <3> QED
      BY <3>8 DEF Right, r
  <2> HIDE DEF Q
  <2>12. n \in Q
    <3>1. n \in Nat /\ n >= 0
      BY <2>4
    <3> HIDE DEF n
    <3> QED
      BY <2>10, <2>11, <3>1, UpwardInduction
  <2>13. Right(n) /\ f[1..n] \in Tying(g)
    BY <2>4, <2>9, <2>12 DEF Q
  <2>14. Tied(comps, n) = 1..N
    <3>1. Tied(comps, n) \subseteq 1..N
      <4>1. \A j \in {main} \cup {rest[u] : u \in 1..n} : j \in DOMAIN comps
        BY <2>3, <2>4
      <4> QED
        BY <2>3, <4>1 DEF Tied, main, rest
    <3>2. ASSUME NEW x \in 1..N
          PROVE  x \in Tied(comps, n)
      <4>1. PICK k \in 1..Len(comps) : x \in comps[k]
        BY <2>2
      <4>2. k \in {main} \cup {rest[u] : u \in 1..n}
        BY <2>4, <4>1
      <4>3. Tied(comps, n) = UNION {comps[j] : j \in {main} \cup {rest[u] : u \in 1..n}}
        BY DEF Tied, main, rest
      <4> QED
        BY <4>1, <4>2, <4>3
    <3> QED
      BY <3>1, <3>2
  <2> QED
    BY <2>8, <2>13, <2>14 DEF Tying, N
<1> QED
  BY <1>1, <1>2

\* The graph that is not there yet is a network without landings.
LEMMA NoGraphIs == NoGraph \in CableGraphs
<1>1. /\ <<>> \in Seq(Place) /\ <<>> \in Seq(Lines) /\ Len(<<>>) = 0
  BY EmptySeq
<1>2. NoGraph \in GraphRecords
  BY <1>1 DEF NoGraph, GraphRecords
<1>3. Distinct(NoGraph.coord) /\ NoGraph.edge = {}
  BY <1>1 DEF NoGraph, Distinct
<1> QED
  BY <1>2, <1>3 DEF CableGraphs, Wired, Weighed

\* buildCableGraph makes one connected network of any cable data, whatever the
\* systems, their lines and their order (cables.ts:233): every landing can be
\* reached from the first.
THEOREM NetworkIsOne ==
  ASSUME NEW systems \in Seq(Seq(RawLines))
  PROVE  LET g == buildCableGraph(systems)
             N == Len(g.coord)
         IN  g \in CableGraphs /\ (N > 0 => Reachable(g.edge, 1, N) = 1..N)
<1> DEFINE stitched == [i \in DOMAIN systems |-> stitchAntimeridian(systems[i])]
           h == FoldLeft(addSystem, NoGraph, stitched)
           g == BridgeComponents(h)
           N == Len(g.coord)
<1>1. stitched \in Seq(Seq(Lines))
  <2>1. \A i \in 1..Len(systems) : systems[i] \in Seq(RawLines)
    OBVIOUS
  <2>2. \A i \in 1..Len(systems) : stitchAntimeridian(systems[i]) \in Seq(Lines)
    BY <2>1, StitchIs
  <2>3. stitched = [i \in 1..Len(systems) |-> stitchAntimeridian(systems[i])]
    OBVIOUS
  <2> HIDE DEF stitched
  <2> QED
    BY <2>2, <2>3
<1> HIDE DEF stitched
<1>2. h \in CableGraphs
  BY <1>1, NoGraphIs, SystemsFold, Zenon
<1>3. buildCableGraph(systems) = g
  BY Zenon DEF buildCableGraph, stitched
<1> HIDE DEF h
<1>4. g \in CableGraphs /\ OneTied(g.edge, 1..Len(h.coord)) /\ g.coord = h.coord
  BY <1>2, BridgeIs
<1> HIDE DEF g
<1>5. N > 0 => Reachable(g.edge, 1, N) = 1..N
  <2> SUFFICES ASSUME N > 0
               PROVE  Reachable(g.edge, 1, N) = 1..N
    OBVIOUS
  <2>1. N \in Nat /\ 1 \in 1..N /\ Within(g.edge, N)
    BY <1>4, CableGraphIs DEF Wired, Within
  <2> HIDE DEF N
  <2> DEFINE r == Reachable(g.edge, 1, N)
  <2>2. r \subseteq 1..N /\ 1 \in r /\ Closed(g.edge, r)
    BY <2>1, ReachableIs
  <2> HIDE DEF r
  <2>3. OneTied(g.edge, 1..N)
    BY <1>4 DEF N
  <2>4. 1..N \subseteq r
    BY <2>1, <2>2, <2>3 DEF OneTied
  <2> QED
    BY <2>2, <2>4 DEF r
<1> QED
  BY <1>3, <1>4, <1>5

----------------------------------------------------------------------------
(***************************************************************************)
(* The no-transit zones: a point inside a ring is inside the ring's box,   *)
(* and an edge that zonesBlock lets pass has no point in a zone.           *)
(***************************************************************************)

\* A list of integers has a greatest and a least member.
LEMMA Extremes ==
  ASSUME NEW n \in Nat \ {0}, NEW f \in [1..n -> Int]
  PROVE  LET S == {f[i] : i \in 1..n}
         IN  /\ Max(S) \in S /\ \A i \in 1..n : Max(S) >= f[i]
             /\ Min(S) \in S /\ \A i \in 1..n : Min(S) <= f[i]
<1> DEFINE S == {f[i] : i \in 1..n}
           Q == {k \in Nat : k <= n =>
                   /\ \E i \in 1..k : \A j \in 1..k : f[i] >= f[j]
                   /\ \E i \in 1..k : \A j \in 1..k : f[i] <= f[j]}
<1>1. 1 \in Q
  <2>1. 1..1 = {1} /\ f[1] \in Int
    OBVIOUS
  <2> QED
    BY <2>1
<1>2. ASSUME NEW k \in Nat, k >= 1, k \in Q
      PROVE  k + 1 \in Q
  <2> SUFFICES ASSUME k + 1 <= n
               PROVE  /\ \E i \in 1..k + 1 : \A j \in 1..k + 1 : f[i] >= f[j]
                      /\ \E i \in 1..k + 1 : \A j \in 1..k + 1 : f[i] <= f[j]
    OBVIOUS
  <2>1. PICK a \in 1..k : \A j \in 1..k : f[a] >= f[j]
    BY <1>2
  <2>2. PICK b \in 1..k : \A j \in 1..k : f[b] <= f[j]
    BY <1>2
  <2>3. f[a] \in Int /\ f[b] \in Int /\ f[k + 1] \in Int /\ \A j \in 1..k : f[j] \in Int
    BY <1>2
  <2>4. \A j \in 1..k + 1 : j \in 1..k \/ j = k + 1
    BY <1>2
  <2>5. \E i \in 1..k + 1 : \A j \in 1..k + 1 : f[i] >= f[j]
    <3>1. CASE f[a] >= f[k + 1]
      BY <2>1, <2>3, <2>4, <3>1
    <3>2. CASE f[a] < f[k + 1]
      <4>1. \A j \in 1..k + 1 : f[k + 1] >= f[j]
        BY <2>1, <2>3, <2>4, <3>2
      <4> QED
        BY <1>2, <4>1
    <3> QED
      BY <2>3, <3>1, <3>2
  <2>6. \E i \in 1..k + 1 : \A j \in 1..k + 1 : f[i] <= f[j]
    <3>1. CASE f[b] <= f[k + 1]
      <4>1. \A j \in 1..k + 1 : f[b] <= f[j]
        BY <2>2, <2>4, <3>1
      <4>2. b \in 1..k + 1
        BY <1>2
      <4> QED
        BY <4>1, <4>2
    <3>2. CASE f[b] > f[k + 1]
      <4>1. \A j \in 1..k + 1 : f[k + 1] <= f[j]
        BY <2>2, <2>3, <2>4, <3>2
      <4> QED
        BY <1>2, <4>1
    <3> QED
      BY <2>3, <3>1, <3>2
  <2> QED
    BY <2>5, <2>6
<1>3. n \in Q
  <2> HIDE DEF Q
  <2>1. n \in Nat /\ n >= 1 /\ 1 \in Nat
    OBVIOUS
  <2> QED
    BY <1>1, <1>2, <2>1, UpwardInduction
<1>4. /\ \E x \in S : \A y \in S : x >= y
      /\ \E x \in S : \A y \in S : x <= y
  <2>1. /\ \E i \in 1..n : \A j \in 1..n : f[i] >= f[j]
        /\ \E i \in 1..n : \A j \in 1..n : f[i] <= f[j]
    BY <1>3
  <2> QED
    BY <2>1
<1> HIDE DEF S
<1>5. Max(S) \in S /\ \A y \in S : Max(S) >= y
  BY <1>4, Zenon DEF Max
<1>6. Min(S) \in S /\ \A y \in S : Min(S) <= y
  BY <1>4, Zenon DEF Min
<1>7. \A i \in 1..n : f[i] \in S
  BY DEF S
<1> QED
  BY <1>5, <1>6, <1>7 DEF S

\* The places where a cycle of n values changes.
Changes(n, s) == {i \in 1..n : s[i] # s[IF i = 1 THEN n ELSE i - 1]}

\* A cycle of zeroes and ones changes an even number of times.
LEMMA EvenChanges ==
  ASSUME NEW n \in Nat \ {0}, NEW s \in [1..n -> {0, 1}]
  PROVE  Cardinality(Changes(n, s)) % 2 = 0
<1> DEFINE C(k) == {i \in 2..k : s[i] # s[i - 1]}
           Q == {k \in Nat : k <= n =>
                   /\ IsFiniteSet(C(k))
                   /\ Cardinality(C(k)) % 2 = (IF s[k] = s[1] THEN 0 ELSE 1)}
<1>1. 1 \in Q
  <2>1. C(1) = {}
    OBVIOUS
  <2> QED
    BY <2>1, FS_EmptySet
<1>2. ASSUME NEW k \in Nat, k >= 1, k \in Q
      PROVE  k + 1 \in Q
  <2> SUFFICES ASSUME k + 1 <= n
               PROVE  /\ IsFiniteSet(C(k + 1))
                      /\ Cardinality(C(k + 1)) % 2 = (IF s[k + 1] = s[1] THEN 0 ELSE 1)
    OBVIOUS
  <2>1. s[1] \in {0, 1} /\ s[k] \in {0, 1} /\ s[k + 1] \in {0, 1}
    BY <1>2
  <2>2. IsFiniteSet(C(k)) /\ Cardinality(C(k)) % 2 = (IF s[k] = s[1] THEN 0 ELSE 1)
    BY <1>2
  <2>3. CASE s[k + 1] = s[k]
    <3>1. C(k + 1) = C(k)
      <4>1. \A i \in 2..k + 1 : i \in 2..k \/ i = k + 1
        OBVIOUS
      <4>2. (k + 1) - 1 = k
        OBVIOUS
      <4>3. \A i \in C(k + 1) : i \in C(k)
        BY <2>3, <4>1, <4>2
      <4>4. \A i \in C(k) : i \in C(k + 1)
        OBVIOUS
      <4> HIDE DEF C
      <4> QED
        BY <4>3, <4>4
    <3> QED
      BY <2>2, <2>3, <3>1
  <2>4. CASE s[k + 1] # s[k]
    <3>1. C(k + 1) = C(k) \cup {k + 1} /\ k + 1 \notin C(k)
      <4>1. \A i \in 2..k + 1 : i \in 2..k \/ i = k + 1
        OBVIOUS
      <4>2. (k + 1) - 1 = k /\ k + 1 \in 2..k + 1
        BY <1>2
      <4>3. \A i \in C(k + 1) : i \in C(k) \/ i = k + 1
        BY <4>1
      <4>4. (\A i \in C(k) : i \in C(k + 1)) /\ k + 1 \in C(k + 1) /\ k + 1 \notin C(k)
        BY <2>4, <4>2
      <4> HIDE DEF C
      <4> QED
        BY <4>3, <4>4
    <3> DEFINE D == C(k)
               c == Cardinality(D)
    <3>2. IsFiniteSet(C(k + 1)) /\ Cardinality(C(k + 1)) = c + 1 /\ c \in Nat
      <4>1. IsFiniteSet(D) /\ k + 1 \notin D /\ C(k + 1) = D \cup {k + 1}
        BY <2>2, <3>1
      <4> HIDE DEF D
      <4> QED
        BY <4>1, FS_AddElement, FS_CardinalityType
    <3>3. c % 2 = (IF s[k] = s[1] THEN 0 ELSE 1)
      BY <2>2
    <3> HIDE DEF c, C
    <3>4. (c + 1) % 2 = 1 - (c % 2)
      BY <3>2
    <3> QED
      BY <2>1, <2>4, <3>2, <3>3, <3>4
  <2> QED
    BY <2>3, <2>4
<1>3. n \in Q
  <2> HIDE DEF Q
  <2> QED
    BY <1>1, <1>2, UpwardInduction
<1> DEFINE A == Changes(n, s)
           D == C(n)
<1>4. IsFiniteSet(D) /\ Cardinality(D) % 2 = (IF s[n] = s[1] THEN 0 ELSE 1) /\ 1 \notin D
  BY <1>3
<1>5. A = IF s[1] = s[n] THEN D ELSE D \cup {1}
  <2>1. \A i \in A : i \in D \/ (i = 1 /\ s[1] # s[n])
    BY DEF Changes
  <2>2. (\A i \in D : i \in A) /\ (s[1] # s[n] => 1 \in A)
    BY DEF Changes
  <2> HIDE DEF A, D
  <2> QED
    BY <1>4, <2>1, <2>2
<1>6. s[1] \in {0, 1} /\ s[n] \in {0, 1}
  OBVIOUS
<1> HIDE DEF A, D
<1>7. CASE s[1] = s[n]
  <2>1. A = D /\ Cardinality(D) % 2 = 0
    BY <1>4, <1>5, <1>7
  <2> QED
    BY <2>1 DEF A
<1>8. CASE s[1] # s[n]
  <2> DEFINE c == Cardinality(D)
  <2>1. Cardinality(A) = c + 1 /\ c \in Nat
    BY <1>4, <1>5, <1>8, FS_AddElement, FS_CardinalityType
  <2>3. c % 2 = 1
    BY <1>4, <1>8
  <2> HIDE DEF c
  <2>2. (c + 1) % 2 = 0
    BY <2>1, <2>3
  <2> QED
    BY <2>1, <2>2 DEF A
<1> QED
  BY <1>7, <1>8 DEF A

\* Of an edge that straddles a point's latitude: the crossing is east of the point.
Crosses(p, c, d) ==
  LET l == (p[1] - c[1]) * (d[2] - c[2])
      r == (d[1] - c[1]) * (p[2] - c[2])
  IN  IF d[2] > c[2] THEN l < r ELSE l > r

\* West of both ends of such an edge, a point has the crossing to its east; east
\* of both, it has not.
LEMMA CrossingBetween ==
  ASSUME NEW p \in Point, NEW c \in Point, NEW d \in Point,
         (c[2] > p[2]) # (d[2] > p[2])
  PROVE  /\ p[1] < c[1] /\ p[1] < d[1] => Crosses(p, c, d)
         /\ p[1] > c[1] /\ p[1] > d[1] => ~Crosses(p, c, d)
<1> DEFINE m == p[1] - c[1]
           w == d[1] - c[1]
           u == d[2] - c[2]
           v == p[2] - c[2]
<1>1. m \in Int /\ w \in Int /\ u \in Int /\ v \in Int
  BY DEF Point
<1>2. \/ u > 0 /\ 0 <= v /\ v < u
      \/ u < 0 /\ u <= v /\ v < 0
  BY DEF Point
<1>3. /\ p[1] < c[1] /\ p[1] < d[1] => m < 0 /\ m < w
      /\ p[1] > c[1] /\ p[1] > d[1] => m > 0 /\ m > w
  BY DEF Point
<1>4. Crosses(p, c, d) <=> IF u > 0 THEN m * u < w * v ELSE m * u > w * v
  BY DEF Crosses, Point
<1> HIDE DEF m, w, u, v
<1>5. \A x \in Int, y \in Int, z \in Int : x <= y /\ z >= 0 => x * z <= y * z
  OBVIOUS
<1>6. \A x \in Int, y \in Int, z \in Int : x < y /\ z > 0 => x * z < y * z
  OBVIOUS
<1>7. CASE u > 0 /\ 0 <= v /\ v < u
  <2>1. m < 0 /\ m < w => m * u < w * v
    <3> SUFFICES ASSUME m < 0, m < w PROVE m * u < w * v
      OBVIOUS
    <3>1. m * v <= w * v
      BY <1>1, <1>5, <1>7
    <3>2. v * (-m) < u * (-m)
      BY <1>1, <1>6, <1>7
    <3>3. v * (-m) = -(m * v) /\ u * (-m) = -(m * u) /\ m * v \in Int /\ m * u \in Int /\ w * v \in Int
      BY <1>1
    <3> QED
      BY <3>1, <3>2, <3>3
  <2>2. m > 0 /\ m > w => ~(m * u < w * v)
    <3> SUFFICES ASSUME m > 0, m > w PROVE m * u >= w * v
      BY <1>1
    <3>1. w * v <= m * v
      BY <1>1, <1>5, <1>7
    <3>2. v * m < u * m
      BY <1>1, <1>6, <1>7
    <3>3. v * m = m * v /\ u * m = m * u /\ m * v \in Int /\ m * u \in Int /\ w * v \in Int
      BY <1>1
    <3> QED
      BY <3>1, <3>2, <3>3
  <2> QED
    BY <1>3, <1>4, <1>7, <2>1, <2>2
<1>8. CASE u < 0 /\ u <= v /\ v < 0
  <2> DEFINE u1 == -u
             v1 == -v
  <2>0. u1 \in Int /\ v1 \in Int /\ v1 > 0 /\ v1 <= u1 /\ u = -u1 /\ v = -v1
    BY <1>1, <1>8
  <2> HIDE DEF u1, v1
  <2>3. m * u = -(m * u1) /\ w * v = -(w * v1) /\ m * u1 \in Int /\ w * v1 \in Int /\ m * v1 \in Int
    BY <1>1, <2>0
  <2>1. m < 0 /\ m < w => m * u1 < w * v1
    <3> SUFFICES ASSUME m < 0, m < w PROVE m * u1 < w * v1
      OBVIOUS
    <3>1. m * v1 < w * v1
      BY <1>1, <1>6, <2>0
    <3>2. v1 * (-m) <= u1 * (-m)
      BY <1>1, <1>5, <2>0
    <3>3. v1 * (-m) = -(m * v1) /\ u1 * (-m) = -(m * u1)
      BY <1>1, <2>0
    <3> QED
      BY <2>3, <3>1, <3>2, <3>3
  <2>2. m > 0 /\ m > w => m * u1 > w * v1
    <3> SUFFICES ASSUME m > 0, m > w PROVE m * u1 > w * v1
      OBVIOUS
    <3>1. w * v1 < m * v1
      BY <1>1, <1>6, <2>0
    <3>2. v1 * m <= u1 * m
      BY <1>1, <1>5, <2>0
    <3>3. v1 * m = m * v1 /\ u1 * m = m * u1
      BY <1>1, <2>0
    <3> QED
      BY <2>3, <3>1, <3>2, <3>3
  <2>4. \A x \in Int, y \in Int : (x < y => -x > -y) /\ (x > y => ~(-x > -y))
    OBVIOUS
  <2> QED
    BY <1>1, <1>3, <1>4, <1>8, <2>1, <2>2, <2>3, <2>4
<1> QED
  BY <1>2, <1>7, <1>8

\* The corner of a ring the edge at i comes from.
Before(n, i) == IF i = 1 THEN n ELSE i - 1

\* The edges of a ring that pip counts: those that lie east of the point.
Hits(p, ring) ==
  {i \in DOMAIN ring :
     /\ (ring[i][2] > p[2]) # (ring[Before(Len(ring), i)][2] > p[2])
     /\ Crosses(p, ring[i], ring[Before(Len(ring), i)])}

\* pip counts them.
LEMMA PipIs ==
  ASSUME NEW p, NEW ring
  PROVE  pip(p, ring) <=> Cardinality(Hits(p, ring)) % 2 = 1
BY Zenon DEF pip, Hits, Before, Crosses

\* A point that the ray casting finds inside a ring is in the ring's box.
LEMMA PipInBox ==
  ASSUME NEW ring \in Seq(Point), NEW p \in Point, pip(p, ring)
  PROVE  LET z == makeZone(ring)
         IN  /\ p[1] \in z.xmin..z.xmax /\ p[2] \in z.ymin..z.ymax
             /\ {z.xmin, z.xmax, z.ymin, z.ymax} \subseteq Int
<1> DEFINE n == Len(ring)
           x == [i \in 1..n |-> ring[i][1]]
           y == [i \in 1..n |-> ring[i][2]]
           s == [i \in 1..n |-> IF ring[i][2] > p[2] THEN 1 ELSE 0]
           H == Hits(p, ring)
<1>1. n \in Nat /\ DOMAIN ring = 1..n /\ p[1] \in Int /\ p[2] \in Int
  BY DEF Point
<1>2. \A i \in 1..n : /\ ring[i] \in Point /\ ring[i][1] \in Int /\ ring[i][2] \in Int
                      /\ Before(n, i) \in 1..n
  BY DEF Point, Before
<1>3. Cardinality(H) % 2 = 1
  BY PipIs
<1>4. H # {}
  <2> SUFFICES ASSUME H = {} PROVE FALSE
    OBVIOUS
  <2> HIDE DEF H
  <2>1. Cardinality(H) = 0
    BY FS_EmptySet
  <2> QED
    BY <1>3, <2>1
<1>5. H = {i \in 1..n : /\ (ring[i][2] > p[2]) # (ring[Before(n, i)][2] > p[2])
                        /\ Crosses(p, ring[i], ring[Before(n, i)])}
  BY <1>1, Zenon DEF Hits
<1>6. PICK h \in 1..n : (ring[h][2] > p[2]) # (ring[Before(n, h)][2] > p[2])
  <2> HIDE DEF H
  <2> QED
    BY <1>4, <1>5
<1>7. /\ \E i \in 1..n : ring[i][2] > p[2]
      /\ \E i \in 1..n : ring[i][2] <= p[2]
  BY <1>1, <1>2, <1>6
<1>8. \E i \in 1..n : ring[i][1] <= p[1]
  <2> SUFFICES ASSUME \A i \in 1..n : p[1] < ring[i][1] PROVE FALSE
    BY <1>1, <1>2
  <2>1. \A i \in 1..n : /\ (ring[i][2] > p[2]) # (ring[Before(n, i)][2] > p[2])
                        => Crosses(p, ring[i], ring[Before(n, i)])
    BY <1>2, CrossingBetween
  <2>2. H = {i \in 1..n : (ring[i][2] > p[2]) # (ring[Before(n, i)][2] > p[2])}
    <3> HIDE DEF H, n
    <3> QED
      BY <1>5, <2>1
  <2>3. \A i \in 1..n : (s[i] # s[Before(n, i)]) <=>
                        ((ring[i][2] > p[2]) # (ring[Before(n, i)][2] > p[2]))
    BY <1>2
  <2>4. s \in [1..n -> {0, 1}]
    OBVIOUS
  <2> HIDE DEF s, H
  <2>5. H = Changes(n, s)
    <3>1. Changes(n, s) = {i \in 1..n : s[i] # s[Before(n, i)]}
      BY Zenon DEF Changes, Before
    <3> HIDE DEF n
    <3> QED
      BY <2>2, <2>3, <3>1
  <2>6. n \in Nat \ {0}
    BY <1>1, <1>6
  <2> HIDE DEF n
  <2>7. Cardinality(H) % 2 = 0
    BY <2>4, <2>5, <2>6, EvenChanges
  <2> QED
    BY <1>3, <2>7
<1>9. \E i \in 1..n : ring[i][1] >= p[1]
  <2> SUFFICES ASSUME \A i \in 1..n : p[1] > ring[i][1] PROVE FALSE
    BY <1>1, <1>2
  <2>1. \A i \in 1..n : /\ (ring[i][2] > p[2]) # (ring[Before(n, i)][2] > p[2])
                        => ~Crosses(p, ring[i], ring[Before(n, i)])
    BY <1>2, CrossingBetween
  <2> HIDE DEF H, n
  <2> QED
    BY <1>4, <1>5, <2>1
<1>10. n \in Nat \ {0} /\ x \in [1..n -> Int] /\ y \in [1..n -> Int]
  BY <1>1, <1>2, <1>6
<1>11. \A i \in 1..n : x[i] = ring[i][1] /\ y[i] = ring[i][2]
  OBVIOUS
<1> DEFINE xs == {x[i] : i \in 1..n}
           ys == {y[i] : i \in 1..n}
<1>12. /\ {c[1] : c \in ToSet(ring)} = xs
       /\ {c[2] : c \in ToSet(ring)} = ys
  <2>1. ToSet(ring) = {ring[i] : i \in 1..n}
    BY <1>1, Zenon DEF ToSet
  <2> HIDE DEF n, x, y
  <2> QED
    BY <1>11, <2>1
<1> HIDE DEF x, y, n
<1>13. /\ Min(xs) \in Int /\ Max(xs) \in Int /\ Min(ys) \in Int /\ Max(ys) \in Int
       /\ \A i \in 1..n : Min(xs) <= x[i] /\ x[i] <= Max(xs) /\ Min(ys) <= y[i] /\ y[i] <= Max(ys)
  <2>1. /\ Max(xs) \in xs /\ \A i \in 1..n : Max(xs) >= x[i]
        /\ Min(xs) \in xs /\ \A i \in 1..n : Min(xs) <= x[i]
    BY <1>10, Extremes
  <2>2. /\ Max(ys) \in ys /\ \A i \in 1..n : Max(ys) >= y[i]
        /\ Min(ys) \in ys /\ \A i \in 1..n : Min(ys) <= y[i]
    BY <1>10, Extremes
  <2>3. xs \subseteq Int /\ ys \subseteq Int
    BY <1>10
  <2> HIDE DEF xs, ys
  <2>4. Min(xs) \in Int /\ Max(xs) \in Int /\ Min(ys) \in Int /\ Max(ys) \in Int
    BY <2>1, <2>2, <2>3
  <2>5. \A i \in 1..n : x[i] \in Int /\ y[i] \in Int
    BY <1>10
  <2> QED
    BY <2>1, <2>2, <2>4, <2>5
<1> HIDE DEF xs, ys
<1>14. /\ makeZone(ring).xmin = Min(xs) /\ makeZone(ring).xmax = Max(xs)
       /\ makeZone(ring).ymin = Min(ys) /\ makeZone(ring).ymax = Max(ys)
  BY <1>12 DEF makeZone
<1>15. \A i \in 1..n : /\ ring[i][1] \in Int /\ Min(xs) <= ring[i][1] /\ ring[i][1] <= Max(xs)
                        /\ ring[i][2] \in Int /\ Min(ys) <= ring[i][2] /\ ring[i][2] <= Max(ys)
  BY <1>2, <1>11, <1>13
<1>16. Min(xs) <= p[1] /\ p[1] <= Max(xs)
  <2>1. PICK i \in 1..n : ring[i][1] <= p[1]
    BY <1>8
  <2>2. PICK j \in 1..n : ring[j][1] >= p[1]
    BY <1>9
  <2> QED
    BY <1>1, <1>13, <1>15, <2>1, <2>2
<1>17. Min(ys) <= p[2] /\ p[2] <= Max(ys)
  <2>1. PICK i \in 1..n : ring[i][2] > p[2]
    BY <1>7
  <2>2. PICK j \in 1..n : ring[j][2] <= p[2]
    BY <1>7
  <2> QED
    BY <1>1, <1>13, <1>15, <2>1, <2>2
<1> QED
  BY <1>1, <1>13, <1>14, <1>16, <1>17

\* Longitudes of one turn that are whole turns apart are the same.
LEMMA SameLon ==
  ASSUME NEW x \in -Half..Half - 1, NEW y \in -Half..Half - 1, x - y \in Turns
  PROVE  x = y
<1> DEFINE n == 2 * Half
<1>1. Half \in Nat \ {0} /\ n \in Nat \ {0} /\ n = Half + Half
  BY GeographyAssumption
<1>2. PICK k \in Int : x - y = n * k
  BY DEF Turns
<1> HIDE DEF n
<1>3. x \in Int /\ y \in Int /\ x - y < n /\ x - y > -n
  BY <1>1
<1>4. k >= 1 => n * k >= n
  BY <1>1
<1>5. k <= -1 => n * k <= -n
  BY <1>1
<1>6. k = 0
  BY <1>1, <1>2, <1>3, <1>4, <1>5
<1> QED
  BY <1>1, <1>2, <1>3, <1>6

\* Wrapping puts a longitude into the one turn, wherever whole turns away it is.
LEMMA WrapRange ==
  ASSUME NEW x \in Int
  PROVE  /\ wrapLon(x) \in -Half..Half - 1
         /\ \A y \in Int : y - x \in Turns => wrapLon(y) = wrapLon(x)
         /\ x \in -Half..Half - 1 => wrapLon(x) = x
<1>1. Half \in Nat \ {0}
  BY GeographyAssumption
<1>2. ASSUME NEW y \in Int PROVE wrapLon(y) \in -Half..Half - 1
  <2> DEFINE r == JsRem(y + Half, 2 * Half)
             z == JsRem(r + 2 * Half, 2 * Half)
  <2>1. r \in Int
    BY <1>1, JsRemIs
  <2>2. r + 2 * Half >= 0
    <3> DEFINE n == 2 * Half
               v == y + Half
    <3>1. n \in Nat \ {0} /\ v \in Int
      BY <1>1
    <3> HIDE DEF n, v
    <3>2. v % n \in 0..n - 1 /\ (-v) % n \in 0..n - 1
      BY <3>1
    <3>3. JsRem(v, n) \in Int /\ JsRem(v, n) + n >= 0
      BY <3>1, <3>2 DEF JsRem
    <3> QED
      BY <3>3 DEF n, v
  <2> HIDE DEF r
  <2>3. z \in 0..2 * Half - 1
    BY <1>1, <2>1, <2>2, JsRemIs
  <2>4. wrapLon(y) = z - Half
    BY DEF wrapLon, z, r
  <2> HIDE DEF z
  <2> QED
    BY <1>1, <2>3, <2>4
<1>3. ASSUME NEW y \in Int, y - x \in Turns PROVE wrapLon(y) = wrapLon(x)
  <2>1. wrapLon(y) \in Int /\ wrapLon(y) - y \in Turns /\ wrapLon(x) \in Int /\ wrapLon(x) - x \in Turns
    BY WrapLonIs
  <2>2. ((wrapLon(y) - y) - (wrapLon(x) - x)) + (y - x) \in Turns
    BY <1>3, <2>1, TurnsAdd
  <2>3. ((wrapLon(y) - y) - (wrapLon(x) - x)) + (y - x) = wrapLon(y) - wrapLon(x)
    BY <2>1
  <2> QED
    BY <1>2, <2>2, <2>3, SameLon
<1>4. x \in -Half..Half - 1 => wrapLon(x) = x
  BY <1>2, WrapLonIs, SameLon
<1> QED
  BY <1>2, <1>3, <1>4

\* The shorter way between longitudes less than half a turn apart is straight.
LEMMA ShorterNear ==
  ASSUME NEW x \in Int, NEW y \in Int, Magnitude(y - x) < Half
  PROVE  Shorter(x, y) = y - x
<1> DEFINE n == 2 * Half
           w == y - x
<1>1. Half \in Nat \ {0} /\ n \in Nat \ {0} /\ n = Half + Half /\ w \in Int
  BY GeographyAssumption
<1>2. Shorter(x, y) = IF w % n > Half THEN (w % n) - n ELSE w % n
  BY DEF Shorter
<1> DEFINE q == w \div n
<1>3. w = n * q + (w % n) /\ w % n \in 0..n - 1 /\ q \in Int
  <2> HIDE DEF w, n
  <2> QED
    BY <1>1
<1>4. w < Half /\ w > -Half
  BY <1>1 DEF Magnitude
<1> DEFINE r == w % n
<1> HIDE DEF w, n, q, r
<1>5. r \in Int /\ w = n * q + r /\ 0 <= r /\ r < n
  BY <1>1, <1>3 DEF r
<1>6. q >= 1 => n * q >= n
  BY <1>1, <1>3
<1>7. q <= -2 => n * q <= -(n + n)
  BY <1>1, <1>3
<1>8. n * 0 = 0 /\ n * (-1) = -n /\ n * q \in Int
  BY <1>1, <1>3
<1>9. q = 0 \/ q = -1
  BY <1>1, <1>3, <1>4, <1>5, <1>6, <1>7, <1>8
<1>10. CASE q = 0
  BY <1>1, <1>2, <1>4, <1>5, <1>8, <1>10 DEF w, r
<1>11. CASE q = -1
  <2>1. r = w + n
    BY <1>1, <1>5, <1>8, <1>11
  <2> QED
    BY <1>1, <1>2, <1>4, <2>1 DEF w, r
<1> QED
  BY <1>9, <1>10, <1>11

\* So the shorter way back is the way there, unless both ways are the same.
LEMMA ShorterBack ==
  ASSUME NEW x \in -Half..Half - 1, NEW y \in -Half..Half - 1, Magnitude(y - x) # Half
  PROVE  Shorter(y, x) = -Shorter(x, y) /\ Magnitude(Shorter(x, y)) < Half
<1> DEFINE d == Shorter(x, y)
<1>1. Half \in Nat \ {0} /\ x \in Int /\ y \in Int
  BY GeographyAssumption
<1>2. /\ d \in Int /\ (x + d) - y \in Turns
      /\ \A t \in Turns : Shorter(y, x + t) = Shorter(y, x)
  BY <1>1, ShorterIs
<1>3. d <= Half /\ d > -Half
  <2> DEFINE n == 2 * Half
             r == (y - x) % n
  <2>1. n \in Nat \ {0} /\ n = Half + Half
    BY <1>1
  <2>2. r \in 0..n - 1
    <3> DEFINE w == y - x
    <3>1. w \in Int
      BY <1>1
    <3> HIDE DEF w, n
    <3>2. w % n \in 0..n - 1
      BY <2>1, <3>1
    <3> QED
      BY <3>2 DEF w
  <2>3. d = IF r > Half THEN r - n ELSE r
    BY DEF Shorter
  <2> HIDE DEF d, r, n
  <2> QED
    BY <1>1, <2>1, <2>2, <2>3
<1> HIDE DEF d
<1>4. d # Half
  <2> SUFFICES ASSUME d = Half PROVE FALSE
    OBVIOUS
  <2>1. (x + Half) - y \in Turns /\ ((x + Half) - y) - 2 * Half \in Turns
    BY <1>2, TurnsAdd
  <2>2. CASE y >= 0
    <3>1. y - Half \in -Half..Half - 1 /\ x - (y - Half) = (x + Half) - y
      BY <1>1, <2>2
    <3>2. x = y - Half
      BY <2>1, <3>1, SameLon
    <3> QED
      BY <1>1, <3>2 DEF Magnitude
  <2>3. CASE y < 0
    <3>1. y + Half \in -Half..Half - 1 /\ x - (y + Half) = ((x + Half) - y) - 2 * Half
      BY <1>1, <2>3
    <3>2. x = y + Half
      BY <2>1, <3>1, SameLon
    <3> QED
      BY <1>1, <3>2 DEF Magnitude
  <2> QED
    BY <1>1, <2>2, <2>3
<1>5. -((x + d) - y) \in Turns /\ x + (-((x + d) - y)) = y - d
  BY <1>1, <1>2, TurnsAdd
<1>6. Shorter(y, x) = Shorter(y, y - d)
  BY <1>2, <1>5
<1>7. Magnitude((y - d) - y) < Half /\ Magnitude(d) < Half /\ (y - d) - y = -d /\ y - d \in Int
  BY <1>1, <1>2, <1>3, <1>4 DEF Magnitude
<1>8. Shorter(y, y - d) = -d
  BY <1>1, <1>7, ShorterNear
<1> QED
  BY <1>6, <1>7, <1>8 DEF d

\* A part of a whole lies between nothing and it, and what is left of the way
\* back is the rest.
LEMMA Part ==
  ASSUME NEW n \in Nat \ {0}, NEW d \in Int, NEW k \in 0..n
  PROVE  /\ (k * d) \div n \in Int
         /\ d >= 0 => (k * d) \div n \in 0..d
         /\ d <= 0 => (k * d) \div n \in d..0
         /\ ((n - k) * (-d)) \div n = ((k * d) \div n) - d
<1> DEFINE p == k * d
           q == p \div n
<1>1. p \in Int /\ k \in Nat /\ k <= n
  OBVIOUS
<1>2. q \in Int
  <2> HIDE DEF p
  <2> QED
    BY <1>1
<1>3. q * n <= p /\ p < q * n + n
  <2> HIDE DEF p
  <2>1. p \div n = q
    OBVIOUS
  <2> HIDE DEF q
  <2> QED
    BY <1>1, <1>2, <2>1, Divided
<1>4. /\ d >= 0 => p >= 0 /\ p <= d * n
      /\ d <= 0 => p <= 0 /\ p >= d * n
  <2>1. \A x \in Int, y \in Int, z \in Int : x <= y /\ z >= 0 => x * z <= y * z
    OBVIOUS
  <2>2. d >= 0 => k * d <= n * d /\ 0 * d <= k * d
    BY <1>1, <2>1
  <2>3. d <= 0 => k * (-d) <= n * (-d) /\ 0 * (-d) <= k * (-d)
    <3>1. d <= 0 => -d >= 0
      OBVIOUS
    <3> QED
      BY <1>1, <2>1, <3>1
  <2>4. 0 * d = 0 /\ 0 * (-d) = 0 /\ n * d = d * n /\ k * (-d) = -(k * d) /\ n * (-d) = -(d * n) /\ d * n \in Int
    BY <1>1
  <2> QED
    BY <1>1, <2>2, <2>3, <2>4
<1>5. \A x \in Int, y \in Int : x >= y + 1 => x * n >= y * n + n
  <2> TAKE x \in Int, y \in Int
  <2>1. x >= y + 1 => x * n >= (y + 1) * n
    OBVIOUS
  <2>2. (y + 1) * n = y * n + n /\ x * n \in Int /\ y * n \in Int
    OBVIOUS
  <2> QED
    BY <2>1, <2>2
<1>6. \A x \in Int : x * n \in Int
  OBVIOUS
<1>7. 0 * n = 0
  OBVIOUS
<1>8. d >= 0 => q \in 0..d
  <2> SUFFICES ASSUME d >= 0 PROVE q >= 0 /\ q <= d
    BY <1>2
  <2> HIDE DEF p, q
  <2>1. ~(0 >= q + 1)
    BY <1>1, <1>2, <1>3, <1>4, <1>5, <1>6, <1>7
  <2>2. ~(q >= d + 1)
    BY <1>1, <1>2, <1>3, <1>4, <1>5, <1>6
  <2> QED
    BY <1>2, <2>1, <2>2
<1>9. d <= 0 => q \in d..0
  <2> SUFFICES ASSUME d <= 0 PROVE q <= 0 /\ q >= d
    BY <1>2
  <2> HIDE DEF p, q
  <2>1. ~(q >= 0 + 1)
    BY <1>1, <1>2, <1>3, <1>4, <1>5, <1>6, <1>7
  <2>2. ~(d >= q + 1)
    BY <1>1, <1>2, <1>3, <1>4, <1>5, <1>6
  <2> QED
    BY <1>2, <2>1, <2>2
<1>10. ((n - k) * (-d)) \div n = q - d
  <2> DEFINE r == (n - k) * (-d)
  <2>1. r = p - d * n /\ (q - d) * n = q * n - d * n /\ d * n \in Int /\ r \in Int
    BY <1>1, <1>2
  <2> HIDE DEF p, q, r
  <2>2. (q - d) * n <= r /\ r < (q - d) * n + n /\ q - d \in Int
    BY <1>1, <1>2, <1>3, <1>6, <2>1
  <2>3. r \div n = q - d
    BY <2>1, <2>2, Divided
  <2> QED
    BY <2>3 DEF r
<1> QED
  BY <1>2, <1>8, <1>9, <1>10

\* The point k of n on the way from a.
OnCircle(a, dx, dy, n, k) == <<wrapLon(a[1] + (k * dx) \div n), a[2] + (k * dy) \div n>>

\* How many steps it takes.
Samples(dx, dy) == Max({1, Magnitude(dx), Magnitude(dy)})

\* These are a great circle's points.
LEMMA CirclePoints ==
  ASSUME NEW a \in Point, NEW b \in Point
  PROVE  LET dx == Shorter(a[1], b[1])
             dy == b[2] - a[2]
             n  == Samples(dx, dy)
         IN  /\ n \in Nat \ {0} /\ dx \in Int /\ dy \in Int
             /\ ToSet(GreatCircle(a, b)) = {OnCircle(a, dx, dy, n, k) : k \in 0..n}
<1> DEFINE dx == Shorter(a[1], b[1])
           dy == b[2] - a[2]
           n == Samples(dx, dy)
           line == [i \in 1..n + 1 |-> OnCircle(a, dx, dy, n, i - 1)]
<1>1. GreatCircle(a, b) = line
  BY Zenon DEF GreatCircle, OnCircle, Samples
<1>2. dx \in Int /\ dy \in Int
  <2>1. a[1] \in Int /\ a[2] \in Int /\ b[1] \in Int /\ b[2] \in Int
    BY DEF Point
  <2>2. dy \in Int
    BY <2>1
  <2> HIDE DEF dy
  <2>3. dx \in Int
    BY <2>1, ShorterIs
  <2> QED
    BY <2>2, <2>3
<1> HIDE DEF dx, dy
<1>3. n \in Nat \ {0}
  BY <1>2, MagnitudeIs, MaxOfThree DEF Samples
<1> HIDE DEF n
<1>4. ToSet(line) = {OnCircle(a, dx, dy, n, k) : k \in 0..n}
  <2>1. ToSet(line) = {line[i] : i \in 1..n + 1}
    BY Zenon DEF ToSet
  <2>2. \A i \in 1..n + 1 : line[i] = OnCircle(a, dx, dy, n, i - 1)
    OBVIOUS
  <2> HIDE DEF line
  <2>3. \A i \in 1..n + 1 : i - 1 \in 0..n
    BY <1>3
  <2>4. \A k \in 0..n : k + 1 \in 1..n + 1 /\ (k + 1) - 1 = k
    BY <1>3
  <2> QED
    BY <2>1, <2>2, <2>3, <2>4
<1> QED
  BY <1>1, <1>2, <1>3, <1>4 DEF dx, dy, n

\* A great circle is the same both ways, but for opposite longitudes.
LEMMA CircleBack ==
  ASSUME NEW a \in Point, NEW b \in Point, {a[1], b[1]} \subseteq -Half..Half - 1,
         Magnitude(b[1] - a[1]) # Half
  PROVE  ToSet(GreatCircle(b, a)) \subseteq ToSet(GreatCircle(a, b))
<1> DEFINE dx == Shorter(a[1], b[1])
           dy == b[2] - a[2]
           ex == Shorter(b[1], a[1])
           ey == a[2] - b[2]
           n == Samples(dx, dy)
<1>0. a[1] \in Int /\ a[2] \in Int /\ b[1] \in Int /\ b[2] \in Int
  BY DEF Point
<1>1. /\ n \in Nat \ {0} /\ dx \in Int /\ dy \in Int
      /\ ToSet(GreatCircle(a, b)) = {OnCircle(a, dx, dy, n, k) : k \in 0..n}
  BY CirclePoints
<1>2. ToSet(GreatCircle(b, a)) = {OnCircle(b, ex, ey, Samples(ex, ey), k) : k \in 0..Samples(ex, ey)}
  BY CirclePoints
<1>3. ex = -dx /\ ey = -dy
  BY <1>0, ShorterBack
<1>4. (a[1] + dx) - b[1] \in Turns
  BY <1>0, ShorterIs
<1>5. dy = b[2] - a[2]
  OBVIOUS
<1>6. Samples(ex, ey) = n
  <2> HIDE DEF dx, dy, ex, ey
  <2>1. Magnitude(ex) = Magnitude(dx) /\ Magnitude(ey) = Magnitude(dy)
    BY <1>1, <1>3 DEF Magnitude
  <2> QED
    BY <2>1 DEF Samples
<1> HIDE DEF dx, dy, ex, ey, n
<1>7. ASSUME NEW k \in 0..n
      PROVE  OnCircle(b, ex, ey, n, k) = OnCircle(a, dx, dy, n, n - k)
  <2> DEFINE qx == ((n - k) * dx) \div n
             qy == ((n - k) * dy) \div n
             j == n - k
  <2>1. j \in 0..n /\ n - j = k
    BY <1>1
  <2>2. qx \in Int /\ qy \in Int
        /\ ((n - j) * (-dx)) \div n = qx - dx /\ ((n - j) * (-dy)) \div n = qy - dy
    <3> HIDE DEF j
    <3>1. /\ (j * dx) \div n \in Int /\ ((n - j) * (-dx)) \div n = ((j * dx) \div n) - dx
      BY <1>1, <2>1, Part
    <3>2. /\ (j * dy) \div n \in Int /\ ((n - j) * (-dy)) \div n = ((j * dy) \div n) - dy
      BY <1>1, <2>1, Part
    <3> QED
      BY <3>1, <3>2 DEF j
  <2>3. (k * ex) \div n = qx - dx /\ (k * ey) \div n = qy - dy
    <3> HIDE DEF qx, qy, j
    <3> QED
      BY <1>3, <2>1, <2>2
  <2>4. OnCircle(a, dx, dy, n, j) = <<wrapLon(a[1] + qx), a[2] + qy>>
    BY DEF OnCircle
  <2>5. OnCircle(b, ex, ey, n, k) = <<wrapLon(b[1] + (qx - dx)), b[2] + (qy - dy)>>
    BY <2>3 DEF OnCircle
  <2> HIDE DEF qx, qy
  <2>6. b[2] + (qy - dy) = a[2] + qy
    BY <1>0, <1>5, <2>2
  <2>7. wrapLon(b[1] + (qx - dx)) = wrapLon(a[1] + qx)
    <3>1. (b[1] + (qx - dx)) - (a[1] + qx) = -((a[1] + dx) - b[1])
      BY <1>0, <1>1, <2>2
    <3>2. -((a[1] + dx) - b[1]) \in Turns
      BY <1>4, TurnsAdd
    <3>3. b[1] + (qx - dx) \in Int /\ a[1] + qx \in Int
      BY <1>0, <1>1, <2>2
    <3> QED
      BY <3>1, <3>2, <3>3, WrapRange
  <2> QED
    BY <2>4, <2>5, <2>6, <2>7
<1>8. \A k \in 0..n : n - k \in 0..n
  BY <1>1
<1> QED
  BY <1>1, <1>2, <1>6, <1>7, <1>8

\* Its points are between its ends, in latitude, and in longitude too if it does
\* not cross the dateline.
LEMMA CircleBetween ==
  ASSUME NEW a \in Point, NEW b \in Point, {a[1], b[1]} \subseteq -Half..Half - 1,
         NEW p \in ToSet(GreatCircle(a, b))
  PROVE  /\ p \in Point
         /\ (p[2] >= a[2] \/ p[2] >= b[2]) /\ (p[2] <= a[2] \/ p[2] <= b[2])
         /\ Magnitude(b[1] - a[1]) < Half =>
              /\ p[1] >= a[1] \/ p[1] >= b[1]
              /\ p[1] <= a[1] \/ p[1] <= b[1]
<1> DEFINE dx == Shorter(a[1], b[1])
           dy == b[2] - a[2]
           n == Samples(dx, dy)
<1>0. a[1] \in Int /\ a[2] \in Int /\ b[1] \in Int /\ b[2] \in Int
  BY DEF Point
<1>1. /\ n \in Nat \ {0} /\ dx \in Int /\ dy \in Int
      /\ ToSet(GreatCircle(a, b)) = {OnCircle(a, dx, dy, n, k) : k \in 0..n}
  BY CirclePoints
<1>2. dy = b[2] - a[2] /\ (Magnitude(b[1] - a[1]) < Half => dx = b[1] - a[1])
  BY <1>0, ShorterNear
<1> HIDE DEF dx, dy, n
<1>3. PICK k \in 0..n : p = OnCircle(a, dx, dy, n, k)
  BY <1>1
<1> DEFINE qx == (k * dx) \div n
           qy == (k * dy) \div n
<1>4. /\ qx \in Int /\ qy \in Int
      /\ dx >= 0 => qx \in 0..dx
      /\ dx <= 0 => qx \in dx..0
      /\ dy >= 0 => qy \in 0..dy
      /\ dy <= 0 => qy \in dy..0
  BY <1>1, Part
<1>5. p = <<wrapLon(a[1] + qx), a[2] + qy>>
  BY <1>3 DEF OnCircle
<1> HIDE DEF qx, qy
<1>6. wrapLon(a[1] + qx) \in Int /\ (a[1] + qx \in -Half..Half - 1 => wrapLon(a[1] + qx) = a[1] + qx)
  BY <1>0, <1>4, WrapRange, GeographyAssumption
<1>7. p \in Point /\ p[1] = wrapLon(a[1] + qx) /\ p[2] = a[2] + qy
  BY <1>0, <1>4, <1>5, <1>6 DEF Point
<1>8. (p[2] >= a[2] \/ p[2] >= b[2]) /\ (p[2] <= a[2] \/ p[2] <= b[2])
  BY <1>0, <1>1, <1>2, <1>4, <1>7
<1>9. ASSUME Magnitude(b[1] - a[1]) < Half
      PROVE  (p[1] >= a[1] \/ p[1] >= b[1]) /\ (p[1] <= a[1] \/ p[1] <= b[1])
  <2>1. dx = b[1] - a[1] /\ Half \in Nat
    BY <1>2, <1>9, GeographyAssumption
  <2>2. a[1] + qx \in -Half..Half - 1 /\ (a[1] + qx >= a[1] \/ a[1] + qx >= b[1])
        /\ (a[1] + qx <= a[1] \/ a[1] + qx <= b[1])
    BY <1>0, <1>1, <1>4, <2>1
  <2> QED
    BY <1>6, <1>7, <2>2
<1> QED
  BY <1>7, <1>8, <1>9

\* The greater and the lesser of two integers.
LEMMA OfTwo ==
  ASSUME NEW x \in Int, NEW y \in Int
  PROVE  /\ Max({x, y}) \in {x, y} /\ Max({x, y}) >= x /\ Max({x, y}) >= y
         /\ Min({x, y}) \in {x, y} /\ Min({x, y}) <= x /\ Min({x, y}) <= y
<1> DEFINE S == {x, y}
<1>1. (\E m \in S : \A k \in S : m >= k) /\ (\E m \in S : \A k \in S : m <= k)
  <2>1. CASE x >= y
    BY <2>1
  <2>2. CASE y >= x
    BY <2>2
  <2> QED
    BY <2>1, <2>2
<1>2. x \in S /\ y \in S
  OBVIOUS
<1> HIDE DEF S
<1>3. Max(S) \in S /\ \A k \in S : Max(S) >= k
  BY <1>1, Zenon DEF Max
<1>4. Min(S) \in S /\ \A k \in S : Min(S) <= k
  BY <1>1, Zenon DEF Min
<1> QED
  BY <1>2, <1>3, <1>4 DEF S

\* An edge that zonesBlock lets pass has no point in a zone, whichever way it is
\* travelled, unless it crosses the dateline by a zone that lies beyond both ends.
LEMMA OpenIsClear ==
  ASSUME NEW a \in Point, NEW b \in Point, {a[1], b[1]} \subseteq -Half..Half - 1,
         Magnitude(b[1] - a[1]) # Half,
         NEW zones, ~zonesBlock(a, b, zones), NEW ring \in Seq(Point), makeZone(ring) \in zones,
         Magnitude(b[1] - a[1]) > Half =>
           /\ makeZone(ring).xmin <= Max({a[1], b[1]})
           /\ makeZone(ring).xmax >= Min({a[1], b[1]})
  PROVE  \A p \in ToSet(GreatCircle(a, b)) \cup ToSet(GreatCircle(b, a)) : ~pip(p, ring)
<1> SUFFICES ASSUME NEW p \in ToSet(GreatCircle(a, b)), pip(p, ring)
             PROVE  FALSE
  BY CircleBack
<1> DEFINE z == makeZone(ring)
           hi1 == Max({a[1], b[1]})
           lo1 == Min({a[1], b[1]})
           hi2 == Max({a[2], b[2]})
           lo2 == Min({a[2], b[2]})
<1>0. a[1] \in Int /\ a[2] \in Int /\ b[1] \in Int /\ b[2] \in Int
  BY DEF Point
<1>1. /\ p \in Point
      /\ (p[2] >= a[2] \/ p[2] >= b[2]) /\ (p[2] <= a[2] \/ p[2] <= b[2])
      /\ Magnitude(b[1] - a[1]) < Half =>
           /\ p[1] >= a[1] \/ p[1] >= b[1]
           /\ p[1] <= a[1] \/ p[1] <= b[1]
  BY CircleBetween
<1>2. /\ p[1] \in z.xmin..z.xmax /\ p[2] \in z.ymin..z.ymax
      /\ {z.xmin, z.xmax, z.ymin, z.ymax} \subseteq Int
  BY <1>1, PipInBox
<1>3. z.ring = ring
  BY DEF makeZone
<1>4. z \in zones /\ (Magnitude(b[1] - a[1]) > Half => z.xmin <= hi1 /\ z.xmax >= lo1)
  OBVIOUS
<1> HIDE DEF z
<1>5. /\ hi1 \in Int /\ hi1 >= a[1] /\ hi1 >= b[1] /\ lo1 \in Int /\ lo1 <= a[1] /\ lo1 <= b[1]
      /\ hi2 \in Int /\ hi2 >= a[2] /\ hi2 >= b[2] /\ lo2 \in Int /\ lo2 <= a[2] /\ lo2 <= b[2]
  BY <1>0, OfTwo
<1> HIDE DEF hi1, lo1, hi2, lo2
<1>6. p[1] \in Int /\ p[2] \in Int
  BY <1>1 DEF Point
<1>7. z.ymin <= hi2 /\ z.ymax >= lo2
  <2>1. z.ymin <= p[2] /\ p[2] <= z.ymax /\ z.ymin \in Int /\ z.ymax \in Int
    BY <1>2
  <2>2. p[2] <= hi2 /\ p[2] >= lo2
    BY <1>0, <1>1, <1>5, <1>6
  <2> QED
    BY <1>5, <1>6, <2>1, <2>2
<1>8. z.xmin <= hi1 /\ z.xmax >= lo1
  <2>1. CASE Magnitude(b[1] - a[1]) < Half
    <3>1. z.xmin <= p[1] /\ p[1] <= z.xmax /\ z.xmin \in Int /\ z.xmax \in Int
      BY <1>2
    <3>2. p[1] <= hi1 /\ p[1] >= lo1
      BY <1>0, <1>1, <1>5, <1>6, <2>1
    <3> QED
      BY <1>5, <1>6, <3>1, <3>2
  <2>2. CASE ~(Magnitude(b[1] - a[1]) < Half)
    <3>1. Magnitude(b[1] - a[1]) > Half
      <4>1. Magnitude(b[1] - a[1]) \in Int /\ Half \in Int
        <5>1. b[1] - a[1] \in Int
          BY <1>0
        <5> QED
          BY <5>1, MagnitudeIs, GeographyAssumption
      <4> QED
        BY <2>2, <4>1
    <3> QED
      BY <1>4, <3>1
  <2> QED
    BY <2>1, <2>2
<1>9. Covers(z, p)
  BY <1>2, <1>3 DEF Covers
<1>10. zonesBlock(a, b, zones)
  BY <1>4, <1>7, <1>8, <1>9, Zenon DEF zonesBlock, hi1, lo1, hi2, lo2
<1> QED
  BY <1>10

----------------------------------------------------------------------------
(***************************************************************************)
(* Lines without a seam: unwrapping closes every gap of a line that stays  *)
(* within a whole turn of the middle of the map.                           *)
(***************************************************************************)

\* The points less than a whole turn away from the middle of the map.
Inner == {p \in Point : Magnitude(p[1]) < 2 * Half}

\* From a point to a projected one, or to one that is the same place.
Onward ==
  {w \in Point \X Point : \/ w[2][1] \in -Half..Half - 1
                          \/ w[2] \in Inner /\ w[2][1] - w[1][1] \in Turns}

\* A line whose neighbours are related.
Chained(line, R) == \A i \in 1..Len(line) - 1 : <<line[i], line[i + 1]>> \in R

\* Neighbours at most half a turn apart.
RunsOn(line) == \A i \in 1..Len(line) - 1 : Magnitude(line[i + 1][1] - line[i][1]) <= Half

\* One step of the unwrapping leaves no gap.
LEMMA StepRunsOn ==
  ASSUME NEW x \in Int, NEW y \in Int, Magnitude(x) < 2 * Half,
         y \in -Half..Half - 1 \/ (Magnitude(y) < 2 * Half /\ y - x \in Turns),
         NEW z, z = y + (IF y - x > Half THEN -2 * Half
                         ELSE IF y - x < -Half THEN 2 * Half ELSE 0)
  PROVE  Magnitude(z) < 2 * Half => Magnitude(z - x) <= Half
<1>1. Half \in Nat \ {0}
  BY GeographyAssumption
<1>2. x < 2 * Half /\ x > -(2 * Half)
  BY <1>1 DEF Magnitude
<1>3. CASE y \in -Half..Half - 1
  BY <1>1, <1>2, <1>3 DEF Magnitude
<1>4. CASE Magnitude(y) < 2 * Half /\ y - x \in Turns
  <2>1. y < 2 * Half /\ y > -(2 * Half)
    BY <1>1, <1>4 DEF Magnitude
  <2>2. y - x < 4 * Half /\ y - x > -(4 * Half)
    BY <1>1, <1>2, <2>1
  <2>3. y - x \in {-(2 * Half), 0, 2 * Half}
    BY <1>4, <2>2, FewTurns
  <2>4. z = x
    BY <1>1, <2>3
  <2> QED
    BY <1>1, <2>4 DEF Magnitude
<1> QED
  BY <1>3, <1>4

\* So an unwrapped line that stays within a turn has no gap.
LEMMA UnwrappedRunsOn ==
  ASSUME NEW line \in Seq(Point), line # <<>>, Chained(line, Onward),
         Unwrapped(line) \in Seq(Inner)
  PROVE  RunsOn(Unwrapped(line))
<1> DEFINE u == Unwrapped(line)
           n == Len(line)
<1>1. /\ n \in Nat /\ Len(u) = n
      /\ \A i \in 1..n : Same(line[i], u[i]) /\ u[i] = UnwrapStep(u, line, i)
  BY UnwrappedIs
<1>2. \A i \in 1..n : u[i] \in Inner
  BY <1>1
<1> HIDE DEF u
<1> SUFFICES ASSUME NEW i \in 1..n - 1
             PROVE  Magnitude(u[i + 1][1] - u[i][1]) <= Half
  BY <1>1 DEF RunsOn, u
<1>3. i \in 1..n /\ i + 1 \in 1..n /\ i + 1 # 1 /\ (i + 1) - 1 = i
  BY <1>1
<1>4. line[i] \in Point /\ line[i + 1] \in Point /\ <<line[i], line[i + 1]>> \in Onward
  BY <1>3 DEF Chained, n
<1> DEFINE x == u[i][1]
           y == line[i + 1][1]
           z == u[i + 1][1]
           move == IF y - x > Half THEN -2 * Half ELSE IF y - x < -Half THEN 2 * Half ELSE 0
<1>5. /\ x \in Int /\ y \in Int /\ z \in Int /\ line[i][1] \in Int
      /\ Magnitude(x) < 2 * Half /\ Magnitude(z) < 2 * Half
  BY <1>2, <1>3, <1>4 DEF Inner, Point
<1>6. z = y + move
  <2>1. u[i + 1] = <<y + move, line[i + 1][2]>>
    BY <1>1, <1>3, Zenon DEF UnwrapStep
  <2> HIDE DEF move
  <2> QED
    BY <2>1
<1>7. y \in -Half..Half - 1 \/ (Magnitude(y) < 2 * Half /\ y - x \in Turns)
  <2>1. CASE y \in -Half..Half - 1
    BY <2>1
  <2>2. CASE line[i + 1] \in Inner /\ y - line[i][1] \in Turns
    <3>1. x - line[i][1] \in Turns
      BY <1>1, <1>3 DEF Same
    <3>2. (y - line[i][1]) - (x - line[i][1]) \in Turns
      BY <2>2, <3>1, TurnsAdd
    <3>3. (y - line[i][1]) - (x - line[i][1]) = y - x
      BY <1>5
    <3>4. Magnitude(y) < 2 * Half
      BY <2>2 DEF Inner
    <3> QED
      BY <3>2, <3>3, <3>4
  <2> QED
    BY <1>4, <2>1, <2>2 DEF Onward
<1> HIDE DEF x, y, z
<1>8. Magnitude(z - x) <= Half
  BY <1>5, <1>6, <1>7, StepRunsOn DEF move
<1> QED
  BY <1>8 DEF x, z

\* Lines one after the other that are chained, and end to beginning too, are.
LEMMA FlattenChained ==
  ASSUME NEW S, NEW R, NEW seqs \in Seq(Seq(S)),
         \A i \in 1..Len(seqs) :
           /\ seqs[i] # <<>> /\ Chained(seqs[i], R)
           /\ i # 1 => <<seqs[i - 1][Len(seqs[i - 1])], seqs[i][1]>> \in R
  PROVE  Chained(FlattenSeq(seqs), R)
<1> DEFINE n == Len(seqs)
<1>1. n \in Nat /\ \A i \in 1..n : seqs[i] \in Seq(S)
  OBVIOUS
<1>2. CASE n = 0
  <2>1. FlattenSeq(seqs) = <<>>
    BY <1>2, FlattenIs, Zenon
  <2>2. Len(<<>>) = 0
    BY EmptySeq
  <2> QED
    BY <2>1, <2>2 DEF Chained
<1>3. CASE n # 0
  <2>1. PICK f \in [1..n -> Seq(S)] :
          FlattenSeq(seqs) = f[n] /\ \A i \in 1..n : f[i] = FlattenStep(f, seqs, i)
    BY <1>3, FlattenBy
  <2>2. \A i \in 1..n : /\ seqs[i] # <<>> /\ Chained(seqs[i], R)
                        /\ i # 1 => <<seqs[i - 1][Len(seqs[i - 1])], seqs[i][1]>> \in R
    OBVIOUS
  <2> HIDE DEF n
  <2> DEFINE Q == {i \in 1..n : /\ f[i] # <<>> /\ Chained(f[i], R)
                                /\ f[i][Len(f[i])] = seqs[i][Len(seqs[i])]}
  <2>3. ASSUME NEW i \in 1..n, i = 1 \/ i - 1 \in Q
        PROVE  i \in Q
    <3>1. f[i] = FlattenStep(f, seqs, i)
      BY <2>1
    <3>2. CASE i = 1
      BY <2>2, <3>1, <3>2 DEF FlattenStep
    <3>3. CASE i # 1
      <4> DEFINE p == f[i - 1]
                 q == seqs[i]
                 r == p \o q
      <4>1. p \in Seq(S) /\ q \in Seq(S)
        BY <1>1, <2>1, <2>3, <3>3
      <4>2. f[i] = r
        BY <3>1, <3>3 DEF FlattenStep
      <4>3. /\ p # <<>> /\ Chained(p, R) /\ q # <<>> /\ Chained(q, R)
            /\ <<p[Len(p)], q[1]>> \in R
        BY <2>2, <2>3, <3>3
      <4> HIDE DEF p, q, Q
      <4>4. /\ r \in Seq(S) /\ Len(r) = Len(p) + Len(q)
            /\ \A k \in 1..Len(p) + Len(q) : r[k] = IF k <= Len(p) THEN p[k] ELSE q[k - Len(p)]
        BY <4>1, ConcatProperties
      <4>5. Len(p) \in Nat \ {0} /\ Len(q) \in Nat \ {0}
        BY <4>1, <4>3
      <4> HIDE DEF r
      <4>6. ASSUME NEW k \in 1..Len(r) - 1
            PROVE  <<r[k], r[k + 1]>> \in R
        <5>1. k \in 1..Len(p) + Len(q) /\ k + 1 \in 1..Len(p) + Len(q)
          BY <4>4, <4>5
        <5>2. CASE k < Len(p)
          <6>1. r[k] = p[k] /\ r[k + 1] = p[k + 1] /\ k \in 1..Len(p) - 1
            BY <4>4, <4>5, <5>1, <5>2
          <6> QED
            BY <4>3, <6>1 DEF Chained
        <5>3. CASE k = Len(p)
          <6>1. r[k] = p[Len(p)] /\ r[k + 1] = q[1]
            <7>1. (k + 1) - Len(p) = 1 /\ ~(k + 1 <= Len(p)) /\ k <= Len(p)
              BY <4>5, <5>3
            <7> QED
              BY <4>4, <5>1, <5>3, <7>1
          <6> QED
            BY <4>3, <6>1
        <5>4. CASE k > Len(p)
          <6> DEFINE j == k - Len(p)
          <6>1. /\ j \in 1..Len(q) - 1 /\ (k + 1) - Len(p) = j + 1
                /\ ~(k <= Len(p)) /\ ~(k + 1 <= Len(p))
            BY <4>4, <4>5, <5>4
          <6>2. r[k] = q[j] /\ r[k + 1] = q[j + 1]
            BY <4>4, <5>1, <6>1
          <6> HIDE DEF j
          <6> QED
            BY <4>3, <6>1, <6>2 DEF Chained
        <5> QED
          BY <4>5, <5>2, <5>3, <5>4
      <4>7. r # <<>> /\ r[Len(r)] = q[Len(q)]
        <5>1. /\ Len(r) \in 1..Len(p) + Len(q) /\ ~(Len(r) <= Len(p))
              /\ Len(r) - Len(p) = Len(q)
          BY <4>4, <4>5
        <5> QED
          BY <4>4, <5>1
      <4>8. Chained(r, R)
        BY <4>6 DEF Chained
      <4> QED
        BY <4>2, <4>7, <4>8 DEF Q, q
    <3> QED
      BY <3>2, <3>3
  <2> HIDE DEF Q
  <2>4. \A i \in 1..n : i \in Q
    BY <1>1, <2>3, IndexInduction
  <2>5. n \in Q
    BY <1>1, <1>3, <2>4
  <2> QED
    BY <2>1, <2>5 DEF Q
<1> QED
  BY <1>2, <1>3

\* The points of a great circle are projected into the one turn.
LEMMA CircleInTurn ==
  ASSUME NEW a \in Point, NEW b \in Point
  PROVE  \A p \in ToSet(GreatCircle(a, b)) : p[1] \in -Half..Half - 1
<1> DEFINE dx == Shorter(a[1], b[1])
           dy == b[2] - a[2]
           n == Samples(dx, dy)
<1>1. /\ n \in Nat \ {0} /\ dx \in Int /\ a[1] \in Int
      /\ ToSet(GreatCircle(a, b)) = {OnCircle(a, dx, dy, n, k) : k \in 0..n}
  BY CirclePoints DEF Point
<1> HIDE DEF dx, dy, n
<1>2. ASSUME NEW k \in 0..n
      PROVE  OnCircle(a, dx, dy, n, k)[1] \in -Half..Half - 1
  <2>1. (k * dx) \div n \in Int
    BY <1>1, Part
  <2>2. a[1] + (k * dx) \div n \in Int
    BY <1>1, <2>1
  <2>3. OnCircle(a, dx, dy, n, k)[1] = wrapLon(a[1] + (k * dx) \div n)
    BY DEF OnCircle
  <2> QED
    BY <2>2, <2>3, WrapRange
<1> QED
  BY <1>1, <1>2

\* A leg goes on from its second point, whatever place like its first it comes
\* from, and is chained from there.
LEMMA LegOnward ==
  ASSUME NEW pts \in Seq(Inner), NEW i \in 1..Len(pts) - 1
  PROVE  /\ \A k \in 2..Len(LegOf(pts, i)) - 1 :
              <<LegOf(pts, i)[k], LegOf(pts, i)[k + 1]>> \in Onward
         /\ \A q \in Point : Same(pts[i], q) => <<q, LegOf(pts, i)[2]>> \in Onward
         /\ <<LegOf(pts, i)[1], LegOf(pts, i)[2]>> \in Onward
<1> DEFINE a == pts[i]
           b == pts[i + 1]
           leg == LegOf(pts, i)
<1>1. a \in Inner /\ b \in Inner /\ a \in Point /\ b \in Point /\ pts \in Seq(Point)
  BY DEF Inner
<1>2. leg = IF haversineKm(a, b) = 0 THEN <<b, b>> ELSE GreatCircle(a, b)
  BY DEF LegOf
<1>3. leg \in Seq(Point) /\ Len(leg) >= 2
  BY <1>1, LegIs DEF Leads
<1>4. CASE haversineKm(a, b) = 0
  <2>1. Len(leg) = 2 /\ leg[1] = b /\ leg[2] = b
    BY <1>2, <1>4
  <2>2. Same(a, b)
    BY <1>1, <1>4, DistanceIs
  <2>3. ASSUME NEW q \in Point, Same(a, q)
        PROVE  <<q, b>> \in Onward
    <3>1. b[1] - q[1] \in Turns
      <4>1. (b[1] - a[1]) - (q[1] - a[1]) \in Turns
        BY <2>2, <2>3, TurnsAdd DEF Same
      <4>2. (b[1] - a[1]) - (q[1] - a[1]) = b[1] - q[1]
        BY <1>1 DEF Point
      <4> QED
        BY <4>1, <4>2
    <3> HIDE DEF b
    <3> QED
      BY <1>1, <3>1 DEF Onward
  <2>4. <<b, b>> \in Onward
    BY <1>1, <2>2, <2>3
  <2> HIDE DEF a, b, leg
  <2>5. \A k \in 2..Len(leg) - 1 : <<leg[k], leg[k + 1]>> \in Onward
    BY <2>1
  <2> QED
    BY <2>1, <2>3, <2>4, <2>5 DEF a, leg
<1>5. CASE haversineKm(a, b) # 0
  <2>1. leg = GreatCircle(a, b)
    BY <1>2, <1>5
  <2> HIDE DEF a, b, leg
  <2>2. \A k \in 1..Len(leg) : leg[k] \in Point /\ leg[k][1] \in -Half..Half - 1
    BY <1>1, <1>3, <2>1, CircleInTurn DEF ToSet
  <2>3. \A q \in Point, k \in 1..Len(leg) : <<q, leg[k]>> \in Onward
    BY <2>2 DEF Onward
  <2>4. \A k \in 2..Len(leg) - 1 : <<leg[k], leg[k + 1]>> \in Onward
    BY <1>3, <2>2, <2>3
  <2> QED
    BY <1>3, <2>2, <2>3, <2>4 DEF leg
<1> QED
  BY <1>4, <1>5

\* A path with its legs filled in has no gap, if it stays within a turn.
LEMMA DensifyRunsOn ==
  ASSUME NEW pts \in Seq(Inner), Len(pts) >= 2, densifyPath(pts) \in Seq(Inner)
  PROVE  RunsOn(densifyPath(pts))
<1> DEFINE n == Len(pts) - 1
           legs == LegsOf(pts)
           line == FlattenSeq(legs)
           leg(i) == LegOf(pts, i)
<1>1. n \in Nat /\ n >= 1 /\ Len(pts) = n + 1 /\ pts \in Seq(Point)
  BY DEF Inner
<1>2. /\ densifyPath(pts) = Unwrapped(line)
      /\ legs \in Seq(Seq(Point)) /\ Len(legs) = n
      /\ \A i \in 1..n : /\ legs[i] \in Seq(Point) /\ legs[i] # <<>>
                         /\ Same(pts[i + 1], legs[i][Len(legs[i])])
  BY <1>1, LegsAre
<1>3. ASSUME NEW i \in 1..n
      PROVE  /\ legs[i] = IF i = 1 THEN leg(i) ELSE Tail(leg(i))
             /\ leg(i) \in Seq(Point) /\ Len(leg(i)) >= 2
             /\ \A k \in 2..Len(leg(i)) - 1 : <<leg(i)[k], leg(i)[k + 1]>> \in Onward
             /\ \A q \in Point : Same(pts[i], q) => <<q, leg(i)[2]>> \in Onward
             /\ <<leg(i)[1], leg(i)[2]>> \in Onward
  <2>1. leg(i) \in Seq(Point) /\ Len(leg(i)) >= 2
    BY <1>1, LegIs DEF Leads
  <2>2. legs[i] = IF i = 1 THEN leg(i) ELSE Tail(leg(i))
    BY DEF LegsOf
  <2> QED
    BY <2>1, <2>2, LegOnward
<1> HIDE DEF legs, leg, n
<1>4. ASSUME NEW i \in 1..n
      PROVE  /\ Chained(legs[i], Onward)
             /\ i # 1 => <<legs[i - 1][Len(legs[i - 1])], legs[i][1]>> \in Onward
  <2> DEFINE w == leg(i)
  <2>1. /\ w \in Seq(Point) /\ Len(w) >= 2 /\ <<w[1], w[2]>> \in Onward
        /\ \A k \in 2..Len(w) - 1 : <<w[k], w[k + 1]>> \in Onward
        /\ \A q \in Point : Same(pts[i], q) => <<q, w[2]>> \in Onward
        /\ legs[i] = IF i = 1 THEN w ELSE Tail(w)
    BY <1>3
  <2> HIDE DEF w
  <2>2. CASE i = 1
    <3>1. \A k \in 1..Len(w) - 1 : <<w[k], w[k + 1]>> \in Onward
      <4> TAKE k \in 1..Len(w) - 1
      <4>1. k = 1 \/ k \in 2..Len(w) - 1
        BY <2>1
      <4>2. 1 + 1 = 2
        OBVIOUS
      <4> QED
        BY <2>1, <4>1, <4>2
    <3> QED
      BY <2>1, <2>2, <3>1 DEF Chained
  <2>3. CASE i # 1
    <3>1. /\ legs[i] = Tail(w) /\ Len(Tail(w)) = Len(w) - 1
          /\ \A k \in 1..Len(w) - 1 : Tail(w)[k] = w[k + 1]
      <4>1. w # <<>>
        BY <2>1
      <4> QED
        BY <2>1, <2>3, <4>1
    <3>2. ASSUME NEW k \in 1..Len(Tail(w)) - 1
          PROVE  <<Tail(w)[k], Tail(w)[k + 1]>> \in Onward
      <4>1. k + 1 \in 2..Len(w) - 1 /\ k \in 1..Len(w) - 1 /\ k + 1 \in 1..Len(w) - 1
        BY <2>1, <3>1
      <4>2. Tail(w)[k] = w[k + 1] /\ Tail(w)[k + 1] = w[(k + 1) + 1]
        BY <3>1, <4>1
      <4> QED
        BY <2>1, <4>1, <4>2
    <3>3. i - 1 \in 1..n /\ (i - 1) + 1 = i
      BY <1>1, <2>3
    <3> DEFINE q == legs[i - 1][Len(legs[i - 1])]
    <3>4. Same(pts[i], q) /\ q \in Point
      <4>1. legs[i - 1] \in Seq(Point) /\ legs[i - 1] # <<>> /\ Same(pts[i], q)
        BY <1>2, <3>3
      <4>2. Len(legs[i - 1]) \in 1..Len(legs[i - 1])
        BY <4>1
      <4> QED
        BY <4>1, <4>2
    <3>5. legs[i][1] = w[2]
      <4>1. 1 \in 1..Len(w) - 1 /\ 1 + 1 = 2
        BY <2>1
      <4> QED
        BY <3>1, <4>1
    <3> HIDE DEF q
    <3>6. <<q, legs[i][1]>> \in Onward
      BY <2>1, <3>4, <3>5
    <3>7. Chained(legs[i], Onward)
      BY <3>1, <3>2 DEF Chained
    <3> QED
      BY <3>6, <3>7 DEF q
  <2> QED
    BY <2>2, <2>3
<1>5. Chained(line, Onward)
  BY <1>2, <1>4, FlattenChained
<1>6. line \in Seq(Point) /\ line # <<>>
  <2>1. 1 \in 1..n /\ n # 0
    BY <1>1
  <2> QED
    BY <1>2, <2>1, FlattenIs
<1> HIDE DEF line
<1> QED
  BY <1>2, <1>5, <1>6, UnwrappedRunsOn

\* Neighbouring parts of a way no longer than their number differ by one at most.
LEMMA PartStep ==
  ASSUME NEW n \in Nat \ {0}, NEW d \in Int, d <= n, d >= -n, NEW k \in 0..n - 1
  PROVE  ((k + 1) * d) \div n - (k * d) \div n \in {-1, 0, 1}
<1> DEFINE p == k * d
           p2 == (k + 1) * d
           q == p \div n
           q2 == p2 \div n
<1>1. p \in Int /\ p2 \in Int /\ p2 = p + d
  OBVIOUS
<1> HIDE DEF p, p2
<1>2. q \in Int /\ q2 \in Int
  BY <1>1
<1>3. p \div n = q /\ p2 \div n = q2
  OBVIOUS
<1> HIDE DEF q, q2
<1>4. q * n <= p /\ p < q * n + n /\ q2 * n <= p2 /\ p2 < q2 * n + n
  BY <1>1, <1>2, <1>3, Divided
<1>5. (q2 - q) * n = q2 * n - q * n /\ q2 * n \in Int /\ q * n \in Int
  BY <1>2
<1> DEFINE s == q2 - q
<1>6. s \in Int /\ s * n \in Int /\ s * n < n + n /\ s * n > -(n + n)
  BY <1>1, <1>2, <1>4, <1>5
<1> HIDE DEF s
<1>7. s >= 2 => s * n >= n + n
  BY <1>6
<1>8. s <= -2 => s * n <= -(n + n)
  BY <1>6
<1>9. s \in {-1, 0, 1}
  BY <1>6, <1>7, <1>8
<1> QED
  BY <1>9 DEF s, q, q2, p, p2

\* The longitude of the point k of n on the way from a, not yet projected.
AlongLon(a, dx, n, k) == a[1] + (k * dx) \div n

\* One step of the unwrapping of a straight line: it follows the way, or, where
\* half a turn is one unit, stays on the map all the same.
LEMMA StepAhead ==
  ASSUME NEW x \in Int, Magnitude(x) < 2 * Half,
         NEW v \in Int, Magnitude(v) < 2 * Half, Half > 1 => v - x \in {-1, 0, 1},
         NEW y \in -Half..Half - 1, y - v \in Turns,
         NEW z, z = y + (IF y - x > Half THEN -2 * Half
                         ELSE IF y - x < -Half THEN 2 * Half ELSE 0)
  PROVE  z \in Int /\ Magnitude(z) < 2 * Half /\ (Half > 1 => z = v)
<1>1. Half \in Nat \ {0}
  BY GeographyAssumption
<1>2. x < 2 * Half /\ x > -(2 * Half) /\ v < 2 * Half /\ v > -(2 * Half)
  BY <1>1 DEF Magnitude
<1>3. y - v < 4 * Half /\ y - v > -(4 * Half)
  BY <1>1, <1>2
<1>4. y - v \in {-(2 * Half), 0, 2 * Half}
  BY <1>3, FewTurns
<1>5. CASE Half > 1
  BY <1>1, <1>2, <1>4, <1>5 DEF Magnitude
<1>6. CASE Half = 1
  BY <1>2, <1>6 DEF Magnitude
<1> QED
  BY <1>1, <1>5, <1>6

\* A straight line between places of the one turn stays within a turn of the
\* middle of the map, and has no gap.
LEMMA DirectStays ==
  ASSUME NEW a \in Point, NEW b \in Point, {a[1], b[1]} \subseteq -Half..Half - 1
  PROVE  densifyGreatCircle(a, b) \in Seq(Inner) /\ RunsOn(densifyGreatCircle(a, b))
<1>0. /\ Half \in Nat \ {0} /\ a[1] \in Int /\ a[2] \in Int /\ b[1] \in Int /\ b[2] \in Int
      /\ a[1] >= -Half /\ a[1] < Half /\ b[1] >= -Half /\ b[1] < Half
  BY GeographyAssumption DEF Point
<1>1. a \in Inner /\ b \in Inner
  BY <1>0 DEF Inner, Magnitude
<1>2. CASE haversineKm(a, b) = 0
  <2> DEFINE line == <<a, b>>
  <2>1. line \in Seq(Inner) /\ Len(line) = 2 /\ line[1] = a /\ line[2] = b
    BY <1>1
  <2>2. densifyGreatCircle(a, b) = line
    BY <1>2 DEF densifyGreatCircle
  <2> HIDE DEF line
  <2>3. b[1] - a[1] \in Turns
    BY <1>2, DistanceIs DEF Same
  <2>4. a[1] = b[1]
    BY <2>3, SameLon
  <2>5. RunsOn(line)
    <3>1. \A i \in 1..Len(line) - 1 : i = 1 /\ i + 1 = 2
      BY <2>1
    <3>2. Magnitude(line[1 + 1][1] - line[1][1]) <= Half
      BY <1>0, <2>1, <2>4 DEF Magnitude
    <3> QED
      BY <3>1, <3>2 DEF RunsOn
  <2> QED
    BY <2>1, <2>2, <2>5
<1>3. CASE haversineKm(a, b) # 0
  <2> DEFINE dx == Shorter(a[1], b[1])
             dy == b[2] - a[2]
             n == Samples(dx, dy)
             line == GreatCircle(a, b)
             u == Unwrapped(line)
             at(k) == AlongLon(a, dx, n, k)
  <2>1. dx \in Int /\ dx <= Half /\ dx > -Half
    BY <1>0, ShorterIs, ShorterRange
  <2>2. n \in Nat \ {0} /\ dx <= n /\ dx >= -n
    <3>1. dy \in Int
      BY <1>0
    <3> HIDE DEF dx, dy
    <3>2. Magnitude(dx) \in Nat /\ Magnitude(dy) \in Nat
      BY <2>1, <3>1, MagnitudeIs
    <3>3. n \in Nat \ {0} /\ n >= Magnitude(dx)
      BY <3>2, MaxOfThree DEF Samples
    <3> QED
      BY <2>1, <3>3 DEF Magnitude
  <2>3. line = [i \in 1..n + 1 |-> OnCircle(a, dx, dy, n, i - 1)]
    BY Zenon DEF GreatCircle, OnCircle, Samples
  <2>4. line \in Seq(Point) /\ line # <<>>
    BY GreatCircleIs
  <2>5. densifyGreatCircle(a, b) = u
    BY <1>3 DEF densifyGreatCircle
  <2>6. Len(line) = n + 1
    BY <2>2, <2>3
  <2> HIDE DEF dx, dy, n
  <2>7. \A i \in 1..n + 1 : line[i][1] = wrapLon(at(i - 1))
    BY <2>3 DEF OnCircle, AlongLon
  <2> HIDE DEF line
  <2>8. /\ u \in Seq(Point) /\ Len(u) = n + 1
        /\ \A i \in 1..n + 1 : u[i] = UnwrapStep(u, line, i)
    BY <2>4, <2>6, UnwrappedIs
  <2> HIDE DEF u
  <2>9. ASSUME NEW k \in 0..n
        PROVE  /\ at(k) \in Int /\ Magnitude(at(k)) < 2 * Half
               /\ wrapLon(at(k)) \in -Half..Half - 1 /\ wrapLon(at(k)) - at(k) \in Turns
    <3> DEFINE q == (k * dx) \div n
    <3>1. q \in Int /\ (dx >= 0 => q \in 0..dx) /\ (dx <= 0 => q \in dx..0)
      BY <2>1, <2>2, Part
    <3>2. at(k) = a[1] + q
      BY DEF AlongLon
    <3> HIDE DEF q, at
    <3>3. at(k) \in Int /\ Magnitude(at(k)) < 2 * Half
      BY <1>0, <2>1, <3>1, <3>2 DEF Magnitude
    <3> QED
      BY <3>3, WrapLonIs, WrapRange
  <2>10. ASSUME NEW k \in 0..n - 1
         PROVE  at(k + 1) - at(k) \in {-1, 0, 1}
    <3>1. ((k + 1) * dx) \div n - (k * dx) \div n \in {-1, 0, 1}
      BY <2>1, <2>2, PartStep
    <3>2. (k * dx) \div n \in Int /\ ((k + 1) * dx) \div n \in Int
      <4>1. k \in 0..n /\ k + 1 \in 0..n
        BY <2>2
      <4> QED
        BY <2>1, <2>2, <4>1, Part
    <3>3. at(k + 1) - at(k) = ((k + 1) * dx) \div n - (k * dx) \div n
      <4> DEFINE q == (k * dx) \div n
                 q2 == ((k + 1) * dx) \div n
      <4>1. at(k) = a[1] + q /\ at(k + 1) = a[1] + q2
        BY DEF AlongLon
      <4> HIDE DEF q, q2, at
      <4>2. q \in Int /\ q2 \in Int
        BY <3>2 DEF q, q2
      <4>3. at(k + 1) - at(k) = q2 - q
        BY <1>0, <4>1, <4>2
      <4> QED
        BY <4>3 DEF q, q2, at
    <3> QED
      BY <3>1, <3>3
  <2>11. at(0) = a[1]
    <3>1. 0 * dx = 0 /\ 0 \div n = 0
      <4>1. 0 \div n = 0 <=> 0 * n <= 0 /\ 0 < 0 * n + n
        BY <2>2, Divided
      <4>2. 0 * n = 0 /\ 0 * dx = 0
        BY <2>1, <2>2
      <4> QED
        BY <2>2, <4>1, <4>2
    <3> QED
      BY <1>0, <3>1 DEF AlongLon
  <2> HIDE DEF at
  <2> DEFINE Q == {i \in 1..n + 1 : /\ u[i] \in Inner
                                    /\ Half > 1 => u[i][1] = at(i - 1)}
  <2>12. ASSUME NEW i \in 1..n + 1, i = 1 \/ i - 1 \in Q
         PROVE  i \in Q
    <3> DEFINE z == u[i][1]
    <3>1. u[i] \in Point /\ z \in Int /\ u[i] = UnwrapStep(u, line, i)
      BY <2>2, <2>8 DEF Point
    <3>2. i - 1 \in 0..n /\ line[i][1] = wrapLon(at(i - 1))
      BY <2>2, <2>7
    <3>3. CASE i = 1
      <4>1. u[i] = line[1] /\ line[1][1] = wrapLon(at(0))
        <5>1. i - 1 = 0
          BY <3>3
        <5> QED
          BY <3>1, <3>2, <3>3, <5>1 DEF UnwrapStep
      <4>2. wrapLon(a[1]) = a[1]
        BY <1>0, WrapRange
      <4>3. z = a[1] /\ at(i - 1) = a[1]
        BY <2>11, <3>3, <4>1, <4>2
      <4>4. Magnitude(z) < 2 * Half
        BY <1>0, <4>3 DEF Magnitude
      <4> QED
        BY <3>1, <4>3, <4>4 DEF Inner
    <3>4. CASE i # 1
      <4> DEFINE x == u[i - 1][1]
                 y == line[i][1]
                 v == at(i - 1)
      <4>1. i - 1 \in Q /\ i - 1 \in 1..n
        BY <2>2, <2>12, <3>4
      <4>2. x \in Int /\ Magnitude(x) < 2 * Half /\ (Half > 1 => x = at((i - 1) - 1))
        BY <4>1 DEF Inner, Point
      <4>3. /\ v \in Int /\ Magnitude(v) < 2 * Half
            /\ y \in -Half..Half - 1 /\ y - v \in Turns
        BY <2>9, <3>2
      <4>4. Half > 1 => v - x \in {-1, 0, 1}
        <5>1. (i - 1) - 1 \in 0..n - 1 /\ ((i - 1) - 1) + 1 = i - 1
          BY <2>2, <4>1
        <5>2. at(((i - 1) - 1) + 1) - at((i - 1) - 1) \in {-1, 0, 1}
          BY <2>10, <5>1
        <5> QED
          BY <4>2, <5>1, <5>2
      <4> DEFINE move == IF y - x > Half THEN -2 * Half
                         ELSE IF y - x < -Half THEN 2 * Half ELSE 0
      <4>5. z = y + move
        <5>1. u[i] = <<y + move, line[i][2]>>
          BY <3>1, <3>4, Zenon DEF UnwrapStep
        <5> HIDE DEF move
        <5> QED
          BY <5>1
      <4> HIDE DEF x, y, v, z, Q
      <4>6. Magnitude(z) < 2 * Half /\ (Half > 1 => z = v)
        BY <4>2, <4>3, <4>4, <4>5, StepAhead DEF move
      <4> QED
        BY <3>1, <4>6 DEF Q, Inner, z, v
    <3> QED
      BY <3>3, <3>4
  <2> HIDE DEF Q
  <2>13. \A i \in 1..n + 1 : i \in Q
    <3>1. n + 1 \in Nat
      BY <2>2
    <3> QED
      BY <2>12, <3>1, IndexInduction
  <2>14. u \in Seq(Inner)
    <3>1. \A i \in 1..Len(u) : u[i] \in Inner
      BY <2>8, <2>13 DEF Q
    <3> QED
      BY <2>8, <3>1
  <2>15. Chained(line, Onward)
    <3>1. \A i \in 1..Len(line) - 1 :
            line[i] \in Point /\ line[i + 1] \in Point /\ line[i + 1][1] \in -Half..Half - 1
      <4> TAKE i \in 1..Len(line) - 1
      <4>1. i \in 1..n + 1 /\ i + 1 \in 1..n + 1 /\ (i + 1) - 1 \in 0..n
        BY <2>2, <2>6
      <4>2. line[i + 1][1] = wrapLon(at((i + 1) - 1))
        BY <2>7, <4>1
      <4> QED
        BY <2>4, <2>6, <2>9, <4>1, <4>2
    <3> QED
      BY <3>1 DEF Chained, Onward
  <2>16. RunsOn(u)
    BY <2>4, <2>14, <2>15, UnwrappedRunsOn DEF u
  <2> QED
    BY <2>5, <2>14, <2>16
<1> QED
  BY <1>2, <1>3

---------------------------------------------------------------------
(***************************************************************************)
(* The lengths of lines.                                                   *)
(***************************************************************************)

\* The length of a line up to its k-th point.
LengthTo(s, k) ==
  SumFunctionOnSet([i \in 1..k - 1 |-> haversineKm(s[i], s[i + 1])], 1..k - 1)

\* It grows step by step, to the length of the line.
LEMMA LengthBy ==
  ASSUME NEW s \in Seq(Point)
  PROVE  /\ LengthTo(s, 0) = 0 /\ LengthTo(s, 1) = 0
         /\ \A k \in 1..Len(s) - 1 :
              LengthTo(s, k + 1) = LengthTo(s, k) + haversineKm(s[k], s[k + 1])
         /\ \A k \in 0..Len(s) : LengthTo(s, k) \in Nat
         /\ pathLengthKm(s) = LengthTo(s, Len(s))
<1>1. Len(s) \in Nat /\ \A i \in 1..Len(s) : s[i] \in Point
  OBVIOUS
<1>0. \A i \in 1..Len(s) - 1 : haversineKm(s[i], s[i + 1]) \in Nat
  <2> TAKE i \in 1..Len(s) - 1
  <2>1. i \in 1..Len(s) /\ i + 1 \in 1..Len(s)
    BY <1>1
  <2>2. s[i] \in Point /\ s[i + 1] \in Point
    BY <1>1, <2>1
  <2> QED
    BY <2>2, DistanceIs
<1>2. LengthTo(s, 0) = 0 /\ LengthTo(s, 1) = 0
  <2>1. 1..0 - 1 = {} /\ 1..1 - 1 = {}
    OBVIOUS
  <2> QED
    BY <2>1, SumEmpty DEF LengthTo
<1>3. ASSUME NEW k \in 0..Len(s)
      PROVE  LengthTo(s, k) \in Nat
  <2> DEFINE f == [i \in 1..k - 1 |-> haversineKm(s[i], s[i + 1])]
  <2>1. \A i \in 1..k - 1 : f[i] \in Nat
    <3>1. 1..k - 1 \subseteq 1..Len(s) - 1
      BY <1>1
    <3> QED
      BY <1>0, <3>1
  <2>2. IsFiniteSet(1..k - 1)
    BY FS_Interval
  <2> HIDE DEF f
  <2>3. SumFunctionOnSet(f, 1..k - 1) \in Nat
    BY <2>1, <2>2, SumNat
  <2> QED
    BY <2>3 DEF LengthTo, f
<1>4. ASSUME NEW k \in 1..Len(s) - 1
      PROVE  LengthTo(s, k + 1) = LengthTo(s, k) + haversineKm(s[k], s[k + 1])
  <2> DEFINE f == [i \in 1..k - 1 |-> haversineKm(s[i], s[i + 1])]
             g == [i \in 1..(k + 1) - 1 |-> haversineKm(s[i], s[i + 1])]
             S == 1..k - 1
  <2>0. k \in Nat /\ k >= 1 /\ (k + 1) - 1 = k /\ k <= Len(s) - 1
    BY <1>1
  <2>1. /\ S \cup {k} = 1..(k + 1) - 1 /\ k \notin S /\ IsFiniteSet(S)
        /\ \A i \in S : g[i] = f[i]
    <3>1. S \cup {k} = 1..(k + 1) - 1 /\ k \notin S
      BY <2>0
    <3>2. IsFiniteSet(S)
      BY <2>0, FS_Interval
    <3>3. S \subseteq 1..(k + 1) - 1
      BY <3>1
    <3>4. \A i \in S : g[i] = f[i]
      BY <3>3
    <3> QED
      BY <3>1, <3>2, <3>4
  <2>2. \A i \in S \cup {k} : g[i] \in Nat
    <3>1. 1..(k + 1) - 1 \subseteq 1..Len(s) - 1
      BY <1>1, <2>0
    <3> QED
      BY <1>0, <2>1, <3>1
  <2>3. g[k] = haversineKm(s[k], s[k + 1])
    OBVIOUS
  <2> HIDE DEF f, g
  <2>4. SumFunctionOnSet(g, S \cup {k}) = SumFunctionOnSet(g, S) + g[k]
    <3> HIDE DEF S
    <3> QED
      BY <2>1, <2>2, SumAdd
  <2>5. SumFunctionOnSet(g, S) = SumFunctionOnSet(f, S)
    <3> HIDE DEF S
    <3> QED
      BY <2>1, SumSame
  <2> QED
    BY <2>1, <2>3, <2>4, <2>5 DEF LengthTo, f, g
<1>5. pathLengthKm(s) = LengthTo(s, Len(s))
  BY DEF pathLengthKm, SumFunction, LengthTo
<1> QED
  BY <1>2, <1>3, <1>4, <1>5

\* A part of a line is as long as a line with the same steps.
LEMMA LengthWithin ==
  ASSUME NEW s \in Seq(Point), NEW u \in Seq(Point), NEW m \in Nat, m + Len(s) <= Len(u),
         \A k \in 1..Len(s) - 1 :
           haversineKm(u[m + k], u[m + k + 1]) = haversineKm(s[k], s[k + 1])
  PROVE  \A k \in 1..Len(s) : LengthTo(u, m + k) = LengthTo(u, m + 1) + LengthTo(s, k)
<1> DEFINE n == Len(s)
           Q == {k \in 1..n : LengthTo(u, m + k) = LengthTo(u, m + 1) + LengthTo(s, k)}
<1>1. n \in Nat /\ Len(u) \in Nat
  OBVIOUS
<1>2. ASSUME NEW k \in 1..n, k = 1 \/ k - 1 \in Q
      PROVE  k \in Q
  <2>1. LengthTo(u, m + 1) \in Nat
    BY <1>1, LengthBy
  <2>2. CASE k = 1
    BY <2>1, <2>2, LengthBy
  <2>3. CASE k # 1
    <3>0. k - 1 \in 1..n - 1 /\ m + (k - 1) \in 1..Len(u) - 1 /\ (k - 1) + 1 = k
          /\ (m + (k - 1)) + 1 = m + k
      BY <1>1, <2>3
    <3>1. LengthTo(s, k) = LengthTo(s, k - 1) + haversineKm(s[k - 1], s[k])
      BY <3>0, LengthBy
    <3>2. LengthTo(u, m + k) = LengthTo(u, m + (k - 1)) + haversineKm(u[m + (k - 1)], u[m + k])
      BY <3>0, LengthBy
    <3>3. haversineKm(u[m + (k - 1)], u[m + k]) = haversineKm(s[k - 1], s[k])
      BY <3>0
    <3>4. LengthTo(u, m + (k - 1)) = LengthTo(u, m + 1) + LengthTo(s, k - 1)
      BY <1>2, <2>3
    <3>5. LengthTo(s, k - 1) \in Nat /\ s[k - 1] \in Point /\ s[k] \in Point
      BY <3>0, LengthBy
    <3>6. haversineKm(s[k - 1], s[k]) \in Nat
      BY <3>5, DistanceIs
    <3> QED
      BY <2>1, <3>1, <3>2, <3>3, <3>4, <3>5, <3>6
  <2> QED
    BY <2>2, <2>3
<1> HIDE DEF Q
<1>3. \A k \in 1..n : k \in Q
  BY <1>1, <1>2, IndexInduction
<1> QED
  BY <1>3 DEF Q

\* Lines with the same steps are of the same length.
LEMMA LengthSame ==
  ASSUME NEW s \in Seq(Point), NEW u \in Seq(Point), Len(u) = Len(s), s # <<>>,
         \A k \in 1..Len(s) - 1 :
           haversineKm(u[k], u[k + 1]) = haversineKm(s[k], s[k + 1])
  PROVE  pathLengthKm(u) = pathLengthKm(s)
<1>1. Len(s) \in Nat \ {0}
  OBVIOUS
<1>2. \A k \in 1..Len(s) : LengthTo(u, 0 + k) = LengthTo(u, 0 + 1) + LengthTo(s, k)
  <2>1. \A k \in 1..Len(s) - 1 :
          haversineKm(u[0 + k], u[0 + k + 1]) = haversineKm(s[k], s[k + 1])
    <3> TAKE k \in 1..Len(s) - 1
    <3>1. 0 + k = k /\ 0 + k + 1 = k + 1
      BY <1>1
    <3> QED
      BY <3>1
  <2>2. 0 \in Nat /\ 0 + Len(s) <= Len(u)
    BY <1>1
  <2> QED
    BY <2>1, <2>2, LengthWithin
<1>3. LengthTo(u, 0 + Len(s)) = LengthTo(u, 0 + 1) + LengthTo(s, Len(s))
  BY <1>1, <1>2
<1>4. LengthTo(u, 1) = 0 /\ LengthTo(s, Len(s)) \in Nat
  BY <1>1, LengthBy
<1> QED
  BY <1>1, <1>3, <1>4, LengthBy

\* The length of two lines, one after the other.
LEMMA LengthJoined ==
  ASSUME NEW s \in Seq(Point), NEW t \in Seq(Point), s # <<>>, t # <<>>
  PROVE  pathLengthKm(s \o t) =
           pathLengthKm(s) + haversineKm(s[Len(s)], t[1]) + pathLengthKm(t)
<1> DEFINE u == s \o t
           m == Len(s)
<1>1. m \in Nat \ {0} /\ Len(t) \in Nat \ {0}
  OBVIOUS
<1>2. /\ u \in Seq(Point) /\ Len(u) = m + Len(t)
      /\ \A k \in 1..m + Len(t) : u[k] = IF k <= m THEN s[k] ELSE t[k - m]
  BY ConcatProperties
<1> HIDE DEF u, m
<1>3. /\ \A k \in 1..m : u[k] = s[k]
      /\ \A k \in 1..Len(t) : u[m + k] = t[k]
  <2>1. \A k \in 1..m : k \in 1..m + Len(t) /\ k <= m
    BY <1>1
  <2>2. \A k \in 1..Len(t) : m + k \in 1..m + Len(t) /\ ~(m + k <= m) /\ (m + k) - m = k
    BY <1>1
  <2> QED
    BY <1>2, <2>1, <2>2
<1>4. LengthTo(u, m) = LengthTo(s, m)
  <2>1. \A k \in 1..Len(s) - 1 :
          haversineKm(u[0 + k], u[0 + k + 1]) = haversineKm(s[k], s[k + 1])
    <3> TAKE k \in 1..Len(s) - 1
    <3>1. k \in 1..m /\ k + 1 \in 1..m /\ 0 + k = k /\ 0 + k + 1 = k + 1
      BY <1>1 DEF m
    <3> QED
      BY <1>3, <3>1
  <2>2. 0 + Len(s) <= Len(u)
    BY <1>1, <1>2 DEF m
  <2>3. \A k \in 1..Len(s) : LengthTo(u, 0 + k) = LengthTo(u, 0 + 1) + LengthTo(s, k)
    BY <1>2, <2>1, <2>2, LengthWithin
  <2>4. LengthTo(u, 0 + m) = LengthTo(u, 0 + 1) + LengthTo(s, m)
    BY <1>1, <2>3 DEF m
  <2>5. LengthTo(u, 1) = 0 /\ LengthTo(s, m) \in Nat
    BY <1>1, <1>2, LengthBy DEF m
  <2> QED
    BY <1>1, <2>4, <2>5
<1>5. LengthTo(u, m + 1) = LengthTo(s, m) + haversineKm(s[m], t[1])
  <2>1. m \in 1..Len(u) - 1 /\ u[m] = s[m] /\ u[m + 1] = t[1]
    BY <1>1, <1>2, <1>3
  <2>2. LengthTo(u, m + 1) = LengthTo(u, m) + haversineKm(u[m], u[m + 1])
    BY <1>2, <2>1, LengthBy
  <2> QED
    BY <1>4, <2>1, <2>2
<1>6. LengthTo(u, m + Len(t)) = LengthTo(u, m + 1) + LengthTo(t, Len(t))
  <2>1. \A k \in 1..Len(t) - 1 :
          haversineKm(u[m + k], u[m + k + 1]) = haversineKm(t[k], t[k + 1])
    <3> TAKE k \in 1..Len(t) - 1
    <3>1. k \in 1..Len(t) /\ k + 1 \in 1..Len(t) /\ m + k + 1 = m + (k + 1)
      BY <1>1
    <3> QED
      BY <1>3, <3>1
  <2>2. m \in Nat /\ m + Len(t) <= Len(u)
    BY <1>1, <1>2
  <2>3. \A k \in 1..Len(t) : LengthTo(u, m + k) = LengthTo(u, m + 1) + LengthTo(t, k)
    BY <1>2, <2>1, <2>2, LengthWithin
  <2> QED
    BY <1>1, <2>3
<1>7. /\ pathLengthKm(u) = LengthTo(u, Len(u)) /\ pathLengthKm(s) = LengthTo(s, m)
      /\ pathLengthKm(t) = LengthTo(t, Len(t))
  BY <1>2, LengthBy DEF m
<1> QED
  BY <1>2, <1>5, <1>6, <1>7 DEF u, m

\* A line of one point has no length.
LEMMA LengthOne ==
  ASSUME NEW p \in Point
  PROVE  pathLengthKm(<<p>>) = 0 /\ <<p>> \in Seq(Point)
<1>1. <<p>> \in Seq(Point) /\ Len(<<p>>) = 1
  OBVIOUS
<1> DEFINE s == <<p>>
<1> HIDE DEF s
<1>2. s \in Seq(Point) => LengthTo(s, 1) = 0 /\ pathLengthKm(s) = LengthTo(s, Len(s))
  BY LengthBy
<1> QED
  BY <1>1, <1>2 DEF s

\* A line without its first point, and one without its last.
LEMMA LengthTail ==
  ASSUME NEW s \in Seq(Point), Len(s) >= 2
  PROVE  /\ Tail(s) \in Seq(Point) /\ Tail(s) # <<>>
         /\ Tail(s)[1] = s[2] /\ Tail(s)[Len(Tail(s))] = s[Len(s)]
         /\ pathLengthKm(s) = haversineKm(s[1], s[2]) + pathLengthKm(Tail(s))
<1>1. s # <<>> /\ s[1] \in Point /\ Len(s) \in Nat
  OBVIOUS
<1>2. Tail(s) \in Seq(Point) /\ Len(Tail(s)) = Len(s) - 1
      /\ \A k \in 1..Len(s) - 1 : Tail(s)[k] = s[k + 1]
  BY <1>1
<1> DEFINE t == Tail(s)
           h == <<s[1]>>
           m == Len(s)
<1>3. m \in Nat /\ m - 1 \in 1..m - 1 /\ 1 \in 1..m - 1 /\ (m - 1) + 1 = m /\ 1 + 1 = 2
  BY <1>1
<1>4. t[1] = s[2] /\ t[m - 1] = s[m]
  BY <1>2, <1>3
<1> HIDE DEF t, m
<1>5. t \in Seq(Point) /\ Len(t) = m - 1 /\ t # <<>>
  <2>1. t \in Seq(Point) /\ Len(t) = m - 1
    BY <1>2 DEF t, m
  <2>2. m - 1 # 0
    BY <1>3
  <2> QED
    BY <2>1, <2>2
<1>6. h \in Seq(Point) /\ h # <<>> /\ Len(h) = 1 /\ h[1] = s[1] /\ pathLengthKm(h) = 0
  BY <1>1, LengthOne
<1>7. s = h \o t
  <2>1. s = <<Head(s)>> \o Tail(s)
    BY <1>1
  <2>2. Head(s) = s[1]
    BY <1>1
  <2> QED
    BY <2>1, <2>2 DEF t
<1> HIDE DEF h
<1>8. pathLengthKm(h \o t) = pathLengthKm(h) + haversineKm(h[Len(h)], t[1]) + pathLengthKm(t)
  BY <1>5, <1>6, LengthJoined
<1>9. haversineKm(s[1], s[2]) \in Nat /\ pathLengthKm(t) \in Nat
  <2>1. 2 \in 1..m /\ 1 \in 1..m /\ Len(t) \in 0..Len(t)
    BY <1>3, <1>5
  <2>2. s[1] \in Point /\ s[2] \in Point
    BY <2>1 DEF m
  <2>3. haversineKm(s[1], s[2]) \in Nat
    BY <2>2, DistanceIs
  <2>4. LengthTo(t, Len(t)) \in Nat /\ pathLengthKm(t) = LengthTo(t, Len(t))
    BY <1>5, <2>1, LengthBy
  <2> QED
    BY <2>3, <2>4
<1>10. pathLengthKm(s) = haversineKm(s[1], s[2]) + pathLengthKm(t)
  BY <1>4, <1>6, <1>7, <1>8, <1>9
<1> QED
  BY <1>4, <1>5, <1>10 DEF t, m

LEMMA LengthFront ==
  ASSUME NEW s \in Seq(Point), Len(s) >= 2
  PROVE  /\ Front(s) \in Seq(Point) /\ Front(s) # <<>> /\ Front(s)[1] = s[1]
         /\ pathLengthKm(s) =
              pathLengthKm(Front(s)) + haversineKm(Front(s)[Len(Front(s))], s[Len(s)])
<1> DEFINE m == Len(s)
           f == Front(s)
<1>1. m \in Nat /\ m >= 2 /\ \A k \in 1..m : s[k] \in Point
  OBVIOUS
<1>2. f = [k \in 1..m - 1 |-> s[k]]
  <2>1. Front(s) = SubSeq(s, 1, Len(s) - 1)
    BY DEF Front
  <2> QED
    BY <2>1
<1> HIDE DEF f, m
<1>3. f \in Seq(Point) /\ Len(f) = m - 1 /\ f # <<>>
  <2>1. f \in [1..m - 1 -> Point] /\ m - 1 \in Nat
    BY <1>1, <1>2
  <2>2. f \in Seq(Point) /\ Len(f) = m - 1
    BY <2>1, <1>2
  <2> QED
    BY <1>1, <2>2
<1>4. f[1] = s[1] /\ f[m - 1] = s[m - 1] /\ s[m] \in Point
  BY <1>1, <1>2
<1> DEFINE e == <<s[m]>>
<1>5. e \in Seq(Point) /\ e # <<>> /\ e[1] = s[m] /\ Len(e) = 1 /\ pathLengthKm(e) = 0
  BY <1>4, LengthOne
<1>6. s = f \o e
  <2> HIDE DEF e
  <2>0. /\ f \o e \in Seq(Point) /\ Len(f \o e) = Len(f) + Len(e)
        /\ \A k \in 1..Len(f) + Len(e) : (f \o e)[k] = IF k <= Len(f) THEN f[k] ELSE e[k - Len(f)]
    BY <1>3, <1>5, ConcatProperties
  <2>1. /\ f \o e \in Seq(Point) /\ Len(f \o e) = (m - 1) + 1
        /\ \A k \in 1..(m - 1) + 1 : (f \o e)[k] = IF k <= m - 1 THEN f[k] ELSE e[k - (m - 1)]
    <3>1. Len(f) = m - 1 /\ Len(e) = 1
      BY <1>3, <1>5
    <3> QED
      BY <2>0, <3>1, Zenon
  <2>2. \A k \in 1..m : (f \o e)[k] = s[k]
    <3> TAKE k \in 1..m
    <3>1. k \in 1..(m - 1) + 1
      BY <1>1
    <3>2. CASE k <= m - 1
      <4>1. k \in 1..m - 1
        BY <1>1, <3>2
      <4> QED
        BY <1>2, <2>1, <3>1, <3>2, <4>1
    <3>3. CASE ~(k <= m - 1)
      <4>1. k = m /\ k - (m - 1) = 1
        BY <1>1, <3>3
      <4>2. (f \o e)[k] = e[k - (m - 1)]
        BY <2>1, <3>1, <3>3
      <4> QED
        BY <1>5, <4>1, <4>2
    <3> QED
      BY <3>2, <3>3
  <2>3. (m - 1) + 1 = m /\ Len(s) = m
    BY <1>1 DEF m
  <2> DEFINE u == f \o e
  <2>4. u \in Seq(Point) /\ Len(u) = Len(s) /\ \A k \in 1..Len(s) : u[k] = s[k]
    BY <2>1, <2>2, <2>3
  <2> HIDE DEF u
  <2>5. u = s
    BY <2>4, SeqEqual
  <2> QED
    BY <2>5 DEF u
<1> HIDE DEF e
<1>7. pathLengthKm(f \o e) = pathLengthKm(f) + haversineKm(f[Len(f)], e[1]) + pathLengthKm(e)
  BY <1>3, <1>5, LengthJoined
<1>8. pathLengthKm(f) \in Nat /\ haversineKm(f[Len(f)], e[1]) \in Nat
  <2>1. Len(f) \in 1..Len(f) /\ Len(f) \in 0..Len(f)
    BY <1>1, <1>3
  <2>2. f[Len(f)] \in Point /\ e[1] \in Point
    BY <1>3, <1>4, <1>5, <2>1
  <2>3. haversineKm(f[Len(f)], e[1]) \in Nat
    BY <2>2, DistanceIs
  <2>4. LengthTo(f, Len(f)) \in Nat /\ pathLengthKm(f) = LengthTo(f, Len(f))
    BY <1>3, <2>1, LengthBy
  <2> QED
    BY <2>3, <2>4
<1>9. pathLengthKm(s) = pathLengthKm(f) + haversineKm(f[Len(f)], s[m])
  <2>1. pathLengthKm(s) = pathLengthKm(f \o e)
    BY <1>6
  <2>2. haversineKm(f[Len(f)], e[1]) = haversineKm(f[Len(f)], s[m]) /\ pathLengthKm(e) = 0
    BY <1>5
  <2> QED
    BY <1>7, <1>8, <2>1, <2>2
<1> QED
  BY <1>3, <1>4, <1>9 DEF f, m

\* A line is as long backwards.
LEMMA LengthBack ==
  ASSUME NEW s \in Seq(Point), s # <<>>
  PROVE  /\ pathLengthKm(Reverse(s)) = pathLengthKm(s)
         /\ Reverse(s)[1] = s[Len(s)] /\ Reverse(s)[Len(Reverse(s))] = s[1]
<1> DEFINE n == Len(s)
           r == Reverse(s)
           Q == {i \in 1..n : LengthTo(r, i) + LengthTo(s, (n - i) + 1) = LengthTo(s, n)}
<1>1. n \in Nat \ {0} /\ r \in Seq(Point) /\ Len(r) = n
  BY ReverseIs
<1>2. \A i \in 1..n : r[i] = s[(n - i) + 1]
  BY DEF Reverse
<1> HIDE DEF r, n
<1>3. \A i \in 1..n : LengthTo(s, i) \in Nat /\ LengthTo(r, i) \in Nat
  <2>1. 1..n \subseteq 0..n /\ Len(s) = n
    BY <1>1 DEF n
  <2> QED
    BY <1>1, <2>1, LengthBy
<1>4. LengthTo(r, 1) = 0 /\ LengthTo(s, 1) = 0
  BY <1>1, LengthBy
<1>5. ASSUME NEW i \in 1..n, i = 1 \/ i - 1 \in Q
      PROVE  i \in Q
  <2>1. CASE i = 1
    <3>1. (n - 1) + 1 = n /\ n \in 1..n
      BY <1>1
    <3> QED
      BY <1>3, <1>4, <2>1, <3>1
  <2>2. CASE i # 1
    <3> DEFINE k == (n - i) + 1
    <3>1. /\ i - 1 \in 1..n - 1 /\ k \in 1..n - 1 /\ (i - 1) + 1 = i
          /\ (n - (i - 1)) + 1 = k + 1 /\ k \in 1..n /\ k + 1 \in 1..n /\ i - 1 \in 1..n
      BY <1>1, <2>2
    <3>2. r[i] = s[k]
      BY <1>2
    <3>3. r[i - 1] = s[k + 1]
      BY <1>2, <3>1
    <3> HIDE DEF k
    <3>4. LengthTo(r, (i - 1) + 1) = LengthTo(r, i - 1) + haversineKm(r[i - 1], r[(i - 1) + 1])
      BY <1>1, <3>1, LengthBy
    <3>5. LengthTo(s, k + 1) = LengthTo(s, k) + haversineKm(s[k], s[k + 1])
      BY <3>1, LengthBy DEF n
    <3>6. s[k] \in Point /\ s[k + 1] \in Point
      BY <3>1 DEF n
    <3>7. haversineKm(s[k + 1], s[k]) = haversineKm(s[k], s[k + 1]) /\ haversineKm(s[k], s[k + 1]) \in Nat
      BY <3>6, DistanceBack, DistanceIs
    <3>8. LengthTo(r, i - 1) + LengthTo(s, k + 1) = LengthTo(s, n)
      BY <1>5, <2>2, <3>1
    <3>9. LengthTo(r, i) + LengthTo(s, k) = LengthTo(s, n)
      BY <1>3, <3>1, <3>2, <3>3, <3>4, <3>5, <3>7, <3>8
    <3> QED
      BY <3>9 DEF k
  <2> QED
    BY <2>1, <2>2
<1> HIDE DEF Q
<1>6. \A i \in 1..n : i \in Q
  BY <1>1, <1>5, IndexInduction
<1>7. n \in 1..n /\ 1 \in 1..n /\ (n - n) + 1 = 1 /\ (n - 1) + 1 = n
  BY <1>1
<1>8. LengthTo(r, n) + LengthTo(s, (n - n) + 1) = LengthTo(s, n)
  BY <1>6, <1>7 DEF Q
<1>9. LengthTo(r, n) = LengthTo(s, n)
  BY <1>3, <1>4, <1>7, <1>8
<1>10. pathLengthKm(r) = LengthTo(r, Len(r)) /\ pathLengthKm(s) = LengthTo(s, Len(s))
  BY <1>1, LengthBy
<1>11. r[1] = s[n] /\ r[n] = s[1]
  BY <1>2, <1>7
<1> QED
  BY <1>1, <1>9, <1>10, <1>11 DEF n, r

\* Unwrapping a line leaves its length.
LEMMA LengthUnwrapped ==
  ASSUME NEW line \in Seq(Point), line # <<>>
  PROVE  pathLengthKm(Unwrapped(line)) = pathLengthKm(line)
<1> DEFINE u == Unwrapped(line)
<1>1. /\ u \in Seq(Point) /\ Len(u) = Len(line)
      /\ \A i \in 1..Len(line) : Same(line[i], u[i])
  BY UnwrappedIs
<1> HIDE DEF u
<1>2. \A k \in 1..Len(line) - 1 : haversineKm(u[k], u[k + 1]) = haversineKm(line[k], line[k + 1])
  <2> TAKE k \in 1..Len(line) - 1
  <2>1. k \in 1..Len(line) /\ k + 1 \in 1..Len(line)
    OBVIOUS
  <2>2. /\ line[k] \in Point /\ line[k + 1] \in Point
        /\ u[k] \in Point /\ u[k + 1] \in Point
    BY <1>1, <2>1
  <2>3. Same(line[k], u[k]) /\ Same(line[k + 1], u[k + 1])
    BY <1>1, <2>1
  <2> QED
    BY <2>2, <2>3, DistanceSame
<1>3. pathLengthKm(u) = pathLengthKm(line)
  BY <1>1, <1>2, LengthSame
<1> QED
  BY <1>3 DEF u

\* The parts of a way grow with it.
LEMMA PartGrows ==
  ASSUME NEW n \in Nat \ {0}, NEW d \in Int, d <= n, d >= -n, NEW k \in 0..n - 1
  PROVE  LET q == (k * d) \div n
             r == ((k + 1) * d) \div n
         IN  /\ q \in Int /\ r \in Int /\ r - q \in {-1, 0, 1}
             /\ Magnitude(r) = Magnitude(q) + Magnitude(r - q)
<1> DEFINE p == k * d
           p2 == (k + 1) * d
           q == p \div n
           r == p2 \div n
<1>1. p \in Int /\ p2 \in Int /\ p2 = p + d
  OBVIOUS
<1>2. r - q \in {-1, 0, 1}
  BY PartStep
<1>3. /\ d >= 0 => q >= 0 /\ r >= 0
      /\ d <= 0 => q <= 0 /\ r <= 0
  <2>1. k \in 0..n /\ k + 1 \in 0..n
    OBVIOUS
  <2>2. /\ d >= 0 => q \in 0..d /\ r \in 0..d
        /\ d <= 0 => q \in d..0 /\ r \in d..0
    BY <2>1, Part
  <2> HIDE DEF q, r
  <2> QED
    BY <2>2
<1> HIDE DEF p, p2
<1>4. q \in Int /\ r \in Int
  BY <1>1
<1>5. p \div n = q /\ p2 \div n = r
  OBVIOUS
<1> HIDE DEF q, r
<1>6. q * n <= p /\ p < q * n + n /\ r * n <= p2 /\ p2 < r * n + n
  BY <1>1, <1>4, <1>5, Divided
<1>7. d >= 0 => r >= q
  <2>1. SUFFICES ASSUME d >= 0, r <= q - 1
                 PROVE  FALSE
    BY <1>4
  <2>2. r * n <= q * n - n /\ r * n \in Int /\ q * n \in Int
    BY <1>4, <2>1
  <2> QED
    BY <1>1, <1>6, <2>1, <2>2
<1>8. d <= 0 => r <= q
  <2>1. SUFFICES ASSUME d <= 0, r >= q + 1
                 PROVE  FALSE
    BY <1>4
  <2>2. r * n >= q * n + n /\ r * n \in Int /\ q * n \in Int
    BY <1>4, <2>1
  <2> QED
    BY <1>1, <1>6, <2>1, <2>2
<1>9. Magnitude(r) = Magnitude(q) + Magnitude(r - q)
  BY <1>3, <1>4, <1>7, <1>8 DEF Magnitude
<1> QED
  BY <1>2, <1>4, <1>9 DEF q, r, p, p2

\* One unit of longitude is one unit away, over the dateline too.
LEMMA ShortStep ==
  ASSUME NEW x \in Int, NEW d \in {-1, 0, 1}
  PROVE  Magnitude(Shorter(x, x + d)) = Magnitude(d)
<1>1. Half \in Nat \ {0}
  BY GeographyAssumption
<1>2. CASE Magnitude(d) < Half
  <2> DEFINE y == x + d
  <2>1. y \in Int /\ y - x = d
    OBVIOUS
  <2> HIDE DEF y
  <2>2. Shorter(x, y) = y - x
    BY <1>2, <2>1, ShorterNear
  <2> QED
    BY <2>1, <2>2 DEF y
<1>3. CASE ~(Magnitude(d) < Half)
  <2>1. Half = 1 /\ d \in {-1, 1}
    BY <1>1, <1>3 DEF Magnitude
  <2>2. (x + d) - x = d /\ d % 2 = 1
    BY <2>1
  <2>3. Shorter(x, x + d) = 1
    BY <2>1, <2>2 DEF Shorter
  <2> QED
    BY <2>1, <2>3 DEF Magnitude
<1> QED
  BY <1>2, <1>3

\* A great circle is no detour.
LEMMA LengthCircle ==
  ASSUME NEW a \in Point, NEW b \in Point
  PROVE  pathLengthKm(GreatCircle(a, b)) = haversineKm(a, b)
<1>1. a[1] \in Int /\ a[2] \in Int /\ b[1] \in Int /\ b[2] \in Int
  BY DEF Point
<1> DEFINE dx == Shorter(a[1], b[1])
           dy == b[2] - a[2]
           n == Max({1, Magnitude(dx), Magnitude(dy)})
           x(k) == (k * dx) \div n
           y(k) == (k * dy) \div n
           line == GreatCircle(a, b)
<1>2. line = [i \in 1..n + 1 |-> <<wrapLon(a[1] + x(i - 1)), a[2] + y(i - 1)>>]
  BY Zenon DEF GreatCircle
<1>3. dx \in Int /\ dy \in Int /\ haversineKm(a, b) = Magnitude(dx) + Magnitude(dy)
  <2>1. dx \in Int
    BY <1>1, ShorterIs
  <2> QED
    BY <1>1, <2>1 DEF haversineKm
<1> HIDE DEF dx, dy
<1>4. Magnitude(dx) \in Nat /\ Magnitude(dy) \in Nat
  BY <1>3, MagnitudeIs
<1>5. n \in Nat \ {0} /\ n >= Magnitude(dx) /\ n >= Magnitude(dy)
  <2>1. n \in Nat \ {0} /\ n >= Magnitude(dx)
    BY <1>4, MaxOfThree
  <2>2. Max({1, Magnitude(dy), Magnitude(dx)}) >= Magnitude(dy)
    BY <1>4, MaxOfThree
  <2>3. {1, Magnitude(dy), Magnitude(dx)} = {1, Magnitude(dx), Magnitude(dy)}
    OBVIOUS
  <2> QED
    BY <2>1, <2>2, <2>3
<1> HIDE DEF n
<1>6. dx <= n /\ dx >= -n /\ dy <= n /\ dy >= -n
  BY <1>3, <1>5 DEF Magnitude
<1>7. ASSUME NEW k \in 0..n
      PROVE  x(k) \in Int /\ y(k) \in Int
  BY <1>3, <1>5, Part
<1>8. ASSUME NEW k \in 0..n - 1
      PROVE  /\ x(k + 1) - x(k) \in {-1, 0, 1}
             /\ Magnitude(x(k + 1)) = Magnitude(x(k)) + Magnitude(x(k + 1) - x(k))
             /\ Magnitude(y(k + 1)) = Magnitude(y(k)) + Magnitude(y(k + 1) - y(k))
  BY <1>3, <1>5, <1>6, PartGrows
<1>9. x(0) = 0 /\ y(0) = 0 /\ x(n) = dx /\ y(n) = dy
  <2>1. \A d \in Int : (0 * d) \div n = 0 /\ (n * d) \div n = d
    <3> TAKE d \in Int
    <3>1. 0 * d = 0 /\ n * d = d * n /\ d * n \in Int
      BY <1>5
    <3>2. 0 \div n = 0
      BY <1>5, Divided
    <3> DEFINE p == d * n
    <3>3. p \in Int /\ d * n <= p /\ p < d * n + n
      BY <1>5, <3>1
    <3> HIDE DEF p
    <3>4. p \div n = d
      BY <1>5, <3>3, Divided
    <3> QED
      BY <3>1, <3>2, <3>4 DEF p
  <2> QED
    BY <1>3, <2>1
<1> HIDE DEF x, y
<1>10. ASSUME NEW k \in 0..n
       PROVE  line[k + 1] = <<wrapLon(a[1] + x(k)), a[2] + y(k)>>
  <2>1. k + 1 \in 1..n + 1 /\ (k + 1) - 1 = k
    BY <1>5
  <2> QED
    BY <1>2, <2>1
<1>11. line \in Seq(Point) /\ Len(line) = n + 1
  <2>1. line \in Seq(Point)
    BY GreatCircleIs
  <2>2. n + 1 \in Nat
    BY <1>5
  <2> QED
    BY <1>2, <2>1, <2>2
<1> HIDE DEF line
<1>12. ASSUME NEW k \in 0..n - 1
       PROVE  haversineKm(line[k + 1], line[(k + 1) + 1]) =
                Magnitude(x(k + 1) - x(k)) + Magnitude(y(k + 1) - y(k))
  <2> DEFINE p == <<a[1] + x(k), a[2] + y(k)>>
             q == <<a[1] + x(k + 1), a[2] + y(k + 1)>>
  <2>1. k \in 0..n /\ k + 1 \in 0..n
    BY <1>5
  <2>2. x(k) \in Int /\ y(k) \in Int /\ x(k + 1) \in Int /\ y(k + 1) \in Int
    BY <1>7, <2>1
  <2>3. p \in Point /\ q \in Point
    BY <1>1, <2>2 DEF Point
  <2>4. ASSUME NEW u \in Int, NEW v \in Int
        PROVE  <<wrapLon(u), v>> \in Point /\ Same(<<u, v>>, <<wrapLon(u), v>>)
    BY <2>4, WrapLonIs DEF Same, Point
  <2>5. /\ line[k + 1] \in Point /\ Same(p, line[k + 1])
        /\ line[(k + 1) + 1] \in Point /\ Same(q, line[(k + 1) + 1])
    <3>1. a[1] + x(k) \in Int /\ a[2] + y(k) \in Int /\ a[1] + x(k + 1) \in Int /\ a[2] + y(k + 1) \in Int
      BY <1>1, <2>2
    <3>2. line[k + 1] = <<wrapLon(a[1] + x(k)), a[2] + y(k)>>
          /\ line[(k + 1) + 1] = <<wrapLon(a[1] + x(k + 1)), a[2] + y(k + 1)>>
      BY <1>10, <2>1
    <3> QED
      BY <2>4, <3>1, <3>2
  <2>6. haversineKm(line[k + 1], line[(k + 1) + 1]) = haversineKm(p, q)
    <3> HIDE DEF p, q
    <3> QED
      BY <2>3, <2>5, DistanceSame
  <2>7. haversineKm(p, q) = Magnitude(Shorter(a[1] + x(k), a[1] + x(k + 1)))
                              + Magnitude((a[2] + y(k + 1)) - (a[2] + y(k)))
    BY DEF haversineKm
  <2>8. (a[2] + y(k + 1)) - (a[2] + y(k)) = y(k + 1) - y(k)
    BY <1>1, <2>2
  <2>9. Magnitude(Shorter(a[1] + x(k), a[1] + x(k + 1))) = Magnitude(x(k + 1) - x(k))
    <3> DEFINE u == a[1] + x(k)
               d == x(k + 1) - x(k)
    <3>1. u \in Int /\ d \in {-1, 0, 1} /\ u + d = a[1] + x(k + 1)
      BY <1>1, <1>8, <2>2
    <3> HIDE DEF u, d
    <3>2. Magnitude(Shorter(u, u + d)) = Magnitude(d)
      BY <3>1, ShortStep
    <3> QED
      BY <3>1, <3>2 DEF u, d
  <2> QED
    BY <2>6, <2>7, <2>8, <2>9
<1> DEFINE Q == {i \in 1..n + 1 : LengthTo(line, i) = Magnitude(x(i - 1)) + Magnitude(y(i - 1))}
<1>13. ASSUME NEW i \in 1..n + 1, i = 1 \/ i - 1 \in Q
       PROVE  i \in Q
  <2>1. CASE i = 1
    <3>1. LengthTo(line, 1) = 0
      BY <1>11, LengthBy
    <3>2. 1 - 1 = 0 /\ Magnitude(0) = 0
      BY DEF Magnitude
    <3> QED
      BY <1>9, <2>1, <3>1, <3>2
  <2>2. CASE i # 1
    <3> DEFINE k == (i - 1) - 1
    <3>1. k \in 0..n - 1 /\ k + 1 = i - 1 /\ (k + 1) + 1 = i /\ k + 1 \in 1..Len(line) - 1
          /\ k \in 0..n /\ k + 1 \in 0..n /\ (k + 1) - 1 = k
      BY <1>5, <1>11, <2>2
    <3>2. LengthTo(line, k + 1) = Magnitude(x(k)) + Magnitude(y(k))
      BY <1>13, <2>2, <3>1
    <3> HIDE DEF k
    <3>3. LengthTo(line, (k + 1) + 1) =
            LengthTo(line, k + 1) + haversineKm(line[k + 1], line[(k + 1) + 1])
      BY <1>11, <3>1, LengthBy
    <3>4. x(k) \in Int /\ y(k) \in Int /\ x(k + 1) \in Int /\ y(k + 1) \in Int
      BY <1>7, <3>1
    <3>5. /\ Magnitude(x(k)) \in Nat /\ Magnitude(y(k)) \in Nat
          /\ Magnitude(x(k + 1) - x(k)) \in Nat /\ Magnitude(y(k + 1) - y(k)) \in Nat
      BY <3>4, MagnitudeIs
    <3>6. LengthTo(line, (k + 1) + 1) = Magnitude(x(k + 1)) + Magnitude(y(k + 1))
      BY <1>8, <1>12, <3>1, <3>2, <3>3, <3>5
    <3> QED
      BY <3>1, <3>6
  <2> QED
    BY <2>1, <2>2
<1> HIDE DEF Q
<1>14. \A i \in 1..n + 1 : i \in Q
  <2>1. n + 1 \in Nat
    BY <1>5
  <2> QED
    BY <1>13, <2>1, IndexInduction
<1>15. n + 1 \in 1..n + 1 /\ (n + 1) - 1 = n
  BY <1>5
<1>16. LengthTo(line, n + 1) = Magnitude(dx) + Magnitude(dy)
  BY <1>9, <1>14, <1>15 DEF Q
<1>17. pathLengthKm(line) = LengthTo(line, n + 1)
  BY <1>11, LengthBy
<1> QED
  BY <1>3, <1>16, <1>17 DEF line

\* Nor is a leg.
LEMMA LengthLeg ==
  ASSUME NEW pts \in Seq(Point), NEW i \in 1..Len(pts) - 1
  PROVE  pathLengthKm(LegOf(pts, i)) = haversineKm(pts[i], pts[i + 1])
<1>1. pts[i] \in Point /\ pts[i + 1] \in Point
  <2>1. i \in 1..Len(pts) /\ i + 1 \in 1..Len(pts)
    OBVIOUS
  <2> QED
    BY <2>1
<1>2. CASE haversineKm(pts[i], pts[i + 1]) = 0
  <2> DEFINE p == pts[i + 1]
             s == <<p>> \o <<p>>
  <2>1. LegOf(pts, i) = s
    BY <1>2 DEF LegOf
  <2>2. p \in Point
    BY <1>1
  <2> HIDE DEF p
  <2>3. pathLengthKm(<<p>>) = 0 /\ <<p>> \in Seq(Point) /\ <<p>> # <<>>
        /\ <<p>>[1] = p /\ <<p>>[Len(<<p>>)] = p
    BY <2>2, LengthOne
  <2>4. pathLengthKm(s) = pathLengthKm(<<p>>) + haversineKm(<<p>>[Len(<<p>>)], <<p>>[1])
                             + pathLengthKm(<<p>>)
    <3> DEFINE o == <<p>>
    <3>1. o \in Seq(Point) /\ o # <<>>
      BY <2>3
    <3> HIDE DEF o
    <3>2. pathLengthKm(o \o o) = pathLengthKm(o) + haversineKm(o[Len(o)], o[1]) + pathLengthKm(o)
      BY <3>1, LengthJoined
    <3> QED
      BY <3>2 DEF o
  <2>5. haversineKm(p, p) = 0
    BY <2>2, SameSelf, DistanceSame
  <2>6. pathLengthKm(s) = 0
    BY <2>3, <2>4, <2>5
  <2> QED
    BY <1>2, <2>1, <2>6
<1>3. CASE haversineKm(pts[i], pts[i + 1]) # 0
  BY <1>1, <1>3, LengthCircle DEF LegOf
<1> QED
  BY <1>2, <1>3

\* The length of lines one after the other is theirs, and the gaps between them.
LengthStep(len, seqs, i) ==
  IF i = 1 THEN pathLengthKm(seqs[1])
  ELSE len[i - 1] + haversineKm(seqs[i - 1][Len(seqs[i - 1])], seqs[i][1])
         + pathLengthKm(seqs[i])

LEMMA LengthFlattened ==
  ASSUME NEW seqs \in Seq(Seq(Point)), seqs # <<>>, \A i \in 1..Len(seqs) : seqs[i] # <<>>
  PROVE  \E len \in [1..Len(seqs) -> Nat] :
           /\ pathLengthKm(FlattenSeq(seqs)) = len[Len(seqs)]
           /\ \A i \in 1..Len(seqs) : len[i] = LengthStep(len, seqs, i)
<1> DEFINE n == Len(seqs)
<1>1. n \in Nat \ {0} /\ n \in 1..n /\ \A i \in 1..n : seqs[i] \in Seq(Point) /\ seqs[i] # <<>>
  OBVIOUS
<1>2. PICK F \in [1..n -> Seq(Point)] :
        FlattenSeq(seqs) = F[n] /\ \A i \in 1..n : F[i] = FlattenStep(F, seqs, i)
  BY <1>1, FlattenBy
<1> HIDE DEF n
<1> DEFINE Q == {i \in 1..n : F[i] # <<>> /\ F[i][Len(F[i])] = seqs[i][Len(seqs[i])]}
<1>3. ASSUME NEW i \in 1..n, i = 1 \/ i - 1 \in Q
      PROVE  i \in Q
  <2>1. CASE i = 1
    BY <1>1, <1>2, <2>1 DEF FlattenStep
  <2>2. CASE i # 1
    <3> DEFINE p == F[i - 1]
               q == seqs[i]
               r == p \o q
    <3>1. i - 1 \in 1..n
      BY <1>1, <2>2
    <3>2. p \in Seq(Point) /\ q \in Seq(Point) /\ q # <<>> /\ F[i] = r
      BY <1>1, <1>2, <2>2, <3>1 DEF FlattenStep
    <3> HIDE DEF p, q, Q
    <3>3. /\ r \in Seq(Point) /\ Len(r) = Len(p) + Len(q)
          /\ \A k \in 1..Len(p) + Len(q) :
               r[k] = IF k <= Len(p) THEN p[k] ELSE q[k - Len(p)]
      BY <3>2, ConcatProperties
    <3>4. Len(p) \in Nat /\ Len(q) \in Nat \ {0}
      BY <3>2
    <3> HIDE DEF r
    <3>5. r # <<>> /\ r[Len(r)] = q[Len(q)]
      <4> DEFINE m == Len(p) + Len(q)
      <4>1. m \in 1..m /\ ~(m <= Len(p)) /\ m - Len(p) = Len(q) /\ m # 0
        BY <3>4
      <4>2. r[m] = q[m - Len(p)]
        BY <3>3, <4>1
      <4> HIDE DEF m
      <4>3. Len(r) = m
        BY <3>3 DEF m
      <4> QED
        BY <4>1, <4>2, <4>3
    <3> QED
      BY <3>2, <3>5 DEF Q, q
  <2> QED
    BY <2>1, <2>2
<1> HIDE DEF Q
<1>4. \A i \in 1..n : F[i] # <<>> /\ F[i][Len(F[i])] = seqs[i][Len(seqs[i])]
  <2>1. \A i \in 1..n : i \in Q
    BY <1>1, <1>3, IndexInduction
  <2> QED
    BY <2>1 DEF Q
<1> DEFINE len == [i \in 1..n |-> pathLengthKm(F[i])]
<1>5. ASSUME NEW i \in 1..n
      PROVE  pathLengthKm(F[i]) \in Nat
  <2> DEFINE s == F[i]
  <2>1. s \in Seq(Point)
    BY <1>2
  <2> HIDE DEF s
  <2>2. Len(s) \in 0..Len(s)
    BY <2>1
  <2>3. pathLengthKm(s) \in Nat
    BY <2>1, <2>2, LengthBy
  <2> QED
    BY <2>3 DEF s
<1>6. ASSUME NEW i \in 1..n
      PROVE  len[i] = LengthStep(len, seqs, i)
  <2>1. CASE i = 1
    BY <1>2, <2>1 DEF FlattenStep, LengthStep
  <2>2. CASE i # 1
    <3>1. i - 1 \in 1..n
      BY <1>1, <2>2
    <3> DEFINE p == F[i - 1]
               q == seqs[i]
    <3>2. /\ p \in Seq(Point) /\ p # <<>> /\ q \in Seq(Point) /\ q # <<>> /\ F[i] = p \o q
          /\ p[Len(p)] = seqs[i - 1][Len(seqs[i - 1])]
      BY <1>1, <1>2, <1>4, <2>2, <3>1 DEF FlattenStep
    <3>3. len[i] = pathLengthKm(p \o q) /\ len[i - 1] = pathLengthKm(p)
      BY <3>1, <3>2
    <3> HIDE DEF p, len
    <3>4. pathLengthKm(p \o q) = pathLengthKm(p) + haversineKm(p[Len(p)], q[1]) + pathLengthKm(q)
      <4> HIDE DEF q
      <4> QED
        BY <3>2, LengthJoined
    <3>5. len[i] = len[i - 1] + haversineKm(seqs[i - 1][Len(seqs[i - 1])], seqs[i][1])
                     + pathLengthKm(seqs[i])
      BY <3>2, <3>3, <3>4
    <3> QED
      BY <2>2, <3>5 DEF LengthStep
  <2> QED
    BY <2>1, <2>2
<1>7. len \in [1..n -> Nat] /\ len[n] = pathLengthKm(F[n])
  BY <1>1, <1>5
<1> HIDE DEF len
<1> QED
  BY <1>2, <1>6, <1>7 DEF n

\* A path with its legs filled in is no longer and no shorter.
LEMMA LengthDensified ==
  ASSUME NEW pts \in Seq(Point), Len(pts) >= 2
  PROVE  pathLengthKm(densifyPath(pts)) = pathLengthKm(pts)
<1> DEFINE n == Len(pts) - 1
           legs == LegsOf(pts)
           line == FlattenSeq(legs)
<1>1. n \in Nat /\ n >= 1 /\ 1 \in 1..n /\ n \in 1..n /\ Len(pts) = n + 1
  OBVIOUS
<1>2. densifyPath(pts) = Unwrapped(line)
  BY LegsAre
<1>3. /\ legs \in Seq(Seq(Point)) /\ Len(legs) = n
      /\ \A i \in 1..n : /\ legs[i] \in Seq(Point) /\ legs[i] # <<>>
                         /\ Same(pts[i + 1], legs[i][Len(legs[i])])
  BY LegsAre
<1>4. line \in Seq(Point) /\ line # <<>>
  BY <1>1, <1>3, FlattenIs
<1>5. \A i \in 1..n : legs[i] = IF i = 1 THEN LegOf(pts, i) ELSE Tail(LegOf(pts, i))
  BY DEF LegsOf
<1> HIDE DEF legs, line
<1>6. PICK len \in [1..n -> Nat] :
        /\ pathLengthKm(FlattenSeq(legs)) = len[n]
        /\ \A i \in 1..n : len[i] = LengthStep(len, legs, i)
  <2>1. legs # <<>> /\ \A i \in 1..Len(legs) : legs[i] # <<>>
    BY <1>1, <1>3
  <2>2. \E len \in [1..Len(legs) -> Nat] :
          /\ pathLengthKm(FlattenSeq(legs)) = len[Len(legs)]
          /\ \A i \in 1..Len(legs) : len[i] = LengthStep(len, legs, i)
    BY <1>3, <2>1, LengthFlattened
  <2> QED
    BY <1>3, <2>2
<1> HIDE DEF n
<1>7. \A i \in 1..n + 1 : pts[i] \in Point
  BY <1>1
<1>8. ASSUME NEW i \in 1..n
      PROVE  /\ LegOf(pts, i) \in Seq(Point) /\ Len(LegOf(pts, i)) >= 2
             /\ Same(pts[i], LegOf(pts, i)[1])
             /\ pathLengthKm(LegOf(pts, i)) = haversineKm(pts[i], pts[i + 1])
             /\ LengthTo(pts, i + 1) = LengthTo(pts, i) + haversineKm(pts[i], pts[i + 1])
             /\ LengthTo(pts, i) \in Nat
  <2>1. i \in 1..Len(pts) - 1 /\ i \in 0..Len(pts)
    BY <1>1
  <2> QED
    BY <2>1, LegIs, LengthLeg, LengthBy DEF Leads
<1> DEFINE Q == {i \in 1..n : len[i] = LengthTo(pts, i + 1)}
<1>9. ASSUME NEW i \in 1..n, i = 1 \/ i - 1 \in Q
      PROVE  i \in Q
  <2>1. len[i] = LengthStep(len, legs, i)
    BY <1>6
  <2>2. CASE i = 1
    <3>1. legs[1] = LegOf(pts, 1)
      BY <1>5, <2>2
    <3>2. len[1] = haversineKm(pts[1], pts[1 + 1])
      BY <1>8, <2>1, <2>2, <3>1 DEF LengthStep
    <3>3. LengthTo(pts, 1) = 0 /\ haversineKm(pts[1], pts[1 + 1]) \in Nat
      <4>1. 1 \in 1..n + 1 /\ 1 + 1 \in 1..n + 1
        BY <1>1
      <4> QED
        BY <1>7, <4>1, LengthBy, DistanceIs
    <3> QED
      BY <1>8, <2>2, <3>2, <3>3
  <2>3. CASE i # 1
    <3> DEFINE leg == LegOf(pts, i)
               end == legs[i - 1][Len(legs[i - 1])]
    <3>0. i - 1 \in 1..n /\ (i - 1) + 1 = i /\ i \in 1..n + 1 /\ i + 1 \in 1..n + 1
      BY <1>1, <2>3
    <3>1. len[i - 1] = LengthTo(pts, i)
      BY <1>9, <2>3, <3>0
    <3>2. len[i] = len[i - 1] + haversineKm(end, legs[i][1]) + pathLengthKm(legs[i])
      BY <2>1, <2>3 DEF LengthStep
    <3>3. leg \in Seq(Point) /\ Len(leg) >= 2 /\ Same(pts[i], leg[1])
          /\ legs[i] = Tail(leg)
      BY <1>5, <1>8, <2>3
    <3>4. end \in Point /\ Same(pts[i], end)
      <4> DEFINE s == legs[i - 1]
      <4>1. s \in Seq(Point) /\ s # <<>> /\ Same(pts[i], s[Len(s)])
        BY <1>3, <3>0
      <4> HIDE DEF s
      <4>2. s[Len(s)] \in Point
        BY <4>1
      <4> QED
        BY <4>1, <4>2 DEF s
    <3>5. pathLengthKm(leg) = haversineKm(pts[i], pts[i + 1])
      BY <1>8
    <3> HIDE DEF leg, end
    <3>6. Tail(leg) \in Seq(Point) /\ Tail(leg)[1] = leg[2]
          /\ pathLengthKm(leg) = haversineKm(leg[1], leg[2]) + pathLengthKm(Tail(leg))
      BY <3>3, LengthTail
    <3>7. leg[1] \in Point /\ leg[2] \in Point
      BY <3>3
    <3>8. pts[i] \in Point
      BY <1>7, <3>0
    <3>9. Same(leg[1], end) /\ Same(leg[2], leg[2])
      BY <3>3, <3>4, <3>7, <3>8, SameAgain, SameSelf
    <3>10. haversineKm(end, leg[2]) = haversineKm(leg[1], leg[2])
      BY <3>4, <3>7, <3>9, DistanceSame
    <3>11. len[i - 1] \in Nat /\ haversineKm(leg[1], leg[2]) \in Nat /\ pathLengthKm(Tail(leg)) \in Nat
      <4> DEFINE s == Tail(leg)
      <4>1. s \in Seq(Point)
        BY <3>6
      <4> HIDE DEF s
      <4>2. Len(s) \in 0..Len(s)
        BY <4>1
      <4>3. pathLengthKm(s) \in Nat
        BY <4>1, <4>2, LengthBy
      <4> QED
        BY <1>6, <3>0, <3>7, <4>3, DistanceIs DEF s
    <3>12. len[i] = len[i - 1] + pathLengthKm(leg)
      BY <3>2, <3>3, <3>6, <3>10, <3>11
    <3>13. len[i] = LengthTo(pts, i + 1)
      BY <1>8, <3>1, <3>5, <3>12
    <3> QED
      BY <3>13
  <2> QED
    BY <2>2, <2>3
<1> HIDE DEF Q
<1>10. \A i \in 1..n : i \in Q
  BY <1>1, <1>9, IndexInduction
<1>11. len[n] = LengthTo(pts, n + 1)
  BY <1>1, <1>10 DEF Q
<1>12. pathLengthKm(pts) = LengthTo(pts, n + 1)
  BY <1>1, LengthBy
<1>13. pathLengthKm(Unwrapped(line)) = pathLengthKm(line)
  BY <1>4, LengthUnwrapped
<1> QED
  BY <1>2, <1>6, <1>11, <1>12, <1>13 DEF line

=============================================================================
