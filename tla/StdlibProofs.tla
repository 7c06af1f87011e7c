---------------------------- MODULE StdlibProofs ----------------------------
(***************************************************************************)
(* The library of the compiled program: the square root, for words of any   *)
(* size; what is drawn, on screens of every size; the heap, for every       *)
(* memory, every heap in it and every order of calls; and lines that are    *)
(* read from the keyboard, for every word size, screen and sequence of keys.*)
(***************************************************************************)
EXTENDS JackHeap, Screen, Console, FiniteSetTheorems, SequenceTheorems, WellFoundedInduction, TLAPS

-----------------------------------------------------------------------------
(* Math.sqrt *)

(* The root lies between low and high. *)
SqrtInv ==
  /\ radicand \in 0..MaxWord
  /\ low \in Nat /\ high \in 1..SqrtBound /\ low < high
  /\ low * low <= radicand /\ radicand < high * high

LEMMA SquaresGrow ==
  ASSUME NEW a \in Nat, NEW b \in Nat, a <= b
  PROVE  a * a <= b * b
<1>1. a * a <= a * b /\ a * b <= b * b
  OBVIOUS
<1> QED
  BY <1>1

LEMMA StartKeeps == ASSUME NEW x \in 0..MaxWord PROVE SqrtStart(x) => SqrtInv'
<1>1. 0 * 0 <= x /\ x < SqrtBound * SqrtBound
  BY SqrtBoundAssumption
<1> QED
  BY <1>1, SqrtBoundAssumption DEF SqrtStart, SqrtInv

LEMMA MidBetween == ASSUME SqrtInv, Bisecting PROVE Mid \in Nat /\ low < Mid /\ Mid < high
  BY SqrtBoundAssumption DEF SqrtInv, Bisecting, Mid

LEMMA BisectKeeps == SqrtInv /\ Bisect => SqrtInv'
<1> SUFFICES ASSUME SqrtInv, Bisect PROVE SqrtInv'
  OBVIOUS
<1>1. Mid \in Nat /\ low < Mid /\ Mid < high
  BY MidBetween DEF Bisect
<1>2. CASE Mid * Mid > radicand
  <2>1. high' = Mid /\ low' = low /\ radicand' = radicand
    BY <1>2 DEF Bisect
  <2>2. Mid \in 1..SqrtBound /\ radicand < Mid * Mid
    BY <1>1, <1>2, SqrtBoundAssumption DEF SqrtInv
  <2> QED
    BY <1>1, <2>1, <2>2 DEF SqrtInv
<1>3. CASE ~ (Mid * Mid > radicand)
  <2>1. Mid * Mid \in Int /\ radicand \in Int
    BY <1>1, SqrtBoundAssumption DEF SqrtInv
  <2>2. Mid * Mid <= radicand
    BY <1>3, <2>1
  <2> QED
    BY <1>1, <1>3, <2>2 DEF SqrtInv, Bisect
<1> QED
  BY <1>2, <1>3

LEMMA InvariantSuffices == SqrtInv => SqrtFloor
<1> SUFFICES ASSUME SqrtInv PROVE SqrtFloor
  OBVIOUS
<1>1. ASSUME ~ Bisecting PROVE low * low <= radicand /\ radicand < (low + 1) * (low + 1)
  <2>1. high = low + 1
    BY <1>1, SqrtBoundAssumption DEF SqrtInv, Bisecting
  <2> QED
    BY <2>1 DEF SqrtInv
<1>2. ASSUME Bisecting PROVE Mid * Mid <= MaxWord
  <2>1. Mid \in Nat /\ SqrtBound - 1 \in Nat /\ Mid <= SqrtBound - 1
    BY <1>2, MidBetween, SqrtBoundAssumption DEF SqrtInv
  <2>2. Mid * Mid <= (SqrtBound - 1) * (SqrtBound - 1)
    BY <2>1, SquaresGrow
  <2>3. /\ Mid * Mid \in Int /\ (SqrtBound - 1) * (SqrtBound - 1) \in Int /\ MaxWord \in Int
        /\ (SqrtBound - 1) * (SqrtBound - 1) <= MaxWord
    BY <2>1, SqrtBoundAssumption
  <2> HIDE DEF Mid
  <2> QED
    BY <2>2, <2>3
<1> QED
  BY <1>1, <1>2 DEF SqrtFloor

(* Math.sqrt gives the integer part of the square root of every word that   *)
(* is not negative, and its loop's squares never overflow: the bound 46341 *)
(* is the least that is too great for words of 32 bits.                    *)
THEOREM SquareRoot == SqrtSpec => []SqrtFloor
<1>1. SqrtInit => SqrtInv
  <2>1. ASSUME NEW x \in 0..MaxWord, radicand = x, low = 0, high = SqrtBound PROVE SqrtInv
    <3>1. 0 * 0 <= x /\ x < SqrtBound * SqrtBound
      BY SqrtBoundAssumption
    <3> QED
      BY <2>1, <3>1, SqrtBoundAssumption DEF SqrtInv
  <2> QED
    BY <2>1 DEF SqrtInit
<1>2. SqrtInv /\ [SqrtNext]_sqrtVars => SqrtInv'
  <2>1. SqrtInv /\ SqrtNext => SqrtInv'
    BY BisectKeeps, StartKeeps DEF SqrtNext
  <2>2. SqrtInv /\ UNCHANGED sqrtVars => SqrtInv'
    BY DEF SqrtInv, sqrtVars
  <2> QED
    BY <2>1, <2>2
<1> QED
  BY <1>1, <1>2, InvariantSuffices, PTL DEF SqrtSpec

-----------------------------------------------------------------------------
(* Lines *)

(* s is in the rectangle whose corners p and q are.                         *)
InBox(s, p, q) ==
  /\ Between(s.x, p.x, q.x) \/ Between(s.x, q.x, p.x)
  /\ Between(s.y, p.y, q.y) \/ Between(s.y, q.y, p.y)

OnLine(s, p, q) == InBox(s, p, q) /\ HalfAPixelFrom(s, p, q)

(* How far s is off the straight line, measured in steps.                   *)
Deviation(s, p, q) == Abs(s.y - p.y) * Abs(q.x - p.x) - Abs(s.x - p.x) * Abs(q.y - p.y)

ErrAt(s, p, q) == Deviation(s, p, q) + Abs(q.x - p.x) - Abs(q.y - p.y)

(* The round of drawLine's loop in numbers: i of l steps made along the     *)
(* longer side and j of s along the other one.                             *)
LEMMA Round ==
  ASSUME NEW l \in Nat, NEW s \in Nat, s <= l, NEW i \in 0..l, NEW j \in 0..s, ~ (i = l /\ j = s),
         NEW d \in Int, d = j * l - i * s, 2 * d <= l, -l <= 2 * d,
         NEW e \in Int, e = d + l - s
  PROVE  /\ i < l /\ e + e > -s
         /\ e + e < l => j < s /\ 2 * e <= l /\ -l <= 2 * e
         /\ ~ (e + e < l) => 2 * (d - s) <= l /\ -l <= 2 * (d - s)
<1>1. l > 0
  OBVIOUS
<1>2. i < l
  <2>1. SUFFICES ASSUME i = l, j < s PROVE FALSE
    OBVIOUS
  <2>2. PICK k \in Nat : s - j = k
    OBVIOUS
  <2>3. d = -(k * l) /\ k >= 1
    BY <2>1, <2>2
  <2>4. k * l >= l
    BY <1>1, <2>3
  <2> QED
    BY <1>1, <2>3, <2>4
<1>3. e + e > -s
  <2>1. SUFFICES ASSUME s = l, 2 * d = -l PROVE FALSE
    OBVIOUS
  <2>2. PICK k \in Int : k = j - i
    OBVIOUS
  <2>3. d = k * l
    BY <2>1, <2>2
  <2>4. k >= 0 \/ k <= -1
    OBVIOUS
  <2>5. k >= 0 => k * l >= 0
    BY <1>1
  <2>6. k <= -1 => k * l <= -l
    BY <1>1
  <2> QED
    BY <1>1, <2>1, <2>3, <2>4, <2>5, <2>6
<1>4. e + e < l => j < s
  <2>1. SUFFICES ASSUME e + e < l, j = s PROVE FALSE
    OBVIOUS
  <2>2. PICK k \in Nat : l - i = k
    OBVIOUS
  <2>3. d = k * s /\ k >= 1
    BY <1>2, <2>1, <2>2
  <2>4. k * s >= s
    BY <2>3
  <2> QED
    BY <1>1, <2>1, <2>3, <2>4
<1> QED
  BY <1>1, <1>2, <1>3, <1>4

(* A side of a line's rectangle                                             *)
LEMMA OneSide ==
  ASSUME NEW p \in Int, NEW q \in Int, NEW s \in Int,
         Between(s, p, q) \/ Between(s, q, p)
  PROVE  /\ Abs(s - p) \in 0..Abs(q - p) /\ Abs(q - p) \in Nat
         /\ s - p = Sign(q - p) * Abs(s - p)
         /\ q - p = Sign(q - p) * Abs(q - p)
         /\ Sign(q - p) \in {-1, 1}
         /\ Abs(s - p) = Abs(q - p) <=> s = q
         /\ Abs(s - p) = 0 <=> s = p
         /\ Abs(s - p) < Abs(q - p) =>
              /\ Between(s + Sign(q - p), p, q) \/ Between(s + Sign(q - p), q, p)
              /\ Abs(s + Sign(q - p) - p) = Abs(s - p) + 1
  BY DEF Between, Abs, Sign

LEMMA PixelsAreInt ==
  ASSUME NEW p \in Pixels
  PROVE  p \in [x : Int, y : Int] /\ p.x \in Int /\ p.y \in Int /\ p.x >= 0 /\ p.y >= 0
           /\ p.x < Width /\ p.y < Height
  BY ShapesAssumption DEF Pixels

LEMMA AlongIs ==
  ASSUME NEW s, NEW p, NEW q
  PROVE  /\ Abs(q.x - p.x) >= Abs(q.y - p.y) => Along(s, p, q) = Abs(s.x - p.x)
         /\ ~ (Abs(q.x - p.x) >= Abs(q.y - p.y)) => Along(s, p, q) = Abs(s.y - p.y)
  BY DEF Along, LongerSide

LEMMA NearIs ==
  ASSUME NEW p \in Pixels, NEW q \in Pixels, NEW s \in Pixels, InBox(s, p, q)
  PROVE  HalfAPixelFrom(s, p, q) <=> 2 * Abs(Deviation(s, p, q)) <= Along(q, p, q)
<1>1. /\ p.x \in Int /\ p.y \in Int /\ q.x \in Int /\ q.y \in Int /\ s.x \in Int /\ s.y \in Int
  BY PixelsAreInt
<1>2. PICK u, v, a, b, c, d :
        /\ u = Sign(q.x - p.x) /\ v = Sign(q.y - p.y)
        /\ a = Abs(s.x - p.x) /\ b = Abs(s.y - p.y) /\ c = Abs(q.x - p.x) /\ d = Abs(q.y - p.y)
  OBVIOUS
<1>3. /\ u \in {-1, 1} /\ v \in {-1, 1} /\ a \in Int /\ b \in Int /\ c \in Int /\ d \in Int
      /\ s.x - p.x = u * a /\ q.x - p.x = u * c /\ s.y - p.y = v * b /\ q.y - p.y = v * d
  <2>1. /\ u \in {-1, 1} /\ a \in Int /\ c \in Int /\ s.x - p.x = u * a /\ q.x - p.x = u * c
    BY <1>1, <1>2, OneSide DEF InBox
  <2>2. /\ v \in {-1, 1} /\ b \in Int /\ d \in Int /\ s.y - p.y = v * b /\ q.y - p.y = v * d
    BY <1>1, <1>2, OneSide DEF InBox
  <2> QED
    BY <2>1, <2>2
<1>4. PICK e, f, g, h :
        /\ e = s.x - p.x /\ f = q.x - p.x /\ g = s.y - p.y /\ h = q.y - p.y
  OBVIOUS
<1>5. /\ e \in Int /\ f \in Int /\ g \in Int /\ h \in Int
      /\ e = u * a /\ f = u * c /\ g = v * b /\ h = v * d
  BY <1>1, <1>3, <1>4
<1>6. Abs(e * h - g * f) = Abs(b * c - a * d)
  <2>1. PICK m, n : m = b * c /\ n = a * d
    OBVIOUS
  <2>2. m \in Int /\ n \in Int
    BY <1>3, <2>1
  <2>3. e * h - g * f = n - m \/ e * h - g * f = m - n
    BY <1>3, <1>5, <2>1
  <2> QED
    BY <2>1, <2>2, <2>3 DEF Abs
<1> QED
  BY <1>2, <1>4, <1>6 DEF HalfAPixelFrom, Deviation

(* Of the points of a line's rectangle only its ends are at the ends of the *)
(* longer side, and the loop ends nowhere else.                            *)
LEMMA Ends ==
  ASSUME NEW p \in Pixels, NEW q \in Pixels, NEW s \in Pixels, OnLine(s, p, q)
  PROVE  /\ Along(s, p, q) \in 0..Along(q, p, q) /\ Along(q, p, q) \in Nat
         /\ Along(s, p, q) = 0 => s = p
         /\ Along(s, p, q) = Along(q, p, q) => s = q
<1>1. /\ p.x \in Int /\ p.y \in Int /\ q.x \in Int /\ q.y \in Int /\ s.x \in Int /\ s.y \in Int
  BY PixelsAreInt
<1>2. /\ s.x = p.x /\ s.y = p.y => s = p
      /\ s.x = q.x /\ s.y = q.y => s = q
  BY DEF Pixels
<1>3. PICK a, b, c, d :
        /\ a = Abs(s.x - p.x) /\ b = Abs(s.y - p.y) /\ c = Abs(q.x - p.x) /\ d = Abs(q.y - p.y)
  OBVIOUS
<1>4. /\ a \in 0..c /\ c \in Nat /\ (a = c <=> s.x = q.x) /\ (a = 0 <=> s.x = p.x)
      /\ b \in 0..d /\ d \in Nat /\ (b = d <=> s.y = q.y) /\ (b = 0 <=> s.y = p.y)
  <2>1. /\ a \in 0..c /\ c \in Nat /\ (a = c <=> s.x = q.x) /\ (a = 0 <=> s.x = p.x)
    BY <1>1, <1>3, OneSide DEF OnLine, InBox
  <2>2. /\ b \in 0..d /\ d \in Nat /\ (b = d <=> s.y = q.y) /\ (b = 0 <=> s.y = p.y)
    BY <1>1, <1>3, OneSide DEF OnLine, InBox
  <2> QED
    BY <2>1, <2>2
<1>5. PICK l \in Nat : l = Along(q, p, q)
  BY <1>3, <1>4, AlongIs
<1>6. 2 * (b * c - a * d) <= l /\ -l <= 2 * (b * c - a * d)
  <2>1. 2 * Abs(Deviation(s, p, q)) <= l
    BY <1>5, NearIs DEF OnLine
  <2> QED
    BY <1>3, <1>4, <2>1 DEF Deviation, Abs
<1>7. CASE c >= d
  <2>1. l = c /\ Along(s, p, q) = a
    BY <1>3, <1>5, <1>7, AlongIs
  <2>2. ASSUME a = 0 PROVE b = 0
    <3>1. 2 * (b * c) <= c
      BY <1>4, <1>6, <2>1, <2>2
    <3>2. b >= 1 => b * c >= c
      BY <1>4
    <3>3. b >= 1 /\ c >= 1 => FALSE
      BY <1>4, <3>1, <3>2
    <3> QED
      BY <1>4, <1>7, <3>3
  <2>3. ASSUME a = c PROVE b = d
    <3>1. PICK k \in Nat : k = d - b
      BY <1>4
    <3>2. b * c - a * d = -(k * c)
      BY <1>4, <2>3, <3>1
    <3>3. k >= 1 => k * c >= c
      BY <1>4
    <3>4. k * c \in Int
      BY <1>4
    <3>5. k >= 1 /\ c >= 1 => FALSE
      BY <1>4, <1>6, <2>1, <3>2, <3>3, <3>4
    <3> QED
      BY <1>4, <1>7, <3>1, <3>5
  <2> QED
    BY <1>2, <1>4, <1>5, <2>1, <2>2, <2>3
<1>8. CASE ~ (c >= d)
  <2>1. l = d /\ Along(s, p, q) = b
    BY <1>3, <1>5, <1>8, AlongIs
  <2>2. ASSUME b = 0 PROVE a = 0
    <3>1. 2 * (a * d) <= d
      BY <1>4, <1>6, <2>1, <2>2
    <3>2. a >= 1 => a * d >= d
      BY <1>4
    <3> QED
      BY <1>4, <1>8, <3>1, <3>2
  <2>3. ASSUME b = d PROVE a = c
    <3>1. PICK k \in Nat : k = c - a
      BY <1>4
    <3>2. b * c - a * d = k * d
      BY <1>4, <2>3, <3>1
    <3>3. k >= 1 => k * d >= d
      BY <1>4
    <3>4. k * d \in Int
      BY <1>4
    <3> QED
      BY <1>4, <1>6, <1>8, <2>1, <3>1, <3>2, <3>3, <3>4
  <2> QED
    BY <1>2, <1>4, <1>5, <2>1, <2>2, <2>3
<1> QED
  BY <1>7, <1>8

(* Where a round of the loop moves the pen to                               *)
Moved(s, e, p, q) ==
  [x |-> IF e + e > -Abs(q.y - p.y) THEN s.x + Sign(q.x - p.x) ELSE s.x,
   y |-> IF e + e < Abs(q.x - p.x) THEN s.y + Sign(q.y - p.y) ELSE s.y]

LEMMA MovedAlong ==
  ASSUME NEW p \in Pixels, NEW q \in Pixels, NEW s \in Pixels, OnLine(s, p, q), s # q,
         NEW e \in Int, e = ErrAt(s, p, q), NEW t, t = Moved(s, e, p, q)
  PROVE  /\ t \in Pixels /\ OnLine(t, p, q)
         /\ Along(t, p, q) = Along(s, p, q) + 1
         /\ ErrAt(t, p, q) = e - (IF e + e > -Abs(q.y - p.y) THEN Abs(q.y - p.y) ELSE 0)
                               + (IF e + e < Abs(q.x - p.x) THEN Abs(q.x - p.x) ELSE 0)
<1>1. /\ p.x \in Int /\ p.y \in Int /\ q.x \in Int /\ q.y \in Int /\ s.x \in Int /\ s.y \in Int
  BY PixelsAreInt
<1>2. ~ (s.x = q.x /\ s.y = q.y)
  BY DEF Pixels
<1>3. PICK a, b, c, d, u, v :
        /\ a = Abs(s.x - p.x) /\ b = Abs(s.y - p.y) /\ c = Abs(q.x - p.x) /\ d = Abs(q.y - p.y)
        /\ u = Sign(q.x - p.x) /\ v = Sign(q.y - p.y)
  OBVIOUS
<1>4. /\ a \in 0..c /\ c \in Nat /\ (a = c <=> s.x = q.x) /\ u \in {-1, 1}
      /\ a < c => /\ Between(s.x + u, p.x, q.x) \/ Between(s.x + u, q.x, p.x)
                  /\ Abs(s.x + u - p.x) = a + 1
  BY <1>1, <1>3, OneSide DEF OnLine, InBox
<1>5. /\ b \in 0..d /\ d \in Nat /\ (b = d <=> s.y = q.y) /\ v \in {-1, 1}
      /\ b < d => /\ Between(s.y + v, p.y, q.y) \/ Between(s.y + v, q.y, p.y)
                  /\ Abs(s.y + v - p.y) = b + 1
  BY <1>1, <1>3, OneSide DEF OnLine, InBox
<1>6. PICK l \in Nat : l = Along(q, p, q)
  BY <1>3, <1>4, <1>5, AlongIs
<1>7. PICK dev \in Int : dev = b * c - a * d
  BY <1>4, <1>5
<1>8. e = dev + c - d
  BY <1>3, <1>7 DEF ErrAt, Deviation
<1>9. 2 * dev <= l /\ -l <= 2 * dev
  <2>1. 2 * Abs(Deviation(s, p, q)) <= l
    BY <1>6, NearIs DEF OnLine
  <2>2. Deviation(s, p, q) = dev
    BY <1>3, <1>7 DEF Deviation
  <2> QED
    BY <2>1, <2>2 DEF Abs
<1>10. t = [x |-> IF e + e > -d THEN s.x + u ELSE s.x, y |-> IF e + e < c THEN s.y + v ELSE s.y]
  BY <1>3 DEF Moved
<1>11. /\ e + e > -d => a < c
       /\ e + e < c => b < d
       /\ c >= d => e + e > -d
       /\ ~ (c >= d) => e + e < c
       /\ LET f == e - (IF e + e > -d THEN d ELSE 0) + (IF e + e < c THEN c ELSE 0)
          IN  2 * (f - c + d) <= l /\ -l <= 2 * (f - c + d)
  <2>1. CASE c >= d
    <3>1. l = c
      BY <1>3, <1>6, <2>1, AlongIs
    <3>2. ~ (a = c /\ b = d) /\ d <= c
      BY <1>2, <1>4, <1>5, <2>1
    <3>3. /\ a < c /\ e + e > -d
          /\ e + e < c => b < d /\ 2 * e <= c /\ -c <= 2 * e
          /\ ~ (e + e < c) => 2 * (dev - d) <= c /\ -c <= 2 * (dev - d)
      BY <1>4, <1>5, <1>7, <1>8, <1>9, <3>1, <3>2, Round
    <3> QED
      BY <1>4, <1>5, <1>8, <2>1, <3>1, <3>3
  <2>2. CASE ~ (c >= d)
    <3>1. l = d
      BY <1>3, <1>6, <2>2, AlongIs
    <3>2. ~ (b = d /\ a = c) /\ c <= d
      BY <1>2, <1>4, <1>5, <2>2
    <3>3. PICK f \in Int, m \in Int : f = -e /\ m = -dev
      OBVIOUS
    <3>4. m = a * d - b * c /\ f = m + d - c /\ 2 * m <= d /\ -d <= 2 * m
      BY <1>4, <1>5, <1>7, <1>8, <1>9, <3>1, <3>3
    <3>5. /\ b < d /\ f + f > -c
          /\ f + f < d => a < c /\ 2 * f <= d /\ -d <= 2 * f
          /\ ~ (f + f < d) => 2 * (m - c) <= d /\ -d <= 2 * (m - c)
      BY <1>4, <1>5, <3>2, <3>4, Round
    <3> QED
      BY <1>4, <1>5, <1>8, <2>2, <3>1, <3>3, <3>5
  <2> QED
    BY <2>1, <2>2
<1>12. PICK a1, b1 :
         /\ a1 = (IF e + e > -d THEN a + 1 ELSE a)
         /\ b1 = (IF e + e < c THEN b + 1 ELSE b)
  OBVIOUS
<1>13. /\ t.x \in Int /\ Abs(t.x - p.x) = a1
       /\ Between(t.x, p.x, q.x) \/ Between(t.x, q.x, p.x)
  BY <1>1, <1>3, <1>4, <1>10, <1>11, <1>12 DEF OnLine, InBox
<1>14. /\ t.y \in Int /\ Abs(t.y - p.y) = b1
       /\ Between(t.y, p.y, q.y) \/ Between(t.y, q.y, p.y)
  BY <1>1, <1>3, <1>5, <1>10, <1>11, <1>12 DEF OnLine, InBox
<1>15. t \in Pixels
  <2>1. t.x \in 0..(Width - 1) /\ t.y \in 0..(Height - 1)
    BY <1>1, <1>13, <1>14, PixelsAreInt, ShapesAssumption DEF Between
  <2> QED
    BY <1>10, <2>1 DEF Pixels
<1>16. b1 * c - a1 * d + c - d = e - (IF e + e > -d THEN d ELSE 0) + (IF e + e < c THEN c ELSE 0)
  <2>1. b1 * c = b * c + (IF e + e < c THEN c ELSE 0) /\ b * c \in Int
    BY <1>4, <1>5, <1>12
  <2>2. a1 * d = a * d + (IF e + e > -d THEN d ELSE 0) /\ a * d \in Int
    BY <1>4, <1>5, <1>12
  <2> QED
    BY <1>4, <1>5, <1>7, <1>8, <2>1, <2>2
<1>17. ErrAt(t, p, q) = e - (IF e + e > -d THEN d ELSE 0) + (IF e + e < c THEN c ELSE 0)
  BY <1>3, <1>13, <1>14, <1>16 DEF ErrAt, Deviation
<1>18. OnLine(t, p, q)
  <2>1. InBox(t, p, q)
    BY <1>13, <1>14 DEF InBox
  <2>2. PICK g : g = Deviation(t, p, q)
    OBVIOUS
  <2>3. g = b1 * c - a1 * d
    BY <1>3, <1>13, <1>14, <2>2 DEF Deviation
  <2>4. g \in Int
    BY <1>4, <1>5, <1>12, <2>3
  <2>5. 2 * g <= l /\ -l <= 2 * g
    BY <1>4, <1>5, <1>11, <1>16, <2>3, <2>4
  <2>6. 2 * Abs(g) <= l
    BY <2>4, <2>5 DEF Abs
  <2> QED
    BY <1>6, <1>15, <2>1, <2>2, <2>6, NearIs DEF OnLine
<1>19. Along(t, p, q) = Along(s, p, q) + 1
  <2>1. CASE c >= d
    BY <1>3, <1>11, <1>12, <1>13, <2>1, AlongIs
  <2>2. CASE ~ (c >= d)
    BY <1>3, <1>11, <1>12, <1>14, <2>2, AlongIs
  <2> QED
    BY <2>1, <2>2
<1> QED
  BY <1>3, <1>15, <1>17, <1>18, <1>19

(* The points a line has been given before the pen came to s                *)
Trail(T, s, p, q) ==
  /\ T \subseteq Pixels
  /\ \A t \in T : OnLine(t, p, q) /\ Along(t, p, q) < Along(s, p, q)
  /\ \A i \in 0..(Along(s, p, q) - 1) : \E t \in T : Along(t, p, q) = i
  /\ \A t, t2 \in T : Along(t, p, q) = Along(t2, p, q) => t = t2

LEMMA AtStart ==
  ASSUME NEW p \in Pixels, NEW q \in Pixels
  PROVE  OnLine(p, p, q) /\ Trail({}, p, p, q)
           /\ ErrAt(p, p, q) = Abs(q.x - p.x) - Abs(q.y - p.y)
<1>1. /\ p.x \in Int /\ p.y \in Int /\ q.x \in Int /\ q.y \in Int
  BY PixelsAreInt
<1>2. InBox(p, p, q)
  BY <1>1 DEF InBox, Between
<1>3. p.x - p.x = 0 /\ p.y - p.y = 0 /\ Abs(0) = 0
  BY <1>1 DEF Abs
<1>4. PICK c, d : c = Abs(q.x - p.x) /\ d = Abs(q.y - p.y)
  OBVIOUS
<1>5. c \in Nat /\ d \in Nat
  BY <1>1, <1>4 DEF Abs
<1>6. Deviation(p, p, q) = 0 /\ ErrAt(p, p, q) = c - d
  BY <1>3, <1>4, <1>5 DEF Deviation, ErrAt
<1>7. Along(q, p, q) \in Nat /\ Along(p, p, q) = 0
  BY <1>3, <1>4, <1>5, AlongIs
<1>8. HalfAPixelFrom(p, p, q)
  BY <1>2, <1>3, <1>6, <1>7, NearIs
<1>9. Trail({}, p, p, q)
  BY <1>7 DEF Trail
<1> QED
  BY <1>2, <1>4, <1>6, <1>8, <1>9 DEF OnLine

LEMMA TrailGrows ==
  ASSUME NEW p \in Pixels, NEW q \in Pixels, NEW s \in Pixels, OnLine(s, p, q), NEW t,
         Along(t, p, q) = Along(s, p, q) + 1, NEW T, Trail(T, s, p, q)
  PROVE  Trail(T \cup {s}, t, p, q)
<1>1. PICK n \in Nat : n = Along(s, p, q)
  BY Ends
<1>2. \A a \in T : Along(a, p, q) \in Nat
  BY Ends DEF Trail
<1>3. \A a \in T \cup {s} : OnLine(a, p, q) /\ Along(a, p, q) < n + 1
  BY <1>1, <1>2 DEF Trail
<1>4. ASSUME NEW i \in 0..(n + 1 - 1) PROVE \E a \in T \cup {s} : Along(a, p, q) = i
  <2>1. i \in 0..(n - 1) \/ i = n
    BY <1>1
  <2> QED
    BY <1>1, <2>1 DEF Trail
<1>5. \A a, b \in T \cup {s} : Along(a, p, q) = Along(b, p, q) => a = b
  BY <1>1, <1>2 DEF Trail
<1>6. Along(t, p, q) = n + 1
  BY <1>1
<1> QED
  BY <1>3, <1>4, <1>5, <1>6 DEF Trail

(* A trail that has come to the end of the line                             *)
LEMMA WholeTrail ==
  ASSUME NEW p \in Pixels, NEW q \in Pixels, NEW T, Trail(T, q, p, q)
  PROVE  /\ StraightLine(T \cup {q}, p, q) /\ T \cup {q} \subseteq Pixels
         /\ \A s \in T \cup {q} : InBox(s, p, q)
<1>1. OnLine(q, p, q)
  <2>1. /\ p.x \in Int /\ p.y \in Int /\ q.x \in Int /\ q.y \in Int
    BY PixelsAreInt
  <2>2. InBox(q, p, q)
    BY <2>1 DEF InBox, Between
  <2>3. PICK c, d : c = Abs(q.x - p.x) /\ d = Abs(q.y - p.y)
    OBVIOUS
  <2>4. c \in Nat /\ d \in Nat
    BY <2>1, <2>3 DEF Abs
  <2>5. d * c - c * d = 0 /\ Abs(0) = 0
    BY <2>4 DEF Abs
  <2>6. Abs(Deviation(q, p, q)) = 0
    BY <2>3, <2>5 DEF Deviation
  <2>7. Along(q, p, q) \in Nat
    BY <2>3, <2>4, AlongIs
  <2> QED
    BY <2>2, <2>6, <2>7, NearIs DEF OnLine
<1>2. PICK n \in Nat : n = Along(q, p, q)
  BY <1>1, Ends
<1>3. \A a \in T \cup {q} : a \in Pixels /\ OnLine(a, p, q) /\ Along(a, p, q) \in 0..n
  BY <1>1, <1>2, Ends DEF Trail
<1>4. \A i \in 0..n : \E a \in T \cup {q} : Along(a, p, q) = i
  <2>1. \A i \in 0..n : i \in 0..(n - 1) \/ i = n
    BY <1>2
  <2> QED
    BY <1>2, <2>1 DEF Trail
<1>5. \A a, b \in T \cup {q} : Along(a, p, q) = Along(b, p, q) => a = b
  BY <1>2, <1>3 DEF Trail
<1>6. p \in T \cup {q}
  <2>1. PICK a \in T \cup {q} : Along(a, p, q) = 0
    BY <1>2, <1>4
  <2> QED
    BY <1>3, <2>1, Ends
<1>7. {Along(a, p, q) : a \in T \cup {q}} = 0..n
  BY <1>3, <1>4
<1> QED
  BY <1>2, <1>3, <1>5, <1>6, <1>7 DEF StraightLine, OnLine

(* ... is all of a row, if the line is one.                                 *)
LEMMA WholeRow ==
  ASSUME NEW p \in Pixels, NEW q \in Pixels, p.y = q.y, NEW T, Trail(T, q, p, q)
  PROVE  T \cup {q} = {s \in Pixels : s.y = p.y /\ (Between(s.x, p.x, q.x) \/ Between(s.x, q.x, p.x))}
<1>1. /\ p.x \in Int /\ p.y \in Int /\ q.x \in Int /\ q.y \in Int
  BY PixelsAreInt
<1>2. \A s \in T \cup {q} : s \in Pixels /\ InBox(s, p, q)
  BY WholeTrail
<1>3. ASSUME NEW s \in T \cup {q} PROVE s.y = p.y /\ (Between(s.x, p.x, q.x) \/ Between(s.x, q.x, p.x))
  <2>1. s.y \in Int
    BY <1>2, PixelsAreInt
  <2> QED
    BY <1>1, <1>2, <2>1 DEF InBox, Between
<1>4. ASSUME NEW s \in Pixels, s.y = p.y, Between(s.x, p.x, q.x) \/ Between(s.x, q.x, p.x)
      PROVE  s \in T \cup {q}
  <2>1. Abs(q.x - p.x) >= Abs(q.y - p.y)
    BY <1>1 DEF Abs
  <2>2. \A a : Along(a, p, q) = Abs(a.x - p.x)
    BY <2>1, AlongIs
  <2>3. s.x \in Int
    BY PixelsAreInt
  <2>4. Abs(s.x - p.x) \in 0..Abs(q.x - p.x)
    BY <1>1, <1>4, <2>3, OneSide
  <2>5. PICK a \in T \cup {q} : Abs(a.x - p.x) = Abs(s.x - p.x)
    <3>1. {Along(a, p, q) : a \in T \cup {q}} = 0..Along(q, p, q)
      BY WholeTrail DEF StraightLine
    <3> QED
      BY <2>2, <2>4, <3>1
  <2>6. a.x \in Int /\ a \in Pixels
    BY <1>2, PixelsAreInt
  <2>7. a.y = s.y /\ (Between(a.x, p.x, q.x) \/ Between(a.x, q.x, p.x))
    BY <1>3, <1>4
  <2>8. a.x = s.x
    BY <1>1, <1>4, <2>3, <2>5, <2>6, <2>7 DEF Abs, Between
  <2>9. a = s
    BY <2>6, <2>7, <2>8 DEF Pixels
  <2> QED
    BY <2>9
<1> QED
  BY <1>2, <1>3, <1>4

-----------------------------------------------------------------------------
(* Pixels and words *)

Addresses(S) == {Address(s.x, s.y) : s \in S}

LEMMA Products ==
  ASSUME NEW w \in Nat, NEW a \in Int, NEW b \in Int, a < b
  PROVE  a * w + w <= b * w
<1>1. PICK k \in Nat : b = a + 1 + k
  <2>1. b - a - 1 \in Nat /\ b = a + 1 + (b - a - 1)
    OBVIOUS
  <2> QED
    BY <2>1
<1>2. b * w = a * w + w + k * w /\ k * w >= 0 /\ a * w \in Int /\ k * w \in Int
  BY <1>1
<1> QED
  BY <1>2

(* No word is two pixels.                                                   *)
LEMMA OnePixelPerWord ==
  ASSUME NEW s \in Pixels, NEW t \in Pixels, Address(s.x, s.y) = Address(t.x, t.y)
  PROVE  s = t
<1>1. PICK a, b, c, d : a = s.x /\ b = s.y /\ c = t.x /\ d = t.y
  OBVIOUS
<1>2. /\ a \in 0..(Width - 1) /\ c \in 0..(Width - 1) /\ b \in Int /\ d \in Int /\ Width \in Nat
      /\ b * Width + a = d * Width + c
  BY <1>1, PixelsAreInt, ShapesAssumption DEF Pixels, Address
<1>3. b < d => b * Width + Width <= d * Width
  BY <1>2, Products
<1>4. d < b => d * Width + Width <= b * Width
  BY <1>2, Products
<1>5. b = d
  BY <1>2, <1>3, <1>4
<1>6. a = c
  BY <1>2, <1>5
<1>7. s.x = t.x /\ s.y = t.y
  BY <1>1, <1>5, <1>6
<1> QED
  BY <1>7 DEF Pixels

LEMMA PaintedAre ==
  ASSUME NEW S \in SUBSET Pixels, painted = Addresses(S)
  PROVE  PaintedPixels = S /\ painted = {Address(p.x, p.y) : p \in PaintedPixels}
<1>1. ASSUME NEW p \in Pixels, Address(p.x, p.y) \in painted PROVE p \in S
  <2>1. PICK s \in S : Address(p.x, p.y) = Address(s.x, s.y)
    BY <1>1 DEF Addresses
  <2> QED
    BY <2>1, OnePixelPerWord
<1>2. \A p \in S : p \in Pixels /\ Address(p.x, p.y) \in painted
  BY DEF Addresses
<1>3. PaintedPixels = S
  BY <1>1, <1>2 DEF PaintedPixels
<1> QED
  BY <1>3 DEF Addresses

-----------------------------------------------------------------------------
(* Shapes *)

Circle == shape.kind = "circle"

FirstRow == IF Circle THEN - Lesser(Abs(shape.r), MaxRadius) ELSE shape.from.y

RowAt(n) == IF Circle THEN shape.center.y + n ELSE n

LineFrom ==
  IF shape.kind = "line" THEN shape.from
  ELSE IF Circle THEN [x |-> shape.center.x - low, y |-> RowAt(row)]
  ELSE [x |-> shape.from.x, y |-> RowAt(row)]

LineTo ==
  IF shape.kind = "line" THEN shape.to
  ELSE IF Circle THEN [x |-> shape.center.x + low, y |-> RowAt(row)]
  ELSE [x |-> shape.to.x, y |-> RowAt(row)]

Wanted == IF Circle THEN Disc(shape.center, shape.r) ELSE Rectangle(shape.from, shape.to)

Done == {s \in Wanted : shape.kind # "line" /\ s.y < RowAt(row)}

(* The root for the circle's row                                            *)
RowRoot == SqrtInv /\ radicand = shape.r * shape.r - row * row

(* What there is to know of a line before it is drawn                       *)
LineOfShape ==
  /\ shape.kind # "line" => FirstRow <= row /\ row <= LastRow
  /\ Circle => RowRoot /\ ~ Bisecting

LineInv ==
  /\ LineOfShape
  /\ goal = LineTo
  /\ slope = [dx |-> Abs(LineTo.x - LineFrom.x), dy |-> Abs(LineTo.y - LineFrom.y),
              sx |-> Sign(LineTo.x - LineFrom.x), sy |-> Sign(LineTo.y - LineFrom.y)]
  /\ pen \in Pixels /\ OnLine(pen, LineFrom, LineTo) /\ err = ErrAt(pen, LineFrom, LineTo)
  /\ \E T : Trail(T, pen, LineFrom, LineTo) /\ painted = Addresses(Done \cup T)

RowInv ==
  /\ shape.kind # "line"
  /\ FirstRow <= row
  /\ painted = Addresses(Done)

ShapeInv ==
  IF shape.kind = "line"
  THEN \E T \in SUBSET Pixels : StraightLine(T, shape.from, shape.to) /\ painted = Addresses(T)
  ELSE painted = Addresses(Wanted)

Typed == shape \in Shapes /\ row \in Int

ScreenInv ==
  /\ Typed
  /\ drawing \in {"call", "row", "root", "line", "drawn"}
  /\ drawing = "call" => painted = {}
  /\ drawing = "row" => RowInv
  /\ drawing = "root" => RowInv /\ row <= LastRow /\ Circle /\ RowRoot
  /\ drawing = "line" => LineInv
  /\ drawing = "drawn" => ShapeInv

LEMMA ShapeTypes ==
  ASSUME NEW s \in Shapes
  PROVE  /\ s.kind \in {"line", "rectangle", "circle"}
         /\ s.kind # "circle" => s.from \in Pixels /\ s.to \in Pixels
         /\ s.kind = "circle" =>
              /\ s.center \in [x : Int, y : Int] /\ s.center.x \in Int /\ s.center.y \in Int
              /\ s.r \in Int /\ s.r * s.r <= MaxWord
              /\ s.center.x - Abs(s.r) \in 0..(Width - 1) /\ s.center.x + Abs(s.r) \in 0..(Width - 1)
              /\ s.center.y - Abs(s.r) \in 0..(Height - 1) /\ s.center.y + Abs(s.r) \in 0..(Height - 1)
<1>1. CASE s.kind = "circle"
  <2>1. /\ s.center \in [x : Int, y : Int] /\ s.r \in Int /\ s.r * s.r <= MaxWord
        /\ Corners(s.center, s.r) \subseteq Pixels
    BY <1>1, ShapesAssumption
  <2>2. PICK a : a = Abs(s.r)
    OBVIOUS
  <2>3. a \in Nat
    BY <2>1, <2>2 DEF Abs
  <2>4. /\ [x |-> s.center.x + a, y |-> s.center.y + a] \in Pixels
        /\ [x |-> s.center.x + (-a), y |-> s.center.y + (-a)] \in Pixels
    BY <2>1, <2>2 DEF Corners
  <2>5. /\ s.center.x + a \in 0..(Width - 1) /\ s.center.y + a \in 0..(Height - 1)
        /\ s.center.x + (-a) \in 0..(Width - 1) /\ s.center.y + (-a) \in 0..(Height - 1)
    BY <2>4 DEF Pixels
  <2> QED
    BY <1>1, <2>1, <2>2, <2>3, <2>5
<1>2. CASE s.kind # "circle"
  BY <1>2, ShapesAssumption
<1> QED
  BY <1>1, <1>2

LEMMA SquaresOrder ==
  ASSUME NEW a \in Nat, NEW b \in Nat
  PROVE  a * a <= b * b <=> a <= b
<1>1. a <= b => a * a <= b * b
  BY SquaresGrow
<1>2. b < a => b * b < a * a
  <2>1. b < a => b * b <= a * b /\ a * b < a * a
    OBVIOUS
  <2> QED
    BY <2>1
<1> QED
  BY <1>1, <1>2

LEMMA SquareOfAbs ==
  ASSUME NEW a \in Int
  PROVE  a * a = Abs(a) * Abs(a) /\ Abs(a) \in Nat
  BY DEF Abs

(* A circle's row is in the square around it.                               *)
LEMMA CircleRow ==
  ASSUME NEW r \in Int, NEW n \in Int, -Lesser(Abs(r), MaxRadius) <= n, n <= r
  PROVE  Abs(n) <= Abs(r) /\ r * r - n * n \in Nat /\ r * r - n * n <= r * r
<1>1. Abs(n) <= Abs(r)
  BY ShapesAssumption DEF Lesser, Abs
<1>2. n * n <= r * r /\ n * n >= 0 /\ n * n \in Int /\ r * r \in Int
  <2>1. Abs(n) * Abs(n) <= Abs(r) * Abs(r) /\ Abs(n) * Abs(n) >= 0
    <3>1. PICK i, k \in Nat : i = Abs(n) /\ k = Abs(r)
      BY SquareOfAbs
    <3>2. i * i <= k * k /\ i * i >= 0
      BY <1>1, <3>1, SquaresOrder
    <3> QED
      BY <3>1, <3>2
  <2> QED
    BY <2>1, SquareOfAbs
<1> QED
  BY <1>1, <1>2

LEMMA RootInside ==
  ASSUME Typed, Circle, FirstRow <= row, row <= LastRow, RowRoot
  PROVE  low \in Nat /\ low <= Abs(shape.r)
<1>1. PICK r, n, l, m : r = shape.r /\ n = row /\ l = low /\ m = radicand
  OBVIOUS
<1>2. r \in Int /\ n \in Int /\ -Lesser(Abs(r), MaxRadius) <= n /\ n <= r
  BY <1>1, ShapeTypes DEF Typed, Circle, FirstRow, LastRow
<1>3. l \in Nat /\ l * l <= m /\ m = r * r - n * n
  BY <1>1 DEF RowRoot, SqrtInv
<1>4. l * l <= r * r /\ l * l \in Int /\ r * r \in Int
  BY <1>2, <1>3, CircleRow
<1>5. l * l <= Abs(r) * Abs(r) /\ Abs(r) \in Nat
  BY <1>2, <1>4, SquareOfAbs
<1> QED
  BY <1>1, <1>3, <1>5, SquaresOrder

LEMMA LineEnds ==
  ASSUME Typed, LineOfShape
  PROVE  LineFrom \in Pixels /\ LineTo \in Pixels
<1>1. CASE shape.kind = "line"
  BY <1>1, ShapeTypes DEF Typed, LineFrom, LineTo
<1>2. CASE Circle
  <2>1. PICK c, r, n, l : c = shape.center /\ r = Abs(shape.r) /\ n = row /\ l = low
    OBVIOUS
  <2>2. l \in Nat /\ l <= r
    BY <1>2, <2>1, RootInside DEF LineOfShape, Circle
  <2>3. /\ c.x \in Int /\ c.y \in Int /\ shape.r \in Int /\ r \in Nat
        /\ c.x - r \in 0..(Width - 1) /\ c.x + r \in 0..(Width - 1)
        /\ c.y - r \in 0..(Height - 1) /\ c.y + r \in 0..(Height - 1)
    BY <1>2, <2>1, ShapeTypes, SquareOfAbs DEF Typed, Circle
  <2>4. n \in Int /\ -Lesser(r, MaxRadius) <= n /\ n <= shape.r
    BY <1>2, <2>1 DEF Typed, LineOfShape, Circle, FirstRow, LastRow
  <2>5. -r <= n /\ n <= r
    BY <2>1, <2>3, <2>4, ShapesAssumption DEF Lesser, Abs
  <2>6. c.x - l \in 0..(Width - 1) /\ c.x + l \in 0..(Width - 1) /\ c.y + n \in 0..(Height - 1)
    BY <2>2, <2>3, <2>4, <2>5, ShapesAssumption
  <2>7. LineFrom = [x |-> c.x - l, y |-> c.y + n] /\ LineTo = [x |-> c.x + l, y |-> c.y + n]
    BY <1>2, <2>1 DEF LineFrom, LineTo, RowAt, Circle
  <2> QED
    BY <2>6, <2>7 DEF Pixels
<1>3. CASE shape.kind = "rectangle"
  <2>1. shape.from \in Pixels /\ shape.to \in Pixels /\ row \in Int
    BY <1>3, ShapeTypes DEF Typed
  <2>2. shape.from.y <= row /\ row <= shape.to.y
    BY <1>3 DEF LineOfShape, FirstRow, LastRow, Circle
  <2>3. row \in 0..(Height - 1)
    BY <2>1, <2>2, ShapesAssumption DEF Pixels
  <2>4. LineFrom = [x |-> shape.from.x, y |-> row] /\ LineTo = [x |-> shape.to.x, y |-> row]
    BY <1>3 DEF LineFrom, LineTo, RowAt, Circle
  <2> QED
    BY <2>1, <2>3, <2>4 DEF Pixels
<1> QED
  BY <1>1, <1>2, <1>3, ShapeTypes DEF Typed, Circle

LEMMA WantedPixels == Wanted \subseteq Pixels
  BY DEF Wanted, Disc, Rectangle

(* The line through a row is what the shape has there.                      *)
LEMMA RowOfShape ==
  ASSUME Typed, LineOfShape, shape.kind # "line"
  PROVE  /\ LineFrom.y = LineTo.y
         /\ {s \in Wanted : s.y = RowAt(row)} =
              {s \in Pixels : s.y = LineFrom.y /\ (Between(s.x, LineFrom.x, LineTo.x)
                                                    \/ Between(s.x, LineTo.x, LineFrom.x))}
<1>1. CASE shape.kind = "rectangle"
  <2>1. LineFrom = [x |-> shape.from.x, y |-> row] /\ LineTo = [x |-> shape.to.x, y |-> row]
    BY <1>1 DEF LineFrom, LineTo, RowAt, Circle
  <2>2. Between(row, shape.from.y, shape.to.y) /\ RowAt(row) = row
    BY <1>1 DEF LineOfShape, FirstRow, LastRow, Circle, Between, RowAt
  <2>3. Wanted = Rectangle(shape.from, shape.to)
    BY <1>1 DEF Wanted, Circle
  <2> QED
    BY <2>1, <2>2, <2>3 DEF Rectangle
<1>2. CASE Circle
  <2>1. PICK c, r, n, l, m : c = shape.center /\ r = shape.r /\ n = row /\ l = low /\ m = radicand
    OBVIOUS
  <2>2. /\ l \in Nat /\ m = r * r - n * n /\ l * l <= m /\ m < (l + 1) * (l + 1)
    <3>1. RowRoot /\ ~ Bisecting
      BY <1>2 DEF LineOfShape
    <3>2. SqrtFloor
      BY <3>1, InvariantSuffices DEF RowRoot
    <3> QED
      BY <2>1, <3>1, <3>2 DEF RowRoot, SqrtInv, SqrtFloor
  <2>3. c.x \in Int /\ c.y \in Int /\ r \in Int /\ n \in Int
    BY <1>2, <2>1, ShapeTypes DEF Typed, Circle
  <2>4. Between(n, -Lesser(Abs(r), MaxRadius), r)
    BY <1>2, <2>1 DEF LineOfShape, FirstRow, LastRow, Circle, Between
  <2>5. LineFrom = [x |-> c.x - l, y |-> c.y + n] /\ LineTo = [x |-> c.x + l, y |-> c.y + n]
    BY <1>2, <2>1 DEF LineFrom, LineTo, RowAt, Circle
  <2>6. RowAt(row) = c.y + n /\ Wanted = Disc(c, r)
    BY <1>2, <2>1 DEF RowAt, Wanted
  <2>7. ASSUME NEW a \in Int PROVE a * a + n * n <= r * r <=> Abs(a) <= l
    <3>1. a * a <= m <=> Abs(a) * Abs(a) <= m
      BY SquareOfAbs
    <3>2. Abs(a) <= l => Abs(a) * Abs(a) <= l * l
      BY <2>2, SquareOfAbs, SquaresOrder
    <3>3. l + 1 <= Abs(a) => (l + 1) * (l + 1) <= Abs(a) * Abs(a)
      <4>1. l + 1 \in Nat
        BY <2>2
      <4> QED
        BY <4>1, SquareOfAbs, SquaresOrder
    <3>4. /\ Abs(a) \in Nat /\ a * a \in Int /\ n * n \in Int /\ r * r \in Int /\ m \in Int
          /\ Abs(a) * Abs(a) \in Int /\ l * l \in Int /\ (l + 1) * (l + 1) \in Int
      BY <2>2, <2>3, SquareOfAbs
    <3>5. Abs(a) <= l => Abs(a) * Abs(a) <= m
      BY <2>2, <3>2, <3>4
    <3>6. ~ (Abs(a) <= l) => m < Abs(a) * Abs(a)
      BY <2>2, <3>3, <3>4
    <3> QED
      BY <2>2, <3>1, <3>4, <3>5, <3>6
  <2>8. ASSUME NEW s \in Pixels, s.y = c.y + n
        PROVE  s \in Wanted <=> Between(s.x, c.x - l, c.x + l) \/ Between(s.x, c.x + l, c.x - l)
    <3>1. s.x \in Int /\ s.y - c.y = n
      BY <2>3, <2>8, PixelsAreInt
    <3>2. PICK a \in Int : a = s.x - c.x
      BY <2>3, <3>1
    <3>3. s \in Wanted <=> a * a + n * n <= r * r
      BY <2>4, <2>6, <3>1, <3>2 DEF Disc
    <3>4. s \in Wanted <=> Abs(a) <= l
      BY <2>7, <3>3
    <3>5. Abs(a) <= l <=> Between(s.x, c.x - l, c.x + l) \/ Between(s.x, c.x + l, c.x - l)
      BY <2>2, <2>3, <3>1, <3>2 DEF Abs, Between
    <3> QED
      BY <3>4, <3>5
  <2>9. LineFrom.y = c.y + n /\ LineTo.y = c.y + n /\ LineFrom.x = c.x - l /\ LineTo.x = c.x + l
    BY <2>5
  <2> QED
    BY <2>6, <2>8, <2>9, WantedPixels
<1> QED
  BY <1>1, <1>2, ShapeTypes DEF Typed, Circle

LEMMA RowsOfShape ==
  ASSUME Typed, shape.kind # "line"
  PROVE  /\ RowAt(row) \in Int /\ RowAt(row + 1) = RowAt(row) + 1
         /\ \A s \in Wanted : s.y \in Int /\ RowAt(FirstRow) <= s.y /\ s.y <= RowAt(LastRow)
         /\ FirstRow \in Int /\ LastRow \in Int
         /\ RowAt(FirstRow) \in Int /\ RowAt(LastRow) \in Int
         /\ \A k \in Int : k < row <=> RowAt(k) < RowAt(row)
<1>1. CASE shape.kind = "rectangle"
  <2>1. /\ shape.from \in Pixels /\ shape.to \in Pixels /\ row \in Int
    BY <1>1, ShapeTypes DEF Typed
  <2>2. /\ \A k : RowAt(k) = k
        /\ FirstRow = shape.from.y /\ LastRow = shape.to.y
        /\ Wanted = Rectangle(shape.from, shape.to)
    BY <1>1 DEF RowAt, FirstRow, LastRow, Wanted, Circle
  <2>3. \A s \in Wanted : s.y \in Int /\ shape.from.y <= s.y /\ s.y <= shape.to.y
    BY <2>2, PixelsAreInt DEF Rectangle, Between
  <2> QED
    BY <2>1, <2>2, <2>3, PixelsAreInt
<1>2. CASE Circle
  <2>1. PICK c, r, f : c = shape.center /\ r = shape.r /\ f = -Lesser(Abs(r), MaxRadius)
    OBVIOUS
  <2>2. c.y \in Int /\ r \in Int /\ row \in Int
    BY <1>2, <2>1, ShapeTypes DEF Typed, Circle
  <2>3. f \in Int
    BY <2>1, <2>2, ShapesAssumption DEF Lesser, Abs
  <2>4. /\ \A k : RowAt(k) = c.y + k
        /\ FirstRow = f /\ LastRow = r /\ Wanted = Disc(c, r)
    BY <1>2, <2>1 DEF RowAt, FirstRow, LastRow, Wanted, Circle
  <2>5. \A s \in Wanted : s.y \in Int /\ f <= s.y - c.y /\ s.y - c.y <= r
    BY <2>1, <2>4, PixelsAreInt DEF Disc, Between
  <2> QED
    BY <2>2, <2>3, <2>4, <2>5
<1> QED
  BY <1>1, <1>2, ShapeTypes DEF Typed, Circle

LEMMA NothingDone == Typed /\ shape.kind # "line" /\ row = FirstRow => Done = {}
<1> SUFFICES ASSUME Typed, shape.kind # "line", row = FirstRow, NEW s \in Wanted PROVE ~ (s.y < RowAt(row))
  BY DEF Done
<1> QED
  BY RowsOfShape

LEMMA AllDone == ASSUME Typed, shape.kind # "line", row > LastRow PROVE Done = Wanted
<1>1. RowAt(LastRow) < RowAt(row)
  BY RowsOfShape DEF Typed
<1> QED
  BY <1>1, RowsOfShape DEF Done

LEMMA EndsOfNext == Typed' /\ LineOfShape' => (LineFrom \in Pixels /\ LineTo \in Pixels)'
<1>1. Typed /\ LineOfShape => LineFrom \in Pixels /\ LineTo \in Pixels
  BY LineEnds
<1> QED
  BY <1>1, PTL

LEMMA NothingDoneNext == (Typed /\ shape.kind # "line" /\ row = FirstRow)' => (Done = {})'
  BY NothingDone, PTL

-----------------------------------------------------------------------------
(* Steps *)

LEMMA LineBegins ==
  ASSUME Typed', LineOfShape', NEW p, NEW q, p = LineFrom', q = LineTo', DrawLine(p, q),
         painted' = Addresses(Done')
  PROVE  LineInv'
<1>1. p \in Pixels /\ q \in Pixels
  BY EndsOfNext
<1>2. OnLine(p, p, q) /\ Trail({}, p, p, q) /\ ErrAt(p, p, q) = Abs(q.x - p.x) - Abs(q.y - p.y)
  BY <1>1, AtStart
<1>3. painted' = Addresses(Done' \cup {})
  OBVIOUS
<1> QED
  BY <1>1, <1>2, <1>3 DEF LineInv, DrawLine

LEMMA CallKeeps == ScreenInv /\ Call => ScreenInv'
<1> SUFFICES ASSUME ScreenInv, Call PROVE ScreenInv'
  OBVIOUS
<1>1. shape' = shape /\ painted' = {} /\ Typed
  BY DEF ScreenInv, Call
<1>2. CASE shape.kind = "line"
  <2>1. DrawLine(shape.from, shape.to) /\ row' = row
    BY <1>2 DEF Call
  <2>2. LineFrom' = shape.from /\ LineTo' = shape.to /\ LineOfShape' /\ Typed' /\ Done' = {}
    BY <1>1, <1>2, <2>1 DEF LineFrom, LineTo, LineOfShape, Typed, Done, Circle
  <2>3. painted' = Addresses(Done')
    BY <1>1, <2>2 DEF Addresses
  <2>4. LineInv'
    BY <2>1, <2>2, <2>3, LineBegins
  <2> QED
    BY <2>1, <2>2, <2>4 DEF ScreenInv, DrawLine
<1>3. CASE shape.kind # "line"
  <2>1. drawing' = "row" /\ row' = FirstRow /\ FirstRow' = FirstRow
    BY <1>1, <1>3, ShapeTypes DEF Call, FirstRow, Circle, Typed
  <2>2. FirstRow \in Int
    BY <1>1, <1>3, RowsOfShape
  <2>3. Typed' /\ (shape.kind # "line")' /\ row' = FirstRow'
    BY <1>1, <1>3, <2>1, <2>2 DEF Typed
  <2>4. Done' = {}
    BY <2>3, NothingDoneNext
  <2>5. RowInv'
    BY <1>1, <2>1, <2>2, <2>3, <2>4 DEF RowInv, Addresses
  <2> QED
    BY <2>1, <2>3, <2>5 DEF ScreenInv
<1> QED
  BY <1>2, <1>3

LEMMA RoundOfLine ==
  ASSUME ScreenInv, LineStep, NEW p, p = LineFrom, NEW q, q = LineTo, NEW s, s = pen, NEW t, t = pen'
  PROVE  /\ p \in Pixels /\ q \in Pixels /\ s \in Pixels /\ OnLine(s, p, q)
         /\ t \in Pixels /\ OnLine(t, p, q) /\ Along(t, p, q) = Along(s, p, q) + 1
         /\ err' = ErrAt(t, p, q)
<1>1. LineInv /\ Typed /\ pen # goal
  BY DEF ScreenInv, LineStep
<1>2. PICK e : e = err
  OBVIOUS
<1>3. /\ p \in Pixels /\ q \in Pixels /\ s \in Pixels /\ OnLine(s, p, q) /\ s # q
      /\ e = ErrAt(s, p, q)
      /\ slope = [dx |-> Abs(q.x - p.x), dy |-> Abs(q.y - p.y),
                  sx |-> Sign(q.x - p.x), sy |-> Sign(q.y - p.y)]
  BY <1>1, <1>2, LineEnds DEF LineInv
<1>4. e \in Int
  <2>1. /\ p.x \in Int /\ p.y \in Int /\ q.x \in Int /\ q.y \in Int /\ s.x \in Int /\ s.y \in Int
    BY <1>3, PixelsAreInt
  <2>2. \A k \in Int : Abs(k) \in Int
    BY DEF Abs
  <2> QED
    BY <1>3, <2>1, <2>2 DEF ErrAt, Deviation
<1>5. t = Moved(s, e, p, q)
  BY <1>2, <1>3 DEF LineStep, Moved, MovesAcross, MovesAlong
<1>6. /\ t \in Pixels /\ OnLine(t, p, q) /\ Along(t, p, q) = Along(s, p, q) + 1
      /\ ErrAt(t, p, q) = e - (IF e + e > -Abs(q.y - p.y) THEN Abs(q.y - p.y) ELSE 0)
                            + (IF e + e < Abs(q.x - p.x) THEN Abs(q.x - p.x) ELSE 0)
  BY <1>3, <1>4, <1>5, MovedAlong
<1>7. err' = ErrAt(t, p, q)
  BY <1>2, <1>3, <1>6 DEF LineStep, MovesAcross, MovesAlong
<1> QED
  BY <1>3, <1>6, <1>7

LEMMA LineStepKeeps == ScreenInv /\ LineStep => ScreenInv'
<1> SUFFICES ASSUME ScreenInv, LineStep PROVE ScreenInv'
  OBVIOUS
<1>1. /\ LineInv /\ Typed /\ drawing = "line" /\ drawing' = drawing
      /\ UNCHANGED <<sqrtVars, shape, row, goal, slope>>
  BY DEF ScreenInv, LineStep
<1>2. /\ Typed' = Typed /\ LineOfShape' = LineOfShape /\ LineFrom' = LineFrom /\ LineTo' = LineTo
      /\ Done' = Done
  BY <1>1 DEF Typed, LineOfShape, LineFrom, LineTo, Done, FirstRow, LastRow, Circle, RowRoot, SqrtInv,
     Bisecting, RowAt, Wanted, sqrtVars
<1>3. PICK p, q, s, t : p = LineFrom /\ q = LineTo /\ s = pen /\ t = pen'
  OBVIOUS
<1>4. /\ p \in Pixels /\ q \in Pixels /\ s \in Pixels /\ OnLine(s, p, q)
      /\ t \in Pixels /\ OnLine(t, p, q) /\ Along(t, p, q) = Along(s, p, q) + 1
      /\ err' = ErrAt(t, p, q)
  BY <1>3, RoundOfLine
<1>5. PICK T : Trail(T, s, p, q) /\ painted = Addresses(Done \cup T)
  BY <1>1, <1>3 DEF LineInv
<1>6. Trail(T \cup {s}, t, p, q)
  BY <1>4, <1>5, TrailGrows
<1>7. painted' = Addresses(Done \cup (T \cup {s}))
  BY <1>3, <1>5 DEF LineStep, DrawPixel, Addresses
<1>8. LineInv'
  BY <1>1, <1>2, <1>3, <1>4, <1>6, <1>7 DEF LineInv
<1> QED
  BY <1>1, <1>2, <1>8 DEF ScreenInv

LEMMA LineEndKeeps == ScreenInv /\ LineEnd => ScreenInv'
<1> SUFFICES ASSUME ScreenInv, LineEnd PROVE ScreenInv'
  OBVIOUS
<1>1. LineInv /\ Typed /\ LineOfShape /\ pen = goal /\ shape' = shape
  BY DEF ScreenInv, LineEnd, LineInv
<1>2. PICK p, q : p = LineFrom /\ q = LineTo
  OBVIOUS
<1>3. p \in Pixels /\ q \in Pixels /\ goal = q
  BY <1>1, <1>2, LineEnds DEF LineInv
<1>4. PICK T : Trail(T, q, p, q) /\ painted = Addresses(Done \cup T)
  BY <1>1, <1>2, <1>3 DEF LineInv
<1>5. painted' = Addresses(Done \cup (T \cup {q}))
  BY <1>3, <1>4 DEF LineEnd, DrawPixel, Addresses
<1>6. CASE shape.kind = "line"
  <2>1. drawing' = "drawn" /\ row' = row
    BY <1>6 DEF LineEnd
  <2>2. p = shape.from /\ q = shape.to /\ Done = {}
    BY <1>2, <1>6 DEF LineFrom, LineTo, Done
  <2>3. StraightLine(T \cup {q}, p, q) /\ T \cup {q} \subseteq Pixels
    BY <1>3, <1>4, WholeTrail
  <2>4. painted' = Addresses(T \cup {q})
    BY <1>5, <2>2
  <2>5. ShapeInv'
    BY <1>1, <1>6, <2>2, <2>3, <2>4 DEF ShapeInv
  <2> QED
    BY <1>1, <2>1, <2>5 DEF ScreenInv, Typed
<1>7. CASE shape.kind # "line"
  <2>1. drawing' = "row" /\ row' = row + 1
    BY <1>7 DEF LineEnd
  <2>2. T \cup {q} = {s \in Wanted : s.y = RowAt(row)}
    BY <1>1, <1>2, <1>3, <1>4, <1>7, RowOfShape, WholeRow
  <2>3. RowAt(row) \in Int /\ RowAt(row + 1) = RowAt(row) + 1 /\ \A s \in Wanted : s.y \in Int
    BY <1>1, <1>7, RowsOfShape
  <2>4. RowAt(row)' = RowAt(row + 1) /\ Wanted' = Wanted /\ FirstRow' = FirstRow
    BY <1>1, <2>1 DEF RowAt, Wanted, FirstRow, Circle
  <2>5. Done' = {s \in Wanted : s.y < RowAt(row) + 1}
    BY <1>1, <1>7, <2>3, <2>4 DEF Done
  <2>6. \A s \in Wanted : s.y < RowAt(row) + 1 <=> s.y < RowAt(row) \/ s.y = RowAt(row)
    BY <2>3
  <2>7. Done' = Done \cup (T \cup {q})
    BY <1>7, <2>2, <2>5, <2>6 DEF Done
  <2>8. row \in Int /\ FirstRow \in Int /\ FirstRow <= row
    BY <1>1, <1>7, RowsOfShape DEF Typed, LineOfShape
  <2>9. RowInv'
    BY <1>1, <1>5, <1>7, <2>1, <2>4, <2>7, <2>8 DEF RowInv
  <2> QED
    BY <1>1, <2>1, <2>8, <2>9 DEF ScreenInv, Typed
<1> QED
  BY <1>6, <1>7

LEMMA NextRowKeeps == ScreenInv /\ NextRow => ScreenInv'
<1> SUFFICES ASSUME ScreenInv, NextRow PROVE ScreenInv'
  OBVIOUS
<1>1. /\ Typed /\ RowInv /\ shape.kind # "line" /\ ~ (row > LastRow)
      /\ shape' = shape /\ row' = row /\ painted' = painted
  BY DEF ScreenInv, NextRow, RowInv
<1>2. /\ Typed' /\ FirstRow' = FirstRow /\ LastRow' = LastRow /\ Done' = Done /\ RowAt(row)' = RowAt(row)
      /\ Circle' = Circle /\ RowInv'
  BY <1>1 DEF Typed, FirstRow, LastRow, Done, RowAt, Wanted, Circle, RowInv
<1>3. row <= LastRow /\ FirstRow <= row
  BY <1>1, RowsOfShape DEF Typed, RowInv
<1>4. CASE Circle
  <2>1. SqrtStart(shape.r * shape.r - row * row) /\ drawing' = "root"
    BY <1>4 DEF NextRow, Circle
  <2>2. PICK r, n, x : r = shape.r /\ n = row /\ x = r * r - n * n
    OBVIOUS
  <2>3. r \in Int /\ n \in Int /\ -Lesser(Abs(r), MaxRadius) <= n /\ n <= r /\ r * r <= MaxWord
    BY <1>1, <1>3, <1>4, <2>2, ShapeTypes DEF Typed, Circle, FirstRow, LastRow
  <2>4. x \in 0..MaxWord
    <3>1. x \in Nat /\ x <= r * r /\ r * r \in Int /\ MaxWord \in Int
      BY <2>2, <2>3, CircleRow, SqrtBoundAssumption
    <3> QED
      BY <2>3, <3>1
  <2>5. SqrtInv' /\ radicand' = x
    BY <2>1, <2>2, <2>4, StartKeeps DEF SqrtStart
  <2>6. RowRoot'
    BY <1>1, <2>2, <2>5 DEF RowRoot
  <2> QED
    BY <1>1, <1>2, <1>3, <1>4, <2>1, <2>6 DEF ScreenInv
<1>5. CASE ~ Circle
  <2>1. PICK p, q : p = [x |-> shape.from.x, y |-> row] /\ q = [x |-> shape.to.x, y |-> row]
    OBVIOUS
  <2>2. DrawLine(p, q)
    BY <1>5, <2>1 DEF NextRow, Circle
  <2>3. p = LineFrom' /\ q = LineTo' /\ LineOfShape'
    BY <1>1, <1>2, <1>3, <1>5, <2>1 DEF LineFrom, LineTo, LineOfShape, RowAt
  <2>4. painted' = Addresses(Done')
    BY <1>1, <1>2 DEF RowInv
  <2>5. LineInv'
    BY <1>2, <2>2, <2>3, <2>4, LineBegins
  <2> QED
    BY <1>2, <2>2, <2>5 DEF ScreenInv, DrawLine
<1> QED
  BY <1>4, <1>5

LEMMA RootKeeps == ScreenInv /\ Root => ScreenInv'
<1> SUFFICES ASSUME ScreenInv, Root PROVE ScreenInv'
  OBVIOUS
<1>1. SqrtInv'
  BY BisectKeeps DEF ScreenInv, Root, RowRoot
<1> QED
  BY <1>1 DEF ScreenInv, Root, Bisect, RowRoot, RowInv, Typed, FirstRow, LastRow, Done, RowAt, Wanted, Circle

LEMMA RootFoundKeeps == ScreenInv /\ RootFound => ScreenInv'
<1> SUFFICES ASSUME ScreenInv, RootFound PROVE ScreenInv'
  OBVIOUS
<1>1. /\ Typed /\ RowInv /\ row <= LastRow /\ Circle /\ RowRoot /\ ~ Bisecting
      /\ UNCHANGED <<sqrtVars, shape, row, painted>>
  BY DEF ScreenInv, RootFound
<1>2. PICK p, q : /\ p = [x |-> shape.center.x - low, y |-> shape.center.y + row]
                  /\ q = [x |-> shape.center.x + low, y |-> shape.center.y + row]
  OBVIOUS
<1>3. DrawLine(p, q)
  BY <1>2 DEF RootFound
<1>4. Typed' /\ p = LineFrom' /\ q = LineTo'
  BY <1>1, <1>2 DEF Typed, LineFrom, LineTo, RowAt, Circle, sqrtVars
<1>5. LineOfShape'
  BY <1>1 DEF LineOfShape, FirstRow, LastRow, RowInv, Circle, RowRoot, SqrtInv, Bisecting, sqrtVars
<1>6. painted' = Addresses(Done')
  BY <1>1 DEF RowInv, Done, RowAt, Wanted, Circle
<1>7. LineInv'
  BY <1>3, <1>4, <1>5, <1>6, LineBegins
<1> QED
  BY <1>3, <1>4, <1>7 DEF ScreenInv, DrawLine

LEMMA RowsDoneKeeps == ScreenInv /\ RowsDone => ScreenInv'
<1> SUFFICES ASSUME ScreenInv, RowsDone PROVE ScreenInv'
  OBVIOUS
<1>1. /\ Typed /\ RowInv /\ shape.kind # "line" /\ row > LastRow /\ drawing' = "drawn"
      /\ shape' = shape /\ row' = row /\ painted' = painted
  BY DEF ScreenInv, RowsDone, RowInv
<1>2. painted = Addresses(Wanted)
  BY <1>1, AllDone DEF RowInv
<1>3. ShapeInv'
  BY <1>1, <1>2 DEF ShapeInv, Wanted, Circle
<1> QED
  BY <1>1, <1>3 DEF ScreenInv, Typed

LEMMA ScreenInvSuffices == ScreenInv => ShapesDrawn
<1> SUFFICES ASSUME ScreenInv, drawing = "drawn"
             PROVE  /\ painted = {Address(p.x, p.y) : p \in PaintedPixels}
                    /\ shape.kind = "line" => StraightLine(PaintedPixels, shape.from, shape.to)
                    /\ shape.kind = "rectangle" => PaintedPixels = Rectangle(shape.from, shape.to)
                    /\ shape.kind = "circle" => PaintedPixels = Disc(shape.center, shape.r)
  BY DEF ShapesDrawn
<1>1. ShapeInv
  BY DEF ScreenInv
<1>2. CASE shape.kind = "line"
  <2>1. PICK T \in SUBSET Pixels : StraightLine(T, shape.from, shape.to) /\ painted = Addresses(T)
    BY <1>1, <1>2 DEF ShapeInv
  <2> QED
    BY <1>2, <2>1, PaintedAre
<1>3. CASE shape.kind # "line"
  <2>1. painted = Addresses(Wanted) /\ Wanted \in SUBSET Pixels
    BY <1>1, <1>3, WantedPixels DEF ShapeInv
  <2>2. PaintedPixels = Wanted /\ painted = {Address(p.x, p.y) : p \in PaintedPixels}
    BY <2>1, PaintedAre
  <2> QED
    BY <1>3, <2>2 DEF Wanted, Circle
<1> QED
  BY <1>2, <1>3

LEMMA ScreenStarts == ScreenInit => ScreenInv
  BY DEF ScreenInit, ScreenBlank, ScreenInv, Typed

LEMMA ScreenKeeps == ScreenInv /\ [ScreenNext]_screenVars => ScreenInv'
<1>1. ScreenInv /\ ScreenNext => ScreenInv'
  BY CallKeeps, LineStepKeeps, LineEndKeeps, NextRowKeeps, RowsDoneKeeps, RootKeeps, RootFoundKeeps
     DEF ScreenNext
<1>2. ScreenInv /\ UNCHANGED screenVars => ScreenInv'
  BY DEF ScreenInv, screenVars, sqrtVars, Typed, RowInv, LineInv, ShapeInv, LineOfShape, RowRoot, SqrtInv,
     Bisecting, FirstRow, LastRow, LineFrom, LineTo, Wanted, Done, RowAt, Circle
<1> QED
  BY <1>1, <1>2

(* Whatever the program asks to be drawn, on a screen of any size: a line   *)
(* has no gap and no point that is farther than half a pixel from the      *)
(* straight line, a rectangle and a disc have all of their pixels, and     *)
(* nothing else in memory gets the colour (drawLine, drawRectangle and     *)
(* drawCircle).                                                            *)
THEOREM Drawing == ScreenSpec => []ShapesDrawn
  BY ScreenStarts, ScreenKeeps, ScreenInvSuffices, PTL DEF ScreenSpec

(* What is left of a line, in pixels along its longer side                   *)
RoundsLeft == Along(LineTo, LineFrom, LineTo) - Along(pen, LineFrom, LineTo)

(* drawLine's loop ends: every round is one step nearer to the goal, which  *)
(* is never passed.                                                        *)
THEOREM LinesEnd ==
  ScreenSpec => [][LineStep => RoundsLeft \in Nat /\ RoundsLeft' \in 0..(RoundsLeft - 1)]_screenVars
<1>1. ScreenInit => ScreenInv
  BY ScreenStarts
<1>2. ScreenInv /\ [ScreenNext]_screenVars => ScreenInv'
  BY ScreenKeeps
<1>3. ASSUME ScreenInv, LineStep PROVE RoundsLeft \in Nat /\ RoundsLeft' \in 0..(RoundsLeft - 1)
  <2>1. PICK p, q, s, t : p = LineFrom /\ q = LineTo /\ s = pen /\ t = pen'
    OBVIOUS
  <2>2. /\ p \in Pixels /\ q \in Pixels /\ s \in Pixels /\ OnLine(s, p, q)
        /\ t \in Pixels /\ OnLine(t, p, q) /\ Along(t, p, q) = Along(s, p, q) + 1
    BY <1>3, <2>1, RoundOfLine
  <2>3. /\ Along(q, p, q) \in Nat /\ Along(s, p, q) \in 0..Along(q, p, q)
        /\ Along(t, p, q) \in 0..Along(q, p, q)
    BY <2>2, Ends
  <2>4. LineFrom' = LineFrom /\ LineTo' = LineTo
    BY <1>3 DEF LineStep, LineFrom, LineTo, RowAt, Circle, sqrtVars
  <2>5. RoundsLeft' = Along(q, p, q) - Along(t, p, q) /\ RoundsLeft = Along(q, p, q) - Along(s, p, q)
    <3>1. /\ RoundsLeft = Along(LineTo, LineFrom, LineTo) - Along(pen, LineFrom, LineTo)
          /\ RoundsLeft' = Along(LineTo', LineFrom', LineTo') - Along(pen', LineFrom', LineTo')
      BY DEF RoundsLeft, Along
    <3> QED
      BY <2>1, <2>4, <3>1
  <2> QED
    BY <2>2, <2>3, <2>5
<1> QED
  BY <1>1, <1>2, <1>3, PTL DEF ScreenSpec

-----------------------------------------------------------------------------
(* Words and addresses that do not wrap *)

LEMMA SmallRemainder ==
  ASSUME NEW x \in Nat, NEW m \in Nat, x < m
  PROVE  x % m = x
  OBVIOUS

LEMMA Unwrapped ==
  ASSUME NEW k \in Int, 0 <= k, k < 2 * RamSize
  PROVE  Wrap(k) = k
<1>1. k + 2 * RamSize \in Nat /\ 4 * RamSize \in Nat /\ k + 2 * RamSize < 4 * RamSize
  BY HeapAssumption
<1>2. (k + 2 * RamSize) % (4 * RamSize) = k + 2 * RamSize
  BY <1>1, SmallRemainder
<1> QED
  BY <1>2, HeapAssumption DEF Wrap

LEMMA Addressed ==
  ASSUME NEW a \in RAM
  PROVE  At(a) = a
  BY SmallRemainder, HeapAssumption DEF At, RAM

(* A block's header and the word behind it are words of memory.              *)
LEMMA HeapInMemory ==
  ASSUME NEW b \in Heap
  PROVE  /\ b \in RAM /\ b + 1 \in RAM /\ b \in Int /\ b # 0
         /\ At(b) = b /\ At(b + 1) = b + 1 /\ Wrap(b + 1) = b + 1
<1>1. b \in RAM /\ b + 1 \in RAM /\ b \in Int /\ b # 0 /\ b + 1 < 2 * RamSize /\ 0 <= b + 1
  BY HeapAssumption DEF Heap, RAM
<1> QED
  BY <1>1, Addressed, Unwrapped

LEMMA RequestRange ==
  ASSUME NEW s \in Requests
  PROVE  s \in Nat /\ s >= 1 /\ s + 2 < 2 * RamSize
  BY RequestsAssumption, HeapAssumption

LEMMA PokedOne ==
  ASSUME NEW b \in RAM, NEW v
  PROVE  Poked({b}, v) = [a \in RAM |-> IF a = b THEN v ELSE mem[a]]
  BY Addressed DEF Poked

-----------------------------------------------------------------------------
(* Blocks *)

HeapEnd == HeapBase + TotalWords

Within(m, b, a) == b <= a /\ a < b + m[b]

(* The headers of m at a set of words tile the heap, and each block has a    *)
(* word behind its header.                                                 *)
Tiled(m, blocks) ==
  /\ blocks \subseteq Heap
  /\ \A b \in blocks : m[b] \in Int /\ m[b] >= 2 /\ b + m[b] <= HeapEnd
  /\ \A b, c \in blocks : b < c => b + m[b] <= c
  /\ \A a \in Heap : \E b \in blocks : Within(m, b, a)

LEMMA HeapBounds ==
  ASSUME NEW a
  PROVE  a \in Heap <=> a \in Int /\ HeapBase <= a /\ a < HeapEnd
  BY HeapAssumption DEF Heap, HeapEnd

LEMMA OneBlock ==
  ASSUME NEW m, NEW blocks, Tiled(m, blocks), NEW b \in blocks, NEW c \in blocks,
         NEW a \in Int, Within(m, b, a), Within(m, c, a)
  PROVE  b = c
<1>1. /\ b \in Int /\ c \in Int /\ m[b] \in Int /\ m[c] \in Int
      /\ b < c => b + m[b] <= c
      /\ c < b => c + m[c] <= b
  BY HeapBounds DEF Tiled
<1> QED
  BY <1>1 DEF Within

LEMMA InsideHeap ==
  ASSUME NEW m, NEW blocks, Tiled(m, blocks), NEW b \in blocks, NEW a \in Int, Within(m, b, a)
  PROVE  a \in Heap
<1>1. /\ b \in Int /\ m[b] \in Int /\ HeapBase <= b /\ b + m[b] <= HeapEnd /\ HeapEnd \in Int
      /\ HeapBase \in Int
  BY HeapBounds, HeapAssumption DEF Tiled, HeapEnd
<1> QED
  BY <1>1, HeapBounds DEF Within

(* Header and link of a block are its own.                                   *)
LEMMA HeaderWithin ==
  ASSUME NEW m, NEW blocks, Tiled(m, blocks), NEW b \in blocks
  PROVE  /\ b \in Int /\ m[b] \in Int
         /\ Within(m, b, b) /\ Within(m, b, b + 1)
  BY HeapBounds DEF Tiled, Within

(* A word inside a block is neither another's header nor another's link.     *)
LEMMA InsideIsNobodyElse ==
  ASSUME NEW m, NEW blocks, Tiled(m, blocks), NEW b \in blocks, NEW c \in blocks,
         NEW a \in Int, Within(m, b, a)
  PROVE  /\ a = c => b = c
         /\ a = c + 1 => b = c
  BY OneBlock, HeaderWithin

LEMMA SameHeaders ==
  ASSUME NEW m, NEW n, NEW blocks, Tiled(m, blocks), \A b \in blocks : n[b] = m[b]
  PROVE  Tiled(n, blocks)
  BY DEF Tiled, Within

(* A block that is cut in two.                                               *)
LEMMA CutTiles ==
  ASSUME NEW m, NEW n, NEW blocks, Tiled(m, blocks), NEW c \in blocks,
         NEW k \in Int, k >= 2, m[c] - k >= 2,
         n[c] = k, n[c + k] = m[c] - k, \A b \in blocks \ {c} : n[b] = m[b]
  PROVE  Tiled(n, blocks \cup {c + k}) /\ c + k \notin blocks /\ Within(m, c, c + k)
<1> DEFINE t == c + k
<1>1. /\ c \in Int /\ m[c] \in Int /\ t \in Int /\ c < t /\ t < c + m[c] /\ Within(m, c, t)
      /\ c + n[c] = t /\ t + n[t] = c + m[c] /\ n[c] \in Int /\ n[t] \in Int
      /\ n[c] >= 2 /\ n[t] >= 2
  BY HeaderWithin DEF Within
<1>2. HeapEnd \in Int /\ c + m[c] <= HeapEnd
  BY HeapAssumption DEF Tiled, HeapEnd
<1>3. t \in Heap
  BY <1>1, InsideHeap
<1> HIDE DEF t
<1>4. t \notin blocks
  BY <1>1, InsideIsNobodyElse
<1>5. ASSUME NEW b \in blocks \ {c}
      PROVE  /\ b \in Int /\ n[b] = m[b] /\ n[b] \in Int
             /\ b < c => b + n[b] <= c
             /\ c < b => c + m[c] <= b
             /\ n[b] >= 2 /\ b + n[b] <= HeapEnd
  BY HeapBounds DEF Tiled
<1>6. ASSUME NEW b \in blocks \cup {t}
      PROVE  n[b] \in Int /\ n[b] >= 2 /\ b + n[b] <= HeapEnd
  BY <1>1, <1>2, <1>5
<1>7. ASSUME NEW b \in blocks \cup {t}, NEW d \in blocks \cup {t}, b < d
      PROVE  b + n[b] <= d
  <2>1. CASE b \in blocks \ {c} /\ d \in blocks \ {c}
    BY <1>5, <1>7, <2>1 DEF Tiled
  <2>2. CASE b \in {c, t} /\ d \in {c, t}
    BY <1>1, <1>7, <2>2
  <2>3. CASE b \in {c, t} /\ d \in blocks \ {c}
    <3>1. d \in Int /\ n[d] \in Int /\ n[d] >= 2 /\ (d < c => d + n[d] <= c) /\ (c < d => c + m[c] <= d) /\ d # c
      BY <1>5, <2>3
    <3>2. c < d
      BY <1>1, <1>7, <2>3, <3>1
    <3> QED
      BY <1>1, <2>3, <3>1, <3>2
  <2>4. CASE b \in blocks \ {c} /\ d \in {c, t}
    <3>1. b \in Int /\ n[b] \in Int /\ n[b] >= 2 /\ (b < c => b + n[b] <= c) /\ (c < b => c + m[c] <= b) /\ b # c
      BY <1>5, <2>4
    <3> QED
      BY <1>1, <1>7, <2>4, <3>1
  <2> QED
    BY <2>1, <2>2, <2>3, <2>4
<1>8. ASSUME NEW a \in Heap PROVE \E b \in blocks \cup {t} : Within(n, b, a)
  <2>1. PICK b \in blocks : Within(m, b, a)
    BY DEF Tiled
  <2>2. CASE b # c
    BY <1>5, <2>1, <2>2 DEF Within
  <2>3. CASE b = c
    <3>1. a \in Int /\ c <= a /\ a < c + m[c]
      BY <2>1, <2>3, HeapBounds DEF Within
    <3>2. Within(n, c, a) \/ Within(n, t, a)
      BY <1>1, <3>1 DEF Within
    <3> QED
      BY <3>2
  <2> QED
    BY <2>2, <2>3
<1>9. blocks \cup {t} \subseteq Heap
  BY <1>3 DEF Tiled
<1>10. Tiled(n, blocks \cup {t})
  BY <1>6, <1>7, <1>8, <1>9 DEF Tiled
<1> QED
  BY <1>1, <1>4, <1>10 DEF t

-----------------------------------------------------------------------------
(* The inductive invariant of the heap *)

(* The words f[1], f[2], ... are the free list, of n blocks, and the 0 that  *)
(* ends it.                                                                *)
IsList(n, f) ==
  /\ n \in Nat /\ f \in [1..n + 1 -> Heap \cup {0}]
  /\ f[1] = freeList /\ f[n + 1] = 0
  /\ \A i \in 1..n : f[i] \in Heap /\ mem[f[i] + 1] = f[i + 1]
  /\ \A i, j \in 1..n : f[i] = f[j] => i = j

Listed(n, f) == {f[i] : i \in 1..n}

Taken == {r.ptr - 1 : r \in live}

(* alloc's loop stands at a block of the list, or behind it, and knows the   *)
(* one before.                                                             *)
AtBlock(n, f) ==
  \E i \in 1..n + 1 :
    /\ curBlockPtr = f[i]
    /\ prevBlockPtr = IF i = 1 THEN 0 ELSE f[i - 1]

RegionsSound ==
  /\ \A r \in live : r.ptr \in Int /\ r.size \in Requests /\ r.size < mem[r.ptr - 1]
  /\ \A r, q \in live : r.ptr = q.ptr => r = q

ListSound(n, f) ==
  /\ IsList(n, f)
  /\ Listed(n, f) \cap Taken = {}
  /\ Tiled(mem, Listed(n, f) \cup Taken)
  /\ pc = "scan" => AtBlock(n, f)

HeapInv ==
  /\ pc \in {"user", "scan"} /\ mem = [a \in RAM |-> mem[a]]
  /\ pc = "scan" => size \in Requests
  /\ RegionsSound
  /\ \E n, f : ListSound(n, f)

LEMMA HeapStarts == Init => HeapInv
<1> SUFFICES ASSUME Init PROVE HeapInv
  OBVIOUS
<1> DEFINE f == [i \in 1..1 + 1 |-> IF i = 1 THEN HeapBase ELSE 0]
<1>1. /\ HeapBase \in Heap /\ HeapBase \in RAM /\ HeapBase + 1 \in RAM /\ HeapBase + 1 # HeapBase
      /\ TotalWords \in Int /\ TotalWords >= 2 /\ HeapBase \in Int
  BY HeapAssumption DEF Heap, RAM
<1>2. mem[HeapBase] = TotalWords /\ mem[HeapBase + 1] = 0
  BY <1>1 DEF Init
<1>3. /\ f \in [1..1 + 1 -> Heap \cup {0}] /\ f[1] = HeapBase /\ f[1 + 1] = 0 /\ 1..1 = {1}
  BY <1>1
<1> HIDE DEF f
<1>4. IsList(1, f)
  BY <1>1, <1>2, <1>3 DEF IsList, Init
<1>5. Listed(1, f) = {HeapBase} /\ Taken = {}
  BY <1>3 DEF Listed, Taken, Init
<1>6. Tiled(mem, {HeapBase})
  BY <1>1, <1>2, HeapBounds DEF Tiled, Within, HeapEnd
<1>7. ListSound(1, f)
  BY <1>4, <1>5, <1>6 DEF ListSound, Init
<1> QED
  BY <1>7 DEF HeapInv, RegionsSound, Init

(* What alloc's loop reads at a block.                                       *)
LEMMA Standing ==
  ASSUME NEW n, NEW f, ListSound(n, f), Scanning
  PROVE  \E i \in 1..n :
           /\ curBlockPtr = f[i] /\ f[i] \in Heap /\ f[i] \in Listed(n, f)
           /\ prevBlockPtr = IF i = 1 THEN 0 ELSE f[i - 1]
           /\ BlockSize = mem[f[i]] /\ NextBlock = f[i + 1] /\ NextBlock = mem[f[i] + 1]
<1>1. PICK i \in 1..n + 1 : curBlockPtr = f[i] /\ prevBlockPtr = IF i = 1 THEN 0 ELSE f[i - 1]
  BY DEF ListSound, AtBlock, Scanning
<1>2. i \in 1..n /\ n \in Nat
  BY <1>1 DEF ListSound, IsList, Scanning
<1>3. f[i] \in Heap /\ mem[f[i] + 1] = f[i + 1] /\ f[i] \in Listed(n, f)
  BY <1>2 DEF ListSound, IsList, Listed
<1>4. At(curBlockPtr) = f[i] /\ At(curBlockPtr + 1) = f[i] + 1
  BY <1>1, <1>3, HeapInMemory
<1> QED
  BY <1>1, <1>2, <1>3, <1>4 DEF BlockSize, NextBlock

(* A list whose links are left alone stays one.                              *)
LEMMA ListStays ==
  ASSUME NEW n, NEW f, IsList(n, f), UNCHANGED freeList,
         \A i \in 1..n : mem'[f[i] + 1] = mem[f[i] + 1]
  PROVE  IsList(n, f)'
  BY DEF IsList

LEMMA AllocKeeps == ASSUME NEW s \in Requests PROVE HeapInv /\ Alloc(s) => HeapInv'
<1> SUFFICES ASSUME HeapInv, Alloc(s) PROVE HeapInv'
  OBVIOUS
<1>1. PICK n, f : ListSound(n, f)
  BY DEF HeapInv
<1>2. UNCHANGED <<mem, freeList, live>> /\ curBlockPtr' = freeList /\ prevBlockPtr' = 0
      /\ pc' = "scan" /\ size' = s
  BY DEF Alloc
<1>3. IsList(n, f)' /\ n \in Nat /\ f[1] = freeList
  BY <1>1, <1>2 DEF ListSound, IsList
<1>4. Taken' = Taken /\ Listed(n, f)' = Listed(n, f)
  BY <1>2 DEF Taken, Listed
<1>5. AtBlock(n, f)'
  BY <1>2, <1>3 DEF AtBlock
<1>6. ListSound(n, f)'
  BY <1>1, <1>2, <1>3, <1>4, <1>5 DEF ListSound, Tiled, Within
<1>7. RegionsSound'
  BY <1>2 DEF HeapInv, RegionsSound
<1> QED
  BY <1>2, <1>6, <1>7 DEF HeapInv

LEMMA AdvanceKeeps == HeapInv /\ Advance => HeapInv'
<1> SUFFICES ASSUME HeapInv, Advance PROVE HeapInv'
  OBVIOUS
<1>1. PICK n, f : ListSound(n, f)
  BY DEF HeapInv
<1>2. /\ UNCHANGED <<pc, mem, freeList, size, live>> /\ curBlockPtr' = NextBlock
      /\ prevBlockPtr' = curBlockPtr
  BY DEF Advance
<1>3. PICK i \in 1..n : curBlockPtr = f[i] /\ NextBlock = f[i + 1]
  BY <1>1, Standing DEF Advance
<1>4. n \in Nat /\ i + 1 \in 1..n + 1 /\ i + 1 # 1 /\ (i + 1) - 1 = i
  BY <1>1, <1>3 DEF ListSound, IsList
<1>5. AtBlock(n, f)'
  BY <1>2, <1>3, <1>4 DEF AtBlock
<1>6. IsList(n, f)' /\ Taken' = Taken /\ Listed(n, f)' = Listed(n, f)
  BY <1>1, <1>2 DEF ListSound, IsList, Taken, Listed
<1>7. ListSound(n, f)'
  BY <1>1, <1>2, <1>5, <1>6 DEF ListSound, Tiled, Within
<1>8. RegionsSound'
  BY <1>2 DEF HeapInv, RegionsSound
<1> QED
  BY <1>2, <1>7, <1>8 DEF HeapInv

(* Steps that leave the blocks alone and end no loop.                        *)
LEMMA ReturnKeeps ==
  ASSUME HeapInv, UNCHANGED <<mem, freeList, live>>,
         pc' = "user" \/ UNCHANGED <<pc, size, curBlockPtr, prevBlockPtr>>
  PROVE  HeapInv'
<1>1. PICK n, f : ListSound(n, f)
  BY DEF HeapInv
<1>2. IsList(n, f)' /\ Taken' = Taken /\ Listed(n, f)' = Listed(n, f)
  BY <1>1 DEF ListSound, IsList, Taken, Listed
<1>3. AtBlock(n, f) /\ UNCHANGED <<curBlockPtr, prevBlockPtr>> => AtBlock(n, f)'
  BY DEF AtBlock
<1>4. ListSound(n, f)'
  BY <1>1, <1>2, <1>3 DEF ListSound, Tiled, Within
<1>5. RegionsSound'
  BY DEF HeapInv, RegionsSound
<1> QED
  BY <1>4, <1>5 DEF HeapInv

(* What Split does, without the wrapping.                                    *)
LEMMA SplitEffect ==
  ASSUME HeapInv, NEW n, NEW f, ListSound(n, f), Split
  PROVE  \E i \in 1..n, k \in Int :
           /\ k >= 2 /\ mem[f[i]] - k >= 2 /\ k = mem[f[i]] - (size + 1)
           /\ size \in Requests /\ size \in Nat /\ size >= 1
           /\ f[i] \in Listed(n, f) /\ f[i] \in Heap /\ f[i] + k \in Heap
           /\ mem' = [a \in RAM |-> IF a = f[i] + k THEN size + 1 ELSE IF a = f[i] THEN k ELSE mem[a]]
           /\ live' = live \cup {[ptr |-> f[i] + k + 1, size |-> size]}
           /\ pc' = "user" /\ UNCHANGED <<freeList, size>>
<1>1. PICK i \in 1..n : /\ curBlockPtr = f[i] /\ f[i] \in Heap /\ f[i] \in Listed(n, f)
                        /\ BlockSize = mem[f[i]]
  BY Standing DEF Split
<1>2. size \in Requests /\ size \in Nat /\ size >= 1 /\ size + 2 < 2 * RamSize
  BY RequestRange DEF HeapInv, Split, Scanning
<1>3. Tiled(mem, Listed(n, f) \cup Taken)
  BY DEF ListSound
<1> DEFINE c == f[i]
           B == mem[c]
           k == B - (size + 1)
           t == c + k
<1>4. c \in Int /\ B \in Int /\ Within(mem, c, c) /\ B <= TotalWords /\ TotalWords < RamSize
  <2>1. c \in Int /\ B \in Int /\ Within(mem, c, c) /\ c + B <= HeapEnd /\ HeapBase <= c
    BY <1>1, <1>3, HeaderWithin, HeapBounds DEF Tiled
  <2> HIDE DEF B
  <2> QED
    BY <2>1, HeapAssumption DEF HeapEnd, RAM
<1>5. Wrap(size + 2) = size + 2 /\ Wrap(size + 1) = size + 1
  BY <1>2, HeapAssumption, Unwrapped
<1>6. B > size + 2
  BY <1>1, <1>5 DEF Split, Splittable
<1> HIDE DEF c, B
<1>7. k \in Int /\ k >= 2 /\ B - k >= 2 /\ k = B - size - 1 /\ 0 <= k /\ k < 2 * RamSize
  BY <1>2, <1>4, <1>6, HeapAssumption
<1>8. Within(mem, c, t) /\ t \in Int
  BY <1>2, <1>4, <1>7 DEF Within, B
<1> HIDE DEF k
<1>9. t \in Heap
  BY <1>1, <1>3, <1>8, InsideHeap DEF c
<1>10. Wrap(BlockSize - size - 1) = k /\ Wrap(curBlockPtr + k) = t
  <2>1. Wrap(k) = k
    BY <1>7, Unwrapped
  <2>2. 0 <= t /\ t < 2 * RamSize
    BY <1>9, HeapAssumption DEF Heap, RAM
  <2>3. Wrap(t) = t
    BY <1>8, <2>2, Unwrapped
  <2> QED
    BY <1>1, <1>7, <2>1, <2>3 DEF c, B
<1>11. Poked({c}, k) = [a \in RAM |-> IF a = c THEN k ELSE mem[a]]
  BY <1>1, HeapInMemory, PokedOne DEF c
<1>12. At(t) = t /\ t \in RAM /\ Wrap(t + 1) = t + 1
  BY <1>9, HeapInMemory
<1> HIDE DEF t
<1>13. /\ mem' = [Poked({c}, k) EXCEPT ![t] = size + 1]
       /\ live' = live \cup {[ptr |-> t + 1, size |-> size]}
       /\ pc' = "user" /\ UNCHANGED <<freeList, size>>
  BY <1>1, <1>5, <1>10, <1>12 DEF Split, Return, c
<1>14. mem' = [a \in RAM |-> IF a = t THEN size + 1 ELSE IF a = c THEN k ELSE mem[a]]
  BY <1>11, <1>12, <1>13
<1> QED
  BY <1>1, <1>2, <1>7, <1>9, <1>13, <1>14 DEF c, t, k, B

LEMMA SplitKeeps == HeapInv /\ Split => HeapInv'
<1> SUFFICES ASSUME HeapInv, Split PROVE HeapInv'
  OBVIOUS
<1>1. PICK n, f : ListSound(n, f)
  BY DEF HeapInv
<1>2. PICK i \in 1..n, k \in Int :
         /\ k >= 2 /\ mem[f[i]] - k >= 2 /\ k = mem[f[i]] - (size + 1)
         /\ size \in Requests /\ size \in Nat /\ size >= 1
         /\ f[i] \in Listed(n, f) /\ f[i] \in Heap /\ f[i] + k \in Heap
         /\ mem' = [a \in RAM |-> IF a = f[i] + k THEN size + 1 ELSE IF a = f[i] THEN k ELSE mem[a]]
         /\ live' = live \cup {[ptr |-> f[i] + k + 1, size |-> size]}
         /\ pc' = "user" /\ UNCHANGED <<freeList, size>>
  BY <1>1, SplitEffect
<1> DEFINE c == f[i]
           t == c + k
           new == [ptr |-> t + 1, size |-> size]
           blocks == Listed(n, f) \cup Taken
<1>3. Tiled(mem, blocks) /\ c \in blocks /\ IsList(n, f) /\ Listed(n, f) \cap Taken = {}
  BY <1>1, <1>2 DEF ListSound
<1>4. c \in Int /\ mem[c] \in Int /\ t \in Int /\ t # c /\ Within(mem, c, t) /\ c + 1 < t
  BY <1>2, <1>3, HeaderWithin DEF Within
<1>5. mem'[c] = k /\ mem'[t] = mem[c] - k /\ mem'[t] = size + 1
  BY <1>2, <1>4, HeapInMemory
<1>6. t \in Int /\ t + 1 \in Int /\ (t + 1) - 1 = t
  BY <1>4
<1> HIDE DEF t
<1>7. ASSUME NEW a \in RAM, a # c, a # t PROVE mem'[a] = mem[a]
  BY <1>2, <1>7 DEF t
<1> HIDE DEF c
<1>8. ASSUME NEW b \in blocks \ {c} PROVE mem'[b] = mem[b] /\ b # t
  <2>1. b \in Heap
    BY <1>3 DEF Tiled
  <2>2. b # t
    BY <1>3, <1>4, InsideIsNobodyElse
  <2> QED
    BY <1>7, <2>1, <2>2, HeapInMemory
<1>9. ASSUME NEW j \in 1..n PROVE mem'[f[j] + 1] = mem[f[j] + 1]
  <2>1. f[j] \in blocks /\ f[j] \in Heap
    BY <1>3, <1>9 DEF IsList, Listed
  <2>2. f[j] \in Int /\ Within(mem, f[j], f[j] + 1) /\ f[j] + 1 \in RAM
    BY <1>3, <2>1, HeaderWithin, HeapInMemory
  <2>3. f[j] + 1 # c
    BY <1>3, <2>1, <2>2, InsideIsNobodyElse
  <2>4. f[j] + 1 # t
    BY <1>3, <1>4, <2>1, <2>2, InsideIsNobodyElse
  <2> QED
    BY <1>7, <2>2, <2>3, <2>4
<1>10. IsList(n, f)' /\ Listed(n, f)' = Listed(n, f)
  BY <1>2, <1>3, <1>9, ListStays DEF Listed
<1>11. Tiled(mem', blocks \cup {c + k}) /\ c + k \notin blocks
  <2>1. mem[c] - k >= 2 /\ k >= 2 /\ mem'[c + k] = mem[c] - k
    BY <1>2, <1>5 DEF c, t
  <2> QED
    BY <1>3, <1>5, <1>8, <2>1, CutTiles
<1>12. Taken' = Taken \cup {t} /\ live' = live \cup {new}
  <2>1. live' = live \cup {new}
    BY <1>2 DEF t, c
  <2>2. new.ptr - 1 = t
    BY <1>6
  <2> HIDE DEF new
  <2> QED
    BY <2>1, <2>2 DEF Taken
<1>13. ListSound(n, f)'
  <2>1. (Listed(n, f) \cup Taken)' = blocks \cup {t}
    BY <1>10, <1>12
  <2>2. Tiled(mem', blocks \cup {t}) /\ t \notin blocks
    BY <1>11 DEF t
  <2>3. (Listed(n, f) \cap Taken)' = {}
    BY <1>3, <1>10, <1>12, <2>2
  <2> QED
    BY <1>2, <1>10, <2>1, <2>2, <2>3 DEF ListSound, Tiled, Within
<1>14. RegionsSound'
  <2>1. ASSUME NEW r \in live PROVE r.ptr \in Int /\ r.ptr - 1 \in Taken /\ mem'[r.ptr - 1] = mem[r.ptr - 1]
                                    /\ r.ptr # new.ptr
    <3>1. r.ptr \in Int /\ r.ptr - 1 \in Taken
      BY DEF HeapInv, RegionsSound, Taken
    <3>2. r.ptr - 1 \in blocks \ {c}
      BY <1>2, <1>3, <3>1 DEF c
    <3>3. r.ptr - 1 # t
      BY <1>8, <3>2
    <3> QED
      BY <1>6, <1>8, <3>1, <3>2, <3>3
  <2>2. new.ptr \in Int /\ new.size \in Requests /\ mem'[new.ptr - 1] = size + 1 /\ new.size = size
    BY <1>2, <1>5, <1>6
  <2> HIDE DEF new
  <2>3. ASSUME NEW r \in live' PROVE r.ptr \in Int /\ r.size \in Requests /\ r.size < mem'[r.ptr - 1]
    BY <1>2, <1>12, <2>1, <2>2 DEF HeapInv, RegionsSound
  <2>4. ASSUME NEW r \in live', NEW q \in live', r.ptr = q.ptr PROVE r = q
    BY <1>12, <2>1, <2>4 DEF HeapInv, RegionsSound
  <2> QED
    BY <2>3, <2>4 DEF RegionsSound
<1>15. mem' = [a \in RAM |-> mem'[a]]
  BY <1>2
<1> QED
  BY <1>2, <1>13, <1>14, <1>15 DEF HeapInv

(* The free list without its i-th block.                                     *)
Unlinked(n, f, i) == [j \in 1..(n - 1) + 1 |-> IF j < i THEN f[j] ELSE f[j + 1]]

LEMMA TakeEffect ==
  ASSUME HeapInv, NEW n, NEW f, ListSound(n, f), TakeWhole
  PROVE  \E i \in 1..n :
           /\ f[i] \in Listed(n, f) /\ f[i] \in Heap
           /\ size \in Requests /\ size \in Nat /\ size >= 1 /\ size < mem[f[i]]
           /\ i = 1 => freeList' = f[2] /\ UNCHANGED mem
           /\ i # 1 => /\ UNCHANGED freeList
                       /\ i - 1 \in 1..n
                       /\ mem' = [a \in RAM |-> IF a = f[i - 1] + 1 THEN f[i + 1] ELSE mem[a]]
           /\ live' = live \cup {[ptr |-> f[i] + 1, size |-> size]}
           /\ pc' = "user" /\ UNCHANGED size
<1>1. PICK i \in 1..n : /\ curBlockPtr = f[i] /\ f[i] \in Heap /\ f[i] \in Listed(n, f)
                        /\ prevBlockPtr = IF i = 1 THEN 0 ELSE f[i - 1]
                        /\ BlockSize = mem[f[i]] /\ NextBlock = f[i + 1]
  BY Standing DEF TakeWhole
<1>2. size \in Requests /\ size \in Nat /\ size >= 1 /\ size + 2 < 2 * RamSize
  BY RequestRange DEF HeapInv, TakeWhole, Scanning
<1>3. Wrap(size + 1) = size + 1
  BY <1>2, HeapAssumption, Unwrapped
<1>4. mem[f[i]] \in Int
  BY <1>1, HeaderWithin DEF ListSound
<1>5. size < mem[f[i]]
  BY <1>1, <1>2, <1>3, <1>4 DEF TakeWhole, LargeEnough
<1>6. live' = live \cup {[ptr |-> f[i] + 1, size |-> size]} /\ pc' = "user" /\ UNCHANGED size
  BY <1>1, HeapInMemory DEF TakeWhole, Return
<1>7. CASE i = 1
  <2>1. prevBlockPtr = 0 /\ f[i + 1] = f[2]
    BY <1>1, <1>7
  <2> QED
    BY <1>1, <1>2, <1>5, <1>6, <1>7, <2>1 DEF TakeWhole
<1>8. CASE i # 1
  <2>1. i - 1 \in 1..n /\ n \in Nat
    BY <1>8 DEF ListSound, IsList
  <2>2. f[i - 1] \in Heap
    BY <2>1 DEF ListSound, IsList
  <2>3. prevBlockPtr = f[i - 1] /\ prevBlockPtr # 0 /\ f[i - 1] + 1 \in RAM
    BY <1>1, <1>8, <2>2, HeapInMemory
  <2>4. UNCHANGED freeList /\ mem' = Poked({f[i - 1] + 1}, f[i + 1])
    BY <1>1, <2>3 DEF TakeWhole
  <2>5. mem' = [a \in RAM |-> IF a = f[i - 1] + 1 THEN f[i + 1] ELSE mem[a]]
    BY <2>3, <2>4, PokedOne
  <2> QED
    BY <1>1, <1>2, <1>5, <1>6, <1>8, <2>1, <2>4, <2>5
<1> QED
  BY <1>7, <1>8

LEMMA UnlinkedList ==
  ASSUME NEW n, NEW f, IsList(n, f), Tiled(mem, Listed(n, f) \cup Taken), NEW i \in 1..n,
         i = 1 => freeList' = f[2] /\ UNCHANGED mem,
         i # 1 => /\ UNCHANGED freeList
                  /\ i - 1 \in 1..n
                  /\ mem' = [a \in RAM |-> IF a = f[i - 1] + 1 THEN f[i + 1] ELSE mem[a]]
  PROVE  IsList(n - 1, Unlinked(n, f, i))' /\ Listed(n - 1, Unlinked(n, f, i)) = Listed(n, f) \ {f[i]}
<1> DEFINE g == Unlinked(n, f, i)
<1>1. n \in Nat /\ n - 1 \in Nat /\ i \in Int /\ 1 <= i /\ i <= n
  BY DEF IsList
<1>2. ASSUME NEW j \in 1..(n - 1) + 1
      PROVE  g[j] = IF j < i THEN f[j] ELSE f[j + 1]
  BY DEF Unlinked
<1>3. f \in [1..n + 1 -> Heap \cup {0}] /\ f[1] = freeList /\ f[n + 1] = 0
  BY DEF IsList
<1>4. ASSUME NEW j \in 1..n PROVE f[j] \in Heap /\ mem[f[j] + 1] = f[j + 1] /\ f[j] + 1 \in RAM /\ f[j] \in Int
  BY HeapInMemory DEF IsList
<1>5. ASSUME NEW j \in 1..n, NEW k \in 1..n, f[j] = f[k] PROVE j = k
  BY <1>5 DEF IsList
<1>6. g \in [1..(n - 1) + 1 -> Heap \cup {0}]
  BY <1>1, <1>3 DEF Unlinked
<1> HIDE DEF g
<1>7. g[1] = freeList'
  <2>1. 1 \in 1..(n - 1) + 1 /\ 1 + 1 = 2
    BY <1>1
  <2>2. CASE i = 1
    BY <1>2, <2>1, <2>2
  <2>3. CASE i # 1
    BY <1>1, <1>2, <1>3, <2>1, <2>3
  <2> QED
    BY <2>2, <2>3
<1>8. g[(n - 1) + 1] = 0
  <2>1. (n - 1) + 1 = n /\ n \in 1..(n - 1) + 1 /\ ~ (n < i)
    BY <1>1
  <2> QED
    BY <1>2, <1>3, <2>1
<1>9. ASSUME NEW j \in 1..n, j # i - 1 PROVE mem'[f[j] + 1] = f[j + 1]
  <2>1. CASE i = 1
    BY <1>4, <2>1
  <2>2. CASE i # 1
    <3>1. f[j] # f[i - 1]
      BY <1>5, <1>9, <2>2
    <3>2. f[j] + 1 # f[i - 1] + 1
      BY <1>4, <2>2, <3>1
    <3> QED
      BY <1>4, <2>2, <3>2
  <2> QED
    BY <2>1, <2>2
<1>10. ASSUME i # 1 PROVE mem'[f[i - 1] + 1] = f[i + 1]
  BY <1>4, <1>10
<1>11. ASSUME NEW j \in 1..(n - 1) PROVE g[j] \in Heap /\ mem'[g[j] + 1] = g[j + 1]
  <2>1. j \in 1..(n - 1) + 1 /\ j + 1 \in 1..(n - 1) + 1 /\ j \in 1..n /\ j + 1 \in 1..n /\ j \in Int
    BY <1>1
  <2>2. CASE j < i - 1
    <3>1. j < i /\ j + 1 < i /\ j # i - 1
      BY <1>1, <2>1, <2>2
    <3>2. g[j] = f[j] /\ g[j + 1] = f[j + 1]
      BY <1>2, <2>1, <3>1
    <3> QED
      BY <1>4, <1>9, <2>1, <3>1, <3>2
  <2>3. CASE j = i - 1
    <3>1. j < i /\ ~ (j + 1 < i) /\ (j + 1) + 1 = i + 1 /\ i # 1
      BY <1>1, <2>1, <2>3
    <3>2. g[j] = f[i - 1] /\ g[j + 1] = f[i + 1]
      BY <1>2, <2>1, <2>3, <3>1
    <3> QED
      BY <1>4, <1>10, <2>1, <2>3, <3>1, <3>2
  <2>4. CASE i <= j
    <3>1. ~ (j < i) /\ ~ (j + 1 < i) /\ j + 1 # i - 1
      BY <1>1, <2>1, <2>4
    <3>2. g[j] = f[j + 1] /\ g[j + 1] = f[(j + 1) + 1]
      BY <1>2, <2>1, <3>1
    <3> QED
      BY <1>4, <1>9, <2>1, <3>1, <3>2
  <2> QED
    BY <1>1, <2>1, <2>2, <2>3, <2>4
<1>12. ASSUME NEW j \in 1..(n - 1), NEW k \in 1..(n - 1), g[j] = g[k] PROVE j = k
  <2>1. /\ j \in 1..(n - 1) + 1 /\ k \in 1..(n - 1) + 1 /\ j \in 1..n /\ j + 1 \in 1..n
        /\ k \in 1..n /\ k + 1 \in 1..n
    BY <1>1
  <2>2. g[j] = (IF j < i THEN f[j] ELSE f[j + 1]) /\ g[k] = (IF k < i THEN f[k] ELSE f[k + 1])
    BY <1>2, <2>1
  <2>3. (j < i => g[j] = f[j]) /\ (~(j < i) => g[j] = f[j + 1]) /\ (k < i => g[k] = f[k]) /\ (~(k < i) => g[k] = f[k + 1])
    BY <2>2
  <2>4. CASE j < i /\ k < i
    BY <1>5, <1>12, <2>1, <2>3, <2>4
  <2>5. CASE j < i /\ ~ (k < i)
    <3>1. j = k + 1
      BY <1>5, <1>12, <2>1, <2>3, <2>5
    <3> QED
      BY <1>1, <2>1, <2>5, <3>1
  <2>6. CASE ~ (j < i) /\ k < i
    <3>1. j + 1 = k
      BY <1>5, <1>12, <2>1, <2>3, <2>6
    <3> QED
      BY <1>1, <2>1, <2>6, <3>1
  <2>7. CASE ~ (j < i) /\ ~ (k < i)
    <3>1. j + 1 = k + 1
      BY <1>5, <1>12, <2>1, <2>3, <2>7
    <3> QED
      BY <2>1, <3>1
  <2> QED
    BY <2>4, <2>5, <2>6, <2>7
<1>13. IsList(n - 1, g)'
  BY <1>1, <1>6, <1>7, <1>8, <1>11, <1>12 DEF IsList
<1>14. Listed(n - 1, g) = Listed(n, f) \ {f[i]}
  <2>1. ASSUME NEW j \in 1..(n - 1) PROVE \E k \in 1..n : k # i /\ g[j] = f[k]
    <3>1. j \in 1..(n - 1) + 1 /\ j \in 1..n /\ j + 1 \in 1..n
      BY <1>1
    <3>2. CASE j < i
      BY <1>1, <1>2, <3>1, <3>2
    <3>3. CASE ~ (j < i)
      BY <1>1, <1>2, <3>1, <3>3
    <3> QED
      BY <3>2, <3>3
  <2>2. ASSUME NEW k \in 1..n, k # i PROVE \E j \in 1..(n - 1) : g[j] = f[k]
    <3>1. CASE k < i
      <4>1. k \in 1..(n - 1) /\ k \in 1..(n - 1) + 1
        BY <1>1, <3>1
      <4> QED
        BY <1>2, <3>1, <4>1
    <3>2. CASE ~ (k < i)
      <4>1. k - 1 \in 1..(n - 1) /\ k - 1 \in 1..(n - 1) + 1 /\ ~ (k - 1 < i) /\ (k - 1) + 1 = k
        BY <1>1, <2>2, <3>2
      <4>2. g[k - 1] = f[k]
        BY <1>2, <4>1
      <4> QED
        BY <4>1, <4>2
    <3> QED
      BY <3>1, <3>2
  <2> QED
    BY <1>5, <2>1, <2>2 DEF Listed
<1> QED
  BY <1>13, <1>14 DEF g

LEMMA TakeKeeps == HeapInv /\ TakeWhole => HeapInv'
<1> SUFFICES ASSUME HeapInv, TakeWhole PROVE HeapInv'
  OBVIOUS
<1>1. PICK n, f : ListSound(n, f)
  BY DEF HeapInv
<1>2. PICK i \in 1..n :
         /\ f[i] \in Listed(n, f) /\ f[i] \in Heap
         /\ size \in Requests /\ size \in Nat /\ size >= 1 /\ size < mem[f[i]]
         /\ i = 1 => freeList' = f[2] /\ UNCHANGED mem
         /\ i # 1 => /\ UNCHANGED freeList
                     /\ i - 1 \in 1..n
                     /\ mem' = [a \in RAM |-> IF a = f[i - 1] + 1 THEN f[i + 1] ELSE mem[a]]
         /\ live' = live \cup {[ptr |-> f[i] + 1, size |-> size]}
         /\ pc' = "user" /\ UNCHANGED size
  BY <1>1, TakeEffect
<1> DEFINE g == Unlinked(n, f, i)
           c == f[i]
           new == [ptr |-> c + 1, size |-> size]
           blocks == Listed(n, f) \cup Taken
<1>3. /\ Tiled(mem, blocks) /\ c \in blocks /\ IsList(n, f) /\ Listed(n, f) \cap Taken = {}
      /\ blocks \subseteq Heap
  BY <1>1, <1>2 DEF ListSound, Tiled
<1>4. IsList(n - 1, g)' /\ Listed(n - 1, g) = Listed(n, f) \ {c}
  BY <1>2, <1>3, UnlinkedList
<1>5. ASSUME NEW b \in blocks PROVE mem'[b] = mem[b]
  <2>1. CASE i = 1
    BY <1>2, <2>1
  <2>2. CASE i # 1
    <3>1. f[i - 1] \in blocks /\ f[i - 1] \in Int
      BY <1>2, <1>3, <2>2, HeapInMemory DEF IsList, Listed
    <3>2. f[i - 1] + 1 # b /\ b \in RAM
      <4>1. b # f[i - 1] => f[i - 1] + 1 # b
        BY <1>3, <3>1, HeaderWithin, InsideIsNobodyElse
      <4> QED
        BY <1>3, <3>1, <4>1, HeapInMemory
    <3> QED
      BY <1>2, <2>2, <3>2
  <2> QED
    BY <2>1, <2>2
<1>6. live' = live \cup {new} /\ Taken' = Taken \cup {c} /\ new.ptr - 1 = c
  <2>1. live' = live \cup {new}
    BY <1>2
  <2>2. new.ptr - 1 = c
    BY <1>2, HeapInMemory
  <2> HIDE DEF new
  <2> QED
    BY <2>1, <2>2 DEF Taken
<1> HIDE DEF g
<1>7. ListSound(n - 1, g)'
  <2>1. (Listed(n - 1, g) \cup Taken)' = blocks
    BY <1>2, <1>4, <1>6
  <2>2. Tiled(mem', blocks)
    BY <1>3, <1>5, SameHeaders
  <2>3. (Listed(n - 1, g) \cap Taken)' = {}
    BY <1>3, <1>4, <1>6
  <2> QED
    BY <1>2, <1>4, <2>1, <2>2, <2>3 DEF ListSound, Tiled, Within
<1>8. RegionsSound'
  <2>1. ASSUME NEW r \in live PROVE r.ptr \in Int /\ mem'[r.ptr - 1] = mem[r.ptr - 1] /\ r.ptr # new.ptr
    <3>1. r.ptr \in Int /\ r.ptr - 1 \in Taken
      BY DEF HeapInv, RegionsSound, Taken
    <3>2. r.ptr - 1 # c
      BY <1>2, <1>3, <3>1
    <3> QED
      BY <1>5, <1>6, <3>1, <3>2
  <2>2. new.ptr \in Int /\ new.size \in Requests /\ mem'[new.ptr - 1] = mem[c] /\ new.size = size
    BY <1>2, <1>3, <1>5, <1>6, HeapInMemory
  <2> HIDE DEF new
  <2>3. ASSUME NEW r \in live' PROVE r.ptr \in Int /\ r.size \in Requests /\ r.size < mem'[r.ptr - 1]
    BY <1>2, <1>6, <2>1, <2>2 DEF HeapInv, RegionsSound
  <2>4. ASSUME NEW r \in live', NEW q \in live', r.ptr = q.ptr PROVE r = q
    BY <1>6, <2>1, <2>4 DEF HeapInv, RegionsSound
  <2> QED
    BY <2>3, <2>4 DEF RegionsSound
<1>9. mem' = [a \in RAM |-> mem'[a]]
  BY <1>2 DEF HeapInv
<1> QED
  BY <1>2, <1>7, <1>8, <1>9 DEF HeapInv

(* What a region tells of its block.                                         *)
LEMMA RegionOfBlock ==
  ASSUME HeapInv, NEW n, NEW f, ListSound(n, f), NEW r \in live
  PROVE  /\ r.ptr - 1 \in Taken /\ r.ptr - 1 \in Heap /\ r.ptr \in Int
         /\ r.size \in Requests /\ r.size \in Nat /\ r.size >= 1
         /\ mem[r.ptr - 1] \in Int /\ r.size < mem[r.ptr - 1]
         /\ \A a \in Usable(r) : a \in Int /\ a \in Heap /\ Within(mem, r.ptr - 1, a) /\ a # r.ptr - 1
<1>1. /\ r.ptr \in Int /\ r.size \in Requests /\ r.size < mem[r.ptr - 1] /\ r.ptr - 1 \in Taken
  BY DEF HeapInv, RegionsSound, Taken
<1>2. r.size \in Nat /\ r.size >= 1
  BY <1>1, RequestRange
<1>3. Tiled(mem, Listed(n, f) \cup Taken)
  BY DEF ListSound
<1>4. r.ptr - 1 \in Heap /\ mem[r.ptr - 1] \in Int
  BY <1>1, <1>3 DEF Tiled
<1>5. ASSUME NEW a \in Usable(r) PROVE a \in Int /\ a \in Heap /\ Within(mem, r.ptr - 1, a) /\ a # r.ptr - 1
  <2>1. a \in Int /\ Within(mem, r.ptr - 1, a) /\ a # r.ptr - 1
    BY <1>1, <1>2, <1>4 DEF Usable, Within
  <2> QED
    BY <1>1, <1>3, <2>1, InsideHeap
<1> QED
  BY <1>1, <1>2, <1>4, <1>5

RegionsApart == \A r, q \in live : \A a \in Usable(r) : a \in Usable(q) => r = q

(* Two regions are in different blocks.                                      *)
LEMMA BlocksKeepApart == HeapInv => RegionsApart
<1> SUFFICES ASSUME HeapInv, NEW r \in live, NEW q \in live, NEW a \in Usable(r), a \in Usable(q)
             PROVE  r = q
  BY DEF RegionsApart
<1>1. PICK n, f : ListSound(n, f)
  BY DEF HeapInv
<1>2. /\ r.ptr - 1 \in Taken /\ q.ptr - 1 \in Taken /\ a \in Int /\ r.ptr \in Int /\ q.ptr \in Int
      /\ Within(mem, r.ptr - 1, a) /\ Within(mem, q.ptr - 1, a)
  BY <1>1, RegionOfBlock
<1>3. r.ptr - 1 = q.ptr - 1
  BY <1>1, <1>2, OneBlock DEF ListSound
<1> QED
  BY <1>2, <1>3 DEF HeapInv, RegionsSound

LEMMA FreeEffect ==
  ASSUME HeapInv, NEW r \in live, DeAlloc(r)
  PROVE  /\ r.ptr \in Int /\ r.ptr - 1 \in Heap /\ r.ptr \in RAM
         /\ mem' = [a \in RAM |-> IF a = r.ptr THEN freeList ELSE mem[a]]
         /\ freeList' = r.ptr - 1 /\ live' = live \ {r}
         /\ pc = "user" /\ UNCHANGED <<pc, size>>
<1>1. PICK n, f : ListSound(n, f)
  BY DEF HeapInv
<1>2. r.ptr \in Int /\ r.ptr - 1 \in Heap
  BY <1>1, RegionOfBlock
<1>3. Wrap(r.ptr - 1) = r.ptr - 1
  <2>1. 0 <= r.ptr - 1 /\ r.ptr - 1 < 2 * RamSize
    BY <1>2, HeapAssumption DEF Heap, RAM
  <2> QED
    BY <1>2, <2>1, Unwrapped
<1>4. (r.ptr - 1) + 1 = r.ptr /\ r.ptr \in RAM
  BY <1>2, HeapInMemory
<1>5. Poked({r.ptr}, freeList) = [a \in RAM |-> IF a = r.ptr THEN freeList ELSE mem[a]]
  BY <1>4, PokedOne
<1> QED
  BY <1>2, <1>3, <1>4, <1>5 DEF DeAlloc

LEMMA FreeKeeps == ASSUME NEW r \in live PROVE HeapInv /\ DeAlloc(r) => HeapInv'
<1> SUFFICES ASSUME HeapInv, DeAlloc(r) PROVE HeapInv'
  OBVIOUS
<1>1. PICK n, f : ListSound(n, f)
  BY DEF HeapInv
<1>2. /\ r.ptr \in Int /\ r.ptr - 1 \in Heap /\ r.ptr \in RAM
      /\ mem' = [a \in RAM |-> IF a = r.ptr THEN freeList ELSE mem[a]]
      /\ freeList' = r.ptr - 1 /\ live' = live \ {r}
      /\ pc = "user" /\ UNCHANGED <<pc, size>>
  BY FreeEffect
<1> DEFINE o == r.ptr - 1
           g == [j \in 1..(n + 1) + 1 |-> IF j = 1 THEN o ELSE f[j - 1]]
           blocks == Listed(n, f) \cup Taken
<1>3. /\ Tiled(mem, blocks) /\ IsList(n, f) /\ Listed(n, f) \cap Taken = {} /\ blocks \subseteq Heap
      /\ o \in Taken /\ o \in Heap /\ o \in Int /\ r.ptr = o + 1
  BY <1>1, RegionOfBlock DEF ListSound, Tiled
<1>4. \A b \in blocks : b \in Int /\ b \in RAM /\ b + 1 \in RAM /\ b # 0
  BY <1>3, HeapInMemory
<1>5. mem' = [a \in RAM |-> IF a = o + 1 THEN freeList ELSE mem[a]]
  BY <1>2, <1>3
<1>6. freeList' = o
  BY <1>2
<1>7. Taken' = Taken \ {o}
  <2>1. \A q \in live : q \in live' <=> q.ptr - 1 # o
    BY <1>2, <1>3 DEF HeapInv, RegionsSound
  <2> HIDE DEF o
  <2> QED
    BY <1>2, <2>1 DEF Taken
<1> HIDE DEF o
<1>8. ASSUME NEW b \in blocks PROVE mem'[b] = mem[b]
  <2>1. b # o + 1
    <3>1. Within(mem, o, o + 1)
      BY <1>3, HeaderWithin
    <3> QED
      BY <1>3, <1>4, <3>1, InsideIsNobodyElse
  <2> QED
    BY <1>4, <1>5, <2>1
<1>9. n \in Nat /\ f \in [1..n + 1 -> Heap \cup {0}] /\ f[1] = freeList /\ f[n + 1] = 0
  BY <1>3 DEF IsList
<1>10. ASSUME NEW j \in 1..n
       PROVE  f[j] \in Heap /\ f[j] # o /\ f[j] \in blocks /\ mem'[f[j] + 1] = f[j + 1]
  <2>1. f[j] \in Heap /\ mem[f[j] + 1] = f[j + 1] /\ f[j] \in Listed(n, f)
    BY <1>3 DEF IsList, Listed
  <2>2. f[j] # o /\ f[j] \in Int /\ f[j] + 1 \in RAM /\ f[j] + 1 # o + 1
    BY <1>3, <1>4, <2>1
  <2> QED
    BY <1>5, <2>1, <2>2
<1>11. ASSUME NEW j \in 1..(n + 1) + 1 PROVE g[j] = IF j = 1 THEN o ELSE f[j - 1]
  OBVIOUS
<1>12. g \in [1..(n + 1) + 1 -> Heap \cup {0}]
  BY <1>3, <1>9
<1> HIDE DEF g
<1>13. g[1] = freeList' /\ g[(n + 1) + 1] = 0
  <2>1. 1 \in 1..(n + 1) + 1 /\ (n + 1) + 1 \in 1..(n + 1) + 1 /\ (n + 1) + 1 # 1 /\ ((n + 1) + 1) - 1 = n + 1
    BY <1>9
  <2> QED
    BY <1>6, <1>9, <1>11, <2>1
<1>14. ASSUME NEW j \in 1..(n + 1) PROVE g[j] \in Heap /\ mem'[g[j] + 1] = g[j + 1]
  <2>1. j \in 1..(n + 1) + 1 /\ j + 1 \in 1..(n + 1) + 1 /\ j + 1 # 1 /\ (j + 1) - 1 = j
    BY <1>9
  <2>2. CASE j = 1
    <3>1. g[j] = o /\ g[j + 1] = f[1]
      BY <1>11, <2>1, <2>2
    <3> QED
      BY <1>3, <1>4, <1>5, <1>9, <3>1
  <2>3. CASE j # 1
    <3>1. j - 1 \in 1..n /\ (j - 1) + 1 = j
      BY <1>9, <2>3
    <3>2. g[j] = f[j - 1] /\ g[j + 1] = f[j]
      BY <1>11, <2>1, <2>3
    <3> QED
      BY <1>10, <3>1, <3>2
  <2> QED
    BY <2>2, <2>3
<1>15. ASSUME NEW j \in 1..(n + 1), NEW k \in 1..(n + 1), g[j] = g[k] PROVE j = k
  <2>1. j \in 1..(n + 1) + 1 /\ k \in 1..(n + 1) + 1
    BY <1>9
  <2>2. /\ j = 1 => g[j] = o
        /\ k = 1 => g[k] = o
        /\ j # 1 => g[j] = f[j - 1] /\ j - 1 \in 1..n
        /\ k # 1 => g[k] = f[k - 1] /\ k - 1 \in 1..n
    BY <1>9, <1>11, <2>1
  <2>3. CASE j # 1 /\ k # 1
    <3>1. j - 1 = k - 1
      BY <1>3, <1>15, <2>2, <2>3 DEF IsList
    <3> QED
      BY <2>1, <3>1
  <2>4. CASE ~ (j # 1 /\ k # 1)
    BY <1>10, <1>15, <2>2, <2>4
  <2> QED
    BY <2>3, <2>4
<1>16. IsList(n + 1, g)'
  BY <1>9, <1>12, <1>13, <1>14, <1>15 DEF IsList
<1>17. Listed(n + 1, g) = Listed(n, f) \cup {o}
  <2>1. ASSUME NEW j \in 1..(n + 1) PROVE g[j] = o \/ \E k \in 1..n : g[j] = f[k]
    <3>1. j \in 1..(n + 1) + 1 /\ (j # 1 => j - 1 \in 1..n)
      BY <1>9
    <3> QED
      BY <1>11, <3>1
  <2>2. 1 \in 1..(n + 1) /\ g[1] = o
    BY <1>6, <1>9, <1>13
  <2>3. ASSUME NEW k \in 1..n PROVE k + 1 \in 1..(n + 1) /\ g[k + 1] = f[k]
    <3>1. k + 1 \in 1..(n + 1) /\ k + 1 \in 1..(n + 1) + 1 /\ k + 1 # 1 /\ (k + 1) - 1 = k
      BY <1>9
    <3> QED
      BY <1>11, <3>1
  <2> QED
    BY <2>1, <2>2, <2>3 DEF Listed
<1>18. ListSound(n + 1, g)'
  <2>1. (Listed(n + 1, g) \cup Taken)' = blocks
    BY <1>3, <1>7, <1>17
  <2>2. Tiled(mem', blocks)
    BY <1>3, <1>8, SameHeaders
  <2>3. (Listed(n + 1, g) \cap Taken)' = {}
    BY <1>3, <1>7, <1>17
  <2>4. pc' # "scan"
    BY <1>2
  <2> QED
    BY <1>16, <2>1, <2>2, <2>3, <2>4 DEF ListSound, Tiled, Within
<1>19. RegionsSound'
  <2>1. ASSUME NEW q \in live PROVE mem'[q.ptr - 1] = mem[q.ptr - 1]
    BY <1>8 DEF Taken
  <2> QED
    BY <1>2, <2>1 DEF HeapInv, RegionsSound
<1> QED
  BY <1>2, <1>18, <1>19 DEF HeapInv

LEMMA WriteEffect ==
  ASSUME HeapInv, NEW a \in RAM, NEW v, Write(a, v)
  PROVE  /\ mem' = [d \in RAM |-> IF d = a THEN v ELSE mem[d]]
         /\ pc = "user" /\ UNCHANGED <<pc, freeList, live>>
         /\ \E r \in live : a \in Usable(r)
  BY PokedOne DEF Write

LEMMA WriteKeeps == ASSUME NEW a \in RAM, NEW v PROVE HeapInv /\ Write(a, v) => HeapInv'
<1> SUFFICES ASSUME HeapInv, Write(a, v) PROVE HeapInv'
  OBVIOUS
<1>1. PICK n, f : ListSound(n, f)
  BY DEF HeapInv
<1>2. /\ mem' = [d \in RAM |-> IF d = a THEN v ELSE mem[d]]
      /\ pc = "user" /\ UNCHANGED <<pc, freeList, live>>
  BY WriteEffect
<1>3. PICK r \in live : a \in Usable(r)
  BY WriteEffect
<1> DEFINE o == r.ptr - 1
           blocks == Listed(n, f) \cup Taken
<1>4. /\ Tiled(mem, blocks) /\ IsList(n, f) /\ Listed(n, f) \cap Taken = {} /\ blocks \subseteq Heap
      /\ o \in Taken /\ a \in Int /\ Within(mem, o, a) /\ a # o
  BY <1>1, <1>3, RegionOfBlock DEF ListSound, Tiled
<1> HIDE DEF o
<1>5. ASSUME NEW b \in blocks PROVE mem'[b] = mem[b]
  <2>1. b # a /\ b \in RAM
    BY <1>4, InsideIsNobodyElse, HeapInMemory
  <2> QED
    BY <1>2, <2>1
<1>6. ASSUME NEW j \in 1..n PROVE mem'[f[j] + 1] = mem[f[j] + 1]
  <2>1. f[j] \in Listed(n, f) /\ f[j] \in Heap /\ f[j] # o
    BY <1>4 DEF IsList, Listed
  <2>2. f[j] + 1 # a /\ f[j] + 1 \in RAM
    BY <1>4, <2>1, InsideIsNobodyElse, HeapInMemory
  <2> QED
    BY <1>2, <2>2
<1>7. IsList(n, f)' /\ Listed(n, f)' = Listed(n, f) /\ Taken' = Taken
  BY <1>2, <1>4, <1>6, ListStays DEF Listed, Taken
<1>8. Tiled(mem', blocks)
  BY <1>4, <1>5, SameHeaders
<1>9. ListSound(n, f)'
  BY <1>2, <1>4, <1>7, <1>8 DEF ListSound, Tiled, Within
<1>10. RegionsSound'
  <2>1. ASSUME NEW q \in live PROVE mem'[q.ptr - 1] = mem[q.ptr - 1]
    BY <1>5 DEF Taken
  <2> QED
    BY <1>2, <2>1 DEF HeapInv, RegionsSound
<1> QED
  BY <1>2, <1>9, <1>10 DEF HeapInv

LEMMA HeapInductive == Spec => []HeapInv
<1>1. HeapInv /\ [Next]_vars => HeapInv'
  <2> SUFFICES ASSUME HeapInv, [Next]_vars PROVE HeapInv'
    OBVIOUS
  <2>1. ASSUME NEW s \in Requests, Alloc(s) PROVE HeapInv'
    BY <2>1, AllocKeeps
  <2>2. CASE Split
    BY <2>2, SplitKeeps
  <2>3. CASE TakeWhole
    BY <2>3, TakeKeeps
  <2>4. CASE Advance
    BY <2>4, AdvanceKeeps
  <2>5. CASE OutOfMemory
    BY <2>5, ReturnKeeps DEF OutOfMemory
  <2>6. ASSUME NEW r \in live, DeAlloc(r) PROVE HeapInv'
    BY <2>6, FreeKeeps
  <2>7. ASSUME NEW a \in RAM, NEW v \in UserWords, Write(a, v) PROVE HeapInv'
    BY <2>7, WriteKeeps
  <2>8. CASE UNCHANGED vars
    BY <2>8, ReturnKeeps DEF vars
  <2> QED
    BY <2>1, <2>2, <2>3, <2>4, <2>5, <2>6, <2>7, <2>8 DEF Next, Scan
<1> QED
  BY <1>1, HeapStarts, PTL DEF Spec

-----------------------------------------------------------------------------
(* The theorems about the heap *)

LEMMA ListFits ==
  ASSUME NEW n, NEW f, IsList(n, f)
  PROVE  n \in Nat /\ n <= TotalWords
<1> DEFINE g == [i \in 1..n |-> f[i]]
<1>1. g \in Injection(1..n, Heap)
  BY DEF IsList, Injection, IsInjective
<1>2. IsFiniteSet(Heap) /\ Cardinality(Heap) = TotalWords
  BY FS_Interval, HeapAssumption DEF Heap
<1>3. n \in Nat /\ IsFiniteSet(1..n) /\ Cardinality(1..n) = n
  BY FS_Interval DEF IsList
<1>4. Cardinality(1..n) <= Cardinality(Heap)
  BY <1>1, <1>2, FS_Injection
<1> QED
  BY <1>2, <1>3, <1>4

(* Following n links is what the definition of Link says it is.              *)
LEMMA FollowingLinks ==
  ASSUME NEW n, NEW f, IsList(n, f)
  PROVE  Link = [k \in 0..TotalWords |-> IF k <= n THEN f[k + 1] ELSE 0]
<1> DEFINE g == [k \in 0..TotalWords |-> IF k <= n THEN f[k + 1] ELSE 0]
           IsLink(h) == h = [k \in 0..TotalWords |->
                               IF k = 0 THEN freeList
                               ELSE IF h[k - 1] \in Heap THEN mem[h[k - 1] + 1] ELSE 0]
<1>1. n \in Nat /\ n <= TotalWords /\ TotalWords \in Nat /\ 0 \notin Heap
  BY ListFits, HeapAssumption DEF Heap
<1>2. ASSUME NEW k \in 0..TotalWords
      PROVE  g[k] = IF k = 0 THEN freeList
                    ELSE IF g[k - 1] \in Heap THEN mem[g[k - 1] + 1] ELSE 0
  <2>1. CASE k = 0
    BY <1>1, <2>1 DEF IsList
  <2>2. CASE k # 0
    <3>1. k - 1 \in 0..TotalWords /\ (k - 1) + 1 = k
      BY <1>1, <2>2
    <3>2. CASE k <= n
      <4>1. k \in 1..n /\ k - 1 <= n /\ g[k - 1] = f[k] /\ g[k] = f[k + 1]
        BY <1>1, <2>2, <3>1, <3>2
      <4> QED
        BY <2>2, <4>1 DEF IsList
    <3>3. CASE k = n + 1
      <4>1. g[k - 1] = f[n + 1] /\ g[k] = 0
        BY <1>1, <3>1, <3>3
      <4> QED
        BY <1>1, <2>2, <4>1 DEF IsList
    <3>4. CASE k > n + 1
      <4>1. g[k - 1] = 0 /\ g[k] = 0
        BY <1>1, <3>1, <3>4
      <4> QED
        BY <1>1, <2>2, <4>1
    <3> QED
      BY <1>1, <3>2, <3>3, <3>4
  <2> QED
    BY <2>1, <2>2
<1>3. IsLink(g)
  <2>1. g = [k \in 0..TotalWords |-> g[k]]
    OBVIOUS
  <2> HIDE DEF g
  <2> QED
    BY <1>2, <2>1
<1>4. Link = CHOOSE h : IsLink(h)
  BY DEF Link
<1>5. IsLink(Link)
  <2> HIDE DEF IsLink
  <2> QED
    BY <1>3, <1>4
<1>6. ASSUME NEW k \in 0..TotalWords
      PROVE  Link[k] = IF k = 0 THEN freeList
                       ELSE IF Link[k - 1] \in Heap THEN mem[Link[k - 1] + 1] ELSE 0
  BY <1>5
<1> HIDE DEF g
<1> DEFINE S == {k \in Nat : k <= TotalWords => Link[k] = g[k]}
<1>7. 0 \in S
  BY <1>1, <1>2, <1>6
<1>8. ASSUME NEW k \in Nat, k \in S PROVE k + 1 \in S
  <2>1. SUFFICES ASSUME k + 1 <= TotalWords PROVE Link[k + 1] = g[k + 1]
    OBVIOUS
  <2>2. k + 1 \in 0..TotalWords /\ k + 1 # 0 /\ (k + 1) - 1 = k /\ k <= TotalWords
    BY <1>1, <2>1
  <2>3. Link[k] = g[k]
    BY <1>8, <2>2
  <2> QED
    BY <1>2, <1>6, <2>2, <2>3
<1> HIDE DEF S
<1>9. Nat \subseteq S
  <2>1. SUFFICES ASSUME Nat \ S # {} PROVE FALSE
    OBVIOUS
  <2>2. PICK k \in Nat \ S : \A j \in Nat \ S : ~ (<<j, k>> \in OpToRel(<, Nat))
    BY <2>1, WFMin, NatLessThanWellFounded
  <2>3. \A j \in Nat \ S : ~ (j < k)
    BY <2>2 DEF OpToRel
  <2>4. k # 0 /\ k - 1 \in Nat /\ k - 1 < k /\ (k - 1) + 1 = k
    BY <1>7
  <2>5. k - 1 \in S
    BY <2>3, <2>4
  <2> QED
    BY <1>8, <2>4, <2>5
<1>10. \A k \in 0..TotalWords : Link[k] = g[k]
  BY <1>1, <1>9 DEF S
<1>11. Link = [k \in 0..TotalWords |-> Link[k]] /\ g = [k \in 0..TotalWords |-> g[k]]
  <2>1. \E F : Link = [k \in 0..TotalWords |-> F[k]]
    <3> DEFINE F == [k \in 0..TotalWords |-> IF k = 0 THEN freeList
                               ELSE IF Link[k - 1] \in Heap THEN mem[Link[k - 1] + 1] ELSE 0]
    <3>1. Link = F /\ F = [k \in 0..TotalWords |-> F[k]]
      BY <1>5
    <3> QED
      BY <3>1
  <2> QED
    BY <2>1 DEF g
<1> QED
  BY <1>10, <1>11 DEF g

LEMMA FreeBlocksListed ==
  ASSUME NEW n, NEW f, IsList(n, f)
  PROVE  FreeBlocks = Listed(n, f)
<1>1. n \in Nat /\ n <= TotalWords /\ TotalWords \in Nat /\ 0 \notin Heap
  BY ListFits, HeapAssumption DEF Heap
<1>2. Link = [k \in 0..TotalWords |-> IF k <= n THEN f[k + 1] ELSE 0]
  BY FollowingLinks
<1>3. ASSUME NEW k \in 0..TotalWords, Link[k] # 0 PROVE Link[k] \in Listed(n, f)
  <2>1. k <= n /\ Link[k] = f[k + 1] /\ f[n + 1] = 0
    BY <1>2, <1>3 DEF IsList
  <2>2. k + 1 \in 1..n
    BY <1>1, <1>3, <2>1
  <2> QED
    BY <2>1, <2>2 DEF Listed
<1>4. ASSUME NEW i \in 1..n PROVE \E k \in 0..TotalWords : Link[k] = f[i] /\ f[i] # 0
  <2>1. i - 1 \in 0..TotalWords /\ i - 1 <= n /\ (i - 1) + 1 = i
    BY <1>1
  <2>2. f[i] # 0
    BY <1>1 DEF IsList
  <2>3. Link[i - 1] = f[(i - 1) + 1]
    BY <1>2, <2>1
  <2> QED
    BY <2>1, <2>2, <2>3
<1> QED
  BY <1>3, <1>4 DEF FreeBlocks, Listed

LEMMA ExtentIsWithin ==
  ASSUME NEW blocks, Tiled(mem, blocks), NEW b \in blocks, NEW a
  PROVE  a \in Extent(b) <=> a \in Int /\ Within(mem, b, a)
<1>1. b \in Int /\ mem[b] \in Int
  BY HeaderWithin
<1> QED
  BY <1>1 DEF Extent, Within

(* Whatever is requested, freed and written in whatever order, headers of    *)
(* free blocks and of regions tile the heap when a call has returned: no    *)
(* word is lost, and none is in two blocks.                                *)
THEOREM HeapStaysTiled == Spec => []HeapTiled
<1>1. HeapInv => HeapTiled
  <2> SUFFICES ASSUME HeapInv PROVE HeapTiled
    OBVIOUS
  <2>1. PICK n, f : ListSound(n, f)
    BY DEF HeapInv
  <2> DEFINE blocks == Listed(n, f) \cup Taken
  <2>2. Tiled(mem, blocks) /\ FreeBlocks = Listed(n, f) /\ Listed(n, f) \cap Taken = {}
    BY <2>1, FreeBlocksListed DEF ListSound
  <2>3. Blocks = blocks
    BY <2>2 DEF Blocks, Taken
  <2>4. ASSUME NEW a \in Heap PROVE \E b \in blocks : a \in Extent(b)
    <3>1. PICK b \in blocks : Within(mem, b, a)
      BY <2>2 DEF Tiled
    <3> QED
      BY <2>2, <3>1, ExtentIsWithin, HeapInMemory
  <2>5. ASSUME NEW b \in blocks, NEW a \in Extent(b) PROVE a \in Heap
    BY <2>2, ExtentIsWithin, InsideHeap
  <2>6. ASSUME NEW b \in blocks, NEW c \in blocks, NEW a \in Extent(b), a \in Extent(c) PROVE b = c
    BY <2>2, <2>6, ExtentIsWithin, OneBlock
  <2>7. ASSUME NEW r \in live PROVE Usable(r) \subseteq Extent(r.ptr - 1) \ {r.ptr - 1}
    BY <2>1, <2>2, RegionOfBlock, ExtentIsWithin
  <2> HIDE DEF blocks
  <2>8. FreeBlocks \cap {r.ptr - 1 : r \in live} = {}
    BY <2>2 DEF Taken
  <2> QED
    BY <2>3, <2>4, <2>5, <2>6, <2>7, <2>8 DEF HeapTiled
<1> QED
  BY <1>1, HeapInductive, PTL

LEMMA UsableCounted ==
  ASSUME NEW p \in Int, NEW s \in Nat, s >= 1
  PROVE  /\ Cardinality(Usable([ptr |-> p, size |-> s])) = s
         /\ p \in Usable([ptr |-> p, size |-> s])
<1>1. Usable([ptr |-> p, size |-> s]) = p..(p + s - 1)
  BY DEF Usable
<1>2. p + s - 1 \in Int /\ ~ (p > p + s - 1) /\ (p + s - 1) - p + 1 = s
  OBVIOUS
<1>3. Cardinality(p..(p + s - 1)) = s
  BY <1>2, FS_Interval
<1> QED
  BY <1>1, <1>2, <1>3

(* A region that is new is one of Regions.                                   *)
LEMMA ReturnAllocates ==
  ASSUME RegionsApart', NEW p \in Int, NEW s \in Requests,
         live' = live \cup {[ptr |-> p, size |-> s]},
         [ptr |-> p, size |-> s] \notin live
  PROVE  Promise!Allocate
<1> DEFINE new == [ptr |-> p, size |-> s]
           words == Usable(new)
           before == {Usable(r) : r \in live}
<1>1. Cardinality(words) \in Requests /\ p \in words
  BY UsableCounted, RequestRange
<1>2. \A r \in live : Usable(r) \cap words = {}
  <2>1. ASSUME NEW r \in live, NEW a \in Usable(r), a \in words PROVE FALSE
    <3>1. new \in live' /\ r \in live' /\ r # new
      OBVIOUS
    <3> HIDE DEF new
    <3> QED
      BY <2>1, <3>1 DEF RegionsApart, Usable
  <2> HIDE DEF new, words
  <2> QED
    BY <2>1
<1>3. {Usable(r) : r \in live'} = before \cup {words}
  OBVIOUS
<1> HIDE DEF new, words
<1>4. words \cap UNION before = {}
  BY <1>2
<1>5. words \notin before
  BY <1>1, <1>4
<1>6. Promise!Cardinality(words) \in Requests
  BY <1>1 DEF Cardinality, Promise!Cardinality
<1> QED
  BY <1>3, <1>4, <1>5, <1>6 DEF Promise!Allocate, Promise!Cells

(* The heap is an allocator as Regions describes one: alloc hands out as     *)
(* many words as it was asked for, none of which a live region has.         *)
THEOREM HeapImplementsRegions == Spec => IsAllocator
<1>1. Init => Promise!RegionsInit
  BY DEF Init, Promise!RegionsInit
<1>2. HeapInv /\ RegionsApart' /\ [Next]_vars
        => [Promise!Allocate \/ Promise!Release]_({Usable(r) : r \in live})
  <2> SUFFICES ASSUME HeapInv, RegionsApart', [Next]_vars
               PROVE  \/ Promise!Allocate \/ Promise!Release
                      \/ UNCHANGED {Usable(r) : r \in live}
    OBVIOUS
  <2>1. PICK n, f : ListSound(n, f)
    BY DEF HeapInv
  <2>2. Tiled(mem, Listed(n, f) \cup Taken) /\ Listed(n, f) \cap Taken = {}
    BY <2>1 DEF ListSound
  <2>3. CASE Split
    <3>1. PICK i \in 1..n, k \in Int :
            /\ k >= 2 /\ mem[f[i]] - k >= 2 /\ f[i] \in Listed(n, f) /\ f[i] \in Heap
            /\ size \in Requests
            /\ live' = live \cup {[ptr |-> f[i] + k + 1, size |-> size]}
      BY <2>1, <2>3, SplitEffect
    <3> DEFINE t == f[i] + k
    <3>2. /\ Within(mem, f[i], t) /\ f[i] \in Int /\ t \in Int /\ t # f[i]
          /\ t + 1 \in Int /\ (t + 1) - 1 = t
      BY <2>2, <3>1, HeaderWithin DEF Within
    <3> HIDE DEF t
    <3>3. t \notin Taken
      BY <2>2, <3>1, <3>2, InsideIsNobodyElse
    <3>4. [ptr |-> t + 1, size |-> size] \notin live
      BY <3>2, <3>3 DEF Taken
    <3>5. live' = live \cup {[ptr |-> t + 1, size |-> size]}
      BY <3>1 DEF t
    <3> QED
      BY <3>1, <3>2, <3>4, <3>5, ReturnAllocates
  <2>4. CASE TakeWhole
    <3>1. PICK i \in 1..n :
            /\ f[i] \in Listed(n, f) /\ f[i] \in Heap /\ size \in Requests
            /\ live' = live \cup {[ptr |-> f[i] + 1, size |-> size]}
      BY <2>1, <2>4, TakeEffect
    <3>2. f[i] \notin Taken /\ f[i] \in Int /\ f[i] + 1 \in Int /\ (f[i] + 1) - 1 = f[i]
      BY <2>2, <3>1, HeapInMemory
    <3>3. [ptr |-> f[i] + 1, size |-> size] \notin live
      BY <3>2 DEF Taken
    <3> QED
      BY <3>1, <3>2, <3>3, ReturnAllocates
  <2>5. ASSUME NEW r \in live, DeAlloc(r) PROVE Promise!Release
    <3>1. live' \subseteq live
      BY <2>5 DEF DeAlloc
    <3> QED
      BY <3>1 DEF Promise!Release
  <2>6. CASE UNCHANGED live
    BY <2>6
  <2> QED
    BY <2>3, <2>4, <2>5, <2>6 DEF Next, Scan, Alloc, Advance, OutOfMemory, Write, vars
<1>3. HeapInv => RegionsApart
  BY BlocksKeepApart
<1> QED
  BY <1>1, <1>2, <1>3, HeapInductive, PTL DEF Spec, IsAllocator, Promise!RegionsSpec

(* What the allocator itself may write to: words of the heap that no region  *)
(* has that stays the program's.                                           *)
Bookkeeping(a) == a \in Heap /\ \A r \in live \cap live' : a \notin Usable(r)

LEMMA HeaderIsBookkeeping ==
  ASSUME HeapInv, NEW n, NEW f, ListSound(n, f), NEW b \in Listed(n, f), NEW a \in Int,
         Within(mem, b, a)
  PROVE  Bookkeeping(a)
<1>1. Tiled(mem, Listed(n, f) \cup Taken) /\ Listed(n, f) \cap Taken = {}
  BY DEF ListSound
<1>2. a \in Heap
  BY <1>1, InsideHeap
<1>3. ASSUME NEW r \in live, a \in Usable(r) PROVE FALSE
  <2>1. r.ptr - 1 \in Taken /\ Within(mem, r.ptr - 1, a)
    BY <1>3, RegionOfBlock
  <2>2. r.ptr - 1 = b
    BY <1>1, <2>1, OneBlock
  <2> QED
    BY <1>1, <2>1, <2>2
<1> QED
  BY <1>2, <1>3 DEF Bookkeeping

LEMMA OnlyBookkeepingChanges ==
  ASSUME HeapInv, [Next]_vars, ~ (\E a \in RAM, v \in UserWords : Write(a, v)),
         NEW a \in RAM, mem'[a] # mem[a]
  PROVE  Bookkeeping(a)
<1>1. PICK n, f : ListSound(n, f)
  BY DEF HeapInv
<1>2. Tiled(mem, Listed(n, f) \cup Taken) /\ IsList(n, f)
  BY <1>1 DEF ListSound
<1>3. CASE Split
  <2>1. PICK i \in 1..n, k \in Int :
          /\ k >= 2 /\ mem[f[i]] - k >= 2 /\ f[i] \in Listed(n, f)
          /\ mem' = [d \in RAM |-> IF d = f[i] + k THEN size + 1 ELSE IF d = f[i] THEN k ELSE mem[d]]
    BY <1>1, <1>3, SplitEffect
  <2>2. Within(mem, f[i], f[i] + k) /\ Within(mem, f[i], f[i])
    BY <1>2, <2>1, HeaderWithin DEF Within
  <2>3. a = f[i] + k \/ a = f[i]
    BY <2>1
  <2>4. a \in Int
    BY HeapAssumption DEF RAM
  <2> QED
    BY <1>1, <2>1, <2>2, <2>3, <2>4, HeaderIsBookkeeping
<1>4. CASE TakeWhole
  <2>1. PICK i \in 1..n :
          /\ i = 1 => UNCHANGED mem
          /\ i # 1 => /\ i - 1 \in 1..n
                      /\ mem' = [d \in RAM |-> IF d = f[i - 1] + 1 THEN f[i + 1] ELSE mem[d]]
    BY <1>1, <1>4, TakeEffect
  <2>2. i - 1 \in 1..n /\ a = f[i - 1] + 1
    BY <2>1
  <2>3. f[i - 1] \in Listed(n, f)
    BY <2>2 DEF Listed
  <2>4. Within(mem, f[i - 1], a) /\ a \in Int
    BY <1>2, <2>2, <2>3, HeaderWithin, HeapAssumption DEF RAM
  <2> QED
    BY <1>1, <2>3, <2>4, HeaderIsBookkeeping
<1>5. ASSUME NEW r \in live, DeAlloc(r) PROVE Bookkeeping(a)
  <2>1. /\ mem' = [d \in RAM |-> IF d = r.ptr THEN freeList ELSE mem[d]]
        /\ live' = live \ {r} /\ r.ptr \in Int
    BY <1>5, FreeEffect
  <2>2. a = r.ptr
    BY <2>1
  <2>3. a \in Usable(r)
    <3>1. r.size \in Nat /\ r.size >= 1
      BY <1>1, RegionOfBlock
    <3> QED
      BY <2>1, <2>2, <3>1 DEF Usable
  <2>4. a \in Heap
    BY <1>1, <2>3, RegionOfBlock
  <2>5. ASSUME NEW q \in live \cap live', a \in Usable(q) PROVE FALSE
    BY <2>1, <2>3, <2>5, BlocksKeepApart DEF RegionsApart
  <2> QED
    BY <2>4, <2>5 DEF Bookkeeping
<1>6. CASE UNCHANGED mem
  BY <1>6
<1> QED
  BY <1>3, <1>4, <1>5, <1>6 DEF Next, Scan, Alloc, Advance, OutOfMemory, vars

(* Neither alloc nor deAlloc writes outside of the heap or into a region     *)
(* that the program keeps.                                                 *)
THEOREM HeapKeepsContents == Spec => KeepsContents
<1>1. HeapInv /\ [Next]_vars
        => [~ (\E a \in RAM, v \in UserWords : Write(a, v))
              => \A a \in (RAM \ Heap) \cup UNION {Usable(r) : r \in live \cap live'} :
                   mem'[a] = mem[a]]_vars
  <2> SUFFICES ASSUME HeapInv, [Next]_vars, ~ (\E a \in RAM, v \in UserWords : Write(a, v)),
                      NEW a \in (RAM \ Heap) \cup UNION {Usable(r) : r \in live \cap live'}
               PROVE  mem'[a] = mem[a]
    OBVIOUS
  <2>1. ~ Bookkeeping(a)
    BY DEF Bookkeeping
  <2>2. a \in RAM
    <3>1. PICK n, f : ListSound(n, f)
      BY DEF HeapInv
    <3>2. ASSUME NEW r \in live, a \in Usable(r) PROVE a \in RAM
      BY <3>1, <3>2, RegionOfBlock, HeapInMemory
    <3> QED
      BY <3>2
  <2> QED
    BY <2>1, <2>2, OnlyBookkeepingChanges
<1> QED
  BY <1>1, HeapInductive, PTL DEF Spec, KeepsContents

-----------------------------------------------------------------------------
(* Induction and recursion on numbers *)

LEMMA SetInduction ==
  ASSUME NEW S, 0 \in S, \A n \in Nat : n \in S => n + 1 \in S
  PROVE  Nat \subseteq S
<1> DEFINE T == Nat \ S
<1>1. SUFFICES ASSUME T # {} PROVE FALSE
  OBVIOUS
<1>2. PICK x \in T : \A y \in T : ~ (<<y, x>> \in OpToRel(<, Nat))
  BY <1>1, WFMin, NatLessThanWellFounded
<1>3. \A y \in T : ~ (y < x)
  BY <1>2 DEF OpToRel
<1>4. x # 0 /\ x \in Nat /\ x \notin S
  OBVIOUS
<1>5. x - 1 \in Nat /\ x - 1 < x /\ (x - 1) + 1 = x
  BY <1>4
<1>6. x - 1 \in S
  BY <1>3, <1>5
<1>7. x \in S
  BY <1>5, <1>6
<1> QED
  BY <1>4, <1>7

-----------------------------------------------------------------------------
(* Digits *)

(* The rest of a number has fewer digits.                                   *)
LEMMA DigitSplit ==
  ASSUME NEW v \in Nat
  PROVE  /\ v \div 10 \in Nat /\ v % 10 \in 0..9 /\ v = (v \div 10) * 10 + (v % 10)
         /\ v # 0 => v \div 10 < v
  OBVIOUS

DigitsOf(f, v) == IF v = 0 THEN <<>> ELSE <<Digit0 + (v % 10)>> \o f[v \div 10]

DigitsUpto(f, m) == f \in [0..m -> Seq(Int)] /\ \A v \in 0..m : f[v] = DigitsOf(f, v)

LEMMA MoreDigits ==
  ASSUME NEW m \in Nat, NEW f, DigitsUpto(f, m)
  PROVE  \E g : DigitsUpto(g, m + 1)
<1> DEFINE g == [v \in 0..m + 1 |-> IF v = m + 1 THEN DigitsOf(f, m + 1) ELSE f[v]]
<1>1. (m + 1) \div 10 \in 0..m /\ m + 1 # 0 /\ (m + 1) % 10 \in Int
  BY DigitSplit
<1>2. f[(m + 1) \div 10] \in Seq(Int) /\ <<Digit0 + ((m + 1) % 10)>> \in Seq(Int)
  BY <1>1 DEF DigitsUpto, Digit0
<1>3. DigitsOf(f, m + 1) \in Seq(Int)
  BY <1>1, <1>2, ConcatProperties DEF DigitsOf
<1>4. g \in [0..m + 1 -> Seq(Int)]
  BY <1>3 DEF DigitsUpto
<1>5. \A v \in 0..m : g[v] = f[v]
  OBVIOUS
<1>6. g[m + 1] = DigitsOf(f, m + 1)
  OBVIOUS
<1> HIDE DEF g
<1>7. ASSUME NEW v \in 0..m + 1 PROVE g[v] = DigitsOf(g, v)
  <2>1. CASE v = m + 1
    BY <1>1, <1>5, <1>6, <2>1 DEF DigitsOf
  <2>2. CASE v \in 0..m
    <3>1. v # 0 => v \div 10 \in 0..m
      BY <2>2, DigitSplit
    <3> QED
      BY <1>5, <2>2, <3>1 DEF DigitsOf, DigitsUpto
  <2> QED
    BY <2>1, <2>2
<1> QED
  BY <1>4, <1>7 DEF DigitsUpto

LEMMA SameDigits ==
  ASSUME NEW m \in Nat, NEW f, DigitsUpto(f, m), NEW k \in Nat, NEW g, DigitsUpto(g, k)
  PROVE  \A v \in Nat : v <= m /\ v <= k => f[v] = g[v]
<1> DEFINE S == {n \in Nat : \A v \in 0..n : v <= m /\ v <= k => f[v] = g[v]}
<1>1. 0 \in S
  <2>1. 0 \in 0..m /\ 0 \in 0..k /\ \A v \in 0..0 : v = 0
    OBVIOUS
  <2> QED
    BY <2>1 DEF DigitsUpto, DigitsOf
<1>2. ASSUME NEW n \in Nat, n \in S PROVE n + 1 \in S
  <2>1. SUFFICES ASSUME n + 1 <= m, n + 1 <= k PROVE f[n + 1] = g[n + 1]
    BY <1>2
  <2>2. (n + 1) \div 10 \in 0..n /\ n + 1 \in 0..m /\ n + 1 \in 0..k
    BY <2>1, DigitSplit
  <2>3. f[(n + 1) \div 10] = g[(n + 1) \div 10]
    BY <1>2, <2>1, <2>2
  <2> QED
    BY <2>2, <2>3 DEF DigitsUpto, DigitsOf
<1> HIDE DEF S
<1>3. Nat \subseteq S
  BY <1>1, <1>2, SetInduction
<1> QED
  BY <1>3 DEF S

(* The recursive definition of the digits does define a function.           *)
LEMMA DigitsDefined ==
  /\ Backwards[0] = <<>>
  /\ \A v \in Nat : Backwards[v] \in Seq(Int)
  /\ \A v \in Nat \ {0} : Backwards[v] = <<Digit0 + (v % 10)>> \o Backwards[v \div 10]
<1> DEFINE S == {m \in Nat : \E f : DigitsUpto(f, m)}
<1>1. 0 \in S
  <2> DEFINE f == [v \in 0..0 |-> <<>>]
  <2>1. f \in [0..0 -> Seq(Int)] /\ \A v \in 0..0 : v = 0 /\ f[v] = <<>>
    BY EmptySeq
  <2>2. DigitsUpto(f, 0)
    BY <2>1 DEF DigitsUpto, DigitsOf
  <2> QED
    BY <2>2
<1>2. ASSUME NEW m \in Nat, m \in S PROVE m + 1 \in S
  BY <1>2, MoreDigits
<1> HIDE DEF S
<1>3. Nat \subseteq S
  BY <1>1, <1>2, SetInduction
<1> DEFINE F == [v \in Nat |-> (CHOOSE f : DigitsUpto(f, v))[v]]
<1>4. ASSUME NEW v \in Nat PROVE F[v] \in Seq(Int) /\ F[v] = DigitsOf(F, v)
  <2>1. PICK f : f = CHOOSE h : DigitsUpto(h, v)
    OBVIOUS
  <2>2. DigitsUpto(f, v) /\ F[v] = f[v]
    BY <1>3, <2>1 DEF S
  <2>3. v \in 0..v
    OBVIOUS
  <2>4. CASE v = 0
    BY <2>2, <2>3, <2>4 DEF DigitsUpto, DigitsOf
  <2>5. CASE v # 0
    <3>1. PICK w \in Nat : w = v \div 10
      BY DigitSplit
    <3>2. w <= v /\ w \in 0..v
      BY <2>5, <3>1, DigitSplit
    <3>3. PICK g : g = CHOOSE h : DigitsUpto(h, w)
      OBVIOUS
    <3>4. DigitsUpto(g, w) /\ F[w] = g[w]
      BY <1>3, <3>3 DEF S
    <3>5. f[w] = g[w]
      BY <2>2, <3>2, <3>4, SameDigits
    <3> HIDE DEF F
    <3>6. DigitsOf(F, v) = DigitsOf(f, v)
      BY <3>1, <3>4, <3>5 DEF DigitsOf
    <3> QED
      BY <2>2, <2>3, <3>6 DEF DigitsUpto
  <2> QED
    BY <2>4, <2>5
<1>5. F = [v \in Nat |-> DigitsOf(F, v)]
  <2> DEFINE G == [v \in Nat |-> DigitsOf(F, v)]
  <2>1. \A v \in Nat : F[v] = G[v]
    BY <1>4
  <2> QED
    BY <2>1
<1> HIDE DEF F
<1>6. Backwards = [v \in Nat |-> DigitsOf(Backwards, v)]
  BY <1>5 DEF Backwards, DigitsOf
<1>7. \A v \in Nat : Backwards[v] = DigitsOf(Backwards, v)
  BY <1>6
<1> DEFINE Same == {n \in Nat : \A v \in 0..n : Backwards[v] = F[v]}
<1>8. 0 \in Same
  <2>1. \A v \in 0..0 : v = 0
    OBVIOUS
  <2> QED
    BY <1>4, <1>7, <2>1 DEF DigitsOf
<1>9. ASSUME NEW n \in Nat, n \in Same PROVE n + 1 \in Same
  <2>1. (n + 1) \div 10 \in 0..n
    BY DigitSplit
  <2>2. Backwards[(n + 1) \div 10] = F[(n + 1) \div 10]
    BY <1>9, <2>1
  <2>3. Backwards[n + 1] = F[n + 1]
    <3>1. PICK k \in Nat : k = n + 1
      OBVIOUS
    <3>2. /\ Backwards[k] = DigitsOf(Backwards, k) /\ F[k] = DigitsOf(F, k)
          /\ Backwards[k \div 10] = F[k \div 10]
      BY <1>4, <1>7, <2>2, <3>1
    <3>3. DigitsOf(Backwards, k) = DigitsOf(F, k)
      BY <3>2 DEF DigitsOf
    <3> QED
      BY <3>1, <3>2, <3>3
  <2>4. \A v \in 0..n + 1 : v \in 0..n \/ v = n + 1
    OBVIOUS
  <2> QED
    BY <1>9, <2>3, <2>4
<1> HIDE DEF Same
<1>10. Nat \subseteq Same
  BY <1>8, <1>9, SetInduction
<1>11. \A v \in Nat : v \in 0..v
  OBVIOUS
<1>12. \A v \in Nat : Backwards[v] \in Seq(Int)
  BY <1>4, <1>10, <1>11 DEF Same
<1> QED
  BY <1>7, <1>12 DEF DigitsOf

LEMMA WrappedIs ==
  ASSUME NEW n \in Int
  PROVE  /\ Wrapped(n) \in MinWord..(-MinWord - 1)
         /\ n \in MinWord..(-MinWord - 1) => Wrapped(n) = n
<1>1. PICK w \in Nat \ {0} : w = -2 * MinWord
  BY WordAssumption
<1>2. PICK k \in Int : k = n - MinWord
  BY WordAssumption
<1>3. k % w \in 0..w - 1 /\ (k \in 0..w - 1 => k % w = k)
  BY <1>1
<1> QED
  BY <1>1, <1>2, <1>3, WordAssumption DEF Wrapped

LEMMA Reversed ==
  ASSUME NEW s \in Seq(Int)
  PROVE  /\ Reverse(s) \in Seq(Int) /\ Len(Reverse(s)) = Len(s)
         /\ \A i \in 1..Len(s) : Reverse(s)[i] = s[Len(s) - i + 1]
         /\ [i \in DOMAIN s |-> s[Len(s) + 1 - i]] = Reverse(s)
<1>1. PICK n \in Nat : n = Len(s)
  BY LenProperties
<1>2. \A i \in 1..n : s[n - i + 1] \in Int /\ n + 1 - i = n - i + 1
  BY <1>1, ElementOfSeq
<1>3. Reverse(s) = [i \in 1..n |-> s[n - i + 1]] /\ DOMAIN s = 1..n
  BY <1>1, LenProperties DEF Reverse
<1>4. [i \in DOMAIN s |-> s[Len(s) + 1 - i]] = Reverse(s)
  BY <1>1, <1>2, <1>3
<1>5. Reverse(s) \in Seq(Int)
  BY <1>2, <1>3
<1>6. DOMAIN Reverse(s) = 1..n /\ DOMAIN Reverse(s) = 1..Len(Reverse(s)) /\ Len(Reverse(s)) \in Nat
  BY <1>3, <1>5, LenProperties
<1>7. Len(Reverse(s)) = n
  <2>1. PICK m \in Nat : m = Len(Reverse(s))
    BY <1>6
  <2>2. 1..n = 1..m
    BY <1>6, <2>1
  <2> QED
    BY <2>1, <2>2
<1> QED
  BY <1>1, <1>3, <1>4, <1>5, <1>7

(* A digit before the others comes behind them when they are swapped.       *)
LEMMA ReversedDigit ==
  ASSUME NEW s \in Seq(Int), NEW d \in Int
  PROVE  Reverse(<<d>> \o s) = Append(Reverse(s), d)
<1>1. PICK n \in Nat : n = Len(s)
  BY LenProperties
<1>2. <<d>> \in Seq(Int) /\ Len(<<d>>) = 1 /\ <<d>>[1] = d
  OBVIOUS
<1> DEFINE t == <<d>> \o s
<1>3. /\ t \in Seq(Int) /\ Len(t) = n + 1
      /\ \A i \in 1..n + 1 : t[i] = IF i <= 1 THEN <<d>>[i] ELSE s[i - 1]
  BY <1>1, <1>2, ConcatProperties
<1> HIDE DEF t
<1>4. /\ Reverse(t) \in Seq(Int) /\ Len(Reverse(t)) = n + 1
      /\ \A i \in 1..n + 1 : Reverse(t)[i] = t[n + 1 - i + 1]
  BY <1>3, Reversed
<1>5. /\ Reverse(s) \in Seq(Int) /\ Len(Reverse(s)) = n
      /\ \A i \in 1..n : Reverse(s)[i] = s[n - i + 1]
  BY <1>1, Reversed
<1>6. /\ Append(Reverse(s), d) \in Seq(Int) /\ Len(Append(Reverse(s), d)) = n + 1
      /\ \A i \in 1..n : Append(Reverse(s), d)[i] = Reverse(s)[i]
      /\ Append(Reverse(s), d)[n + 1] = d
  BY <1>5, AppendProperties
<1>7. ASSUME NEW i \in 1..n + 1 PROVE Reverse(t)[i] = Append(Reverse(s), d)[i]
  <2>1. PICK k \in 1..n + 1 : k = n + 1 - i + 1
    OBVIOUS
  <2>2. Reverse(t)[i] = t[k]
    BY <1>4, <2>1
  <2>3. CASE i = n + 1
    <3>1. k = 1 /\ t[k] = d
      BY <1>2, <1>3, <2>1, <2>3
    <3> QED
      BY <1>6, <2>2, <2>3, <3>1
  <2>4. CASE i \in 1..n
    <3>1. t[k] = s[k - 1] /\ k - 1 = n - i + 1
      BY <1>3, <2>1, <2>4
    <3> QED
      BY <1>5, <1>6, <2>2, <2>4, <3>1
  <2>5. i = n + 1 \/ i \in 1..n
    BY <1>1
  <2> QED
    BY <2>3, <2>4, <2>5
<1> QED
  BY <1>4, <1>6, <1>7, SeqEqual DEF t

(* The digits of v as they are read                                         *)
Digits(v) == Reverse(Backwards[v])

LEMMA DigitsAre ==
  /\ Digits(0) = <<>>
  /\ \A v \in Nat : Digits(v) \in Seq(Int)
  /\ \A v \in Nat \ {0} : Digits(v) = Append(Digits(v \div 10), Digit0 + (v % 10))
<1>1. Digits(0) = <<>>
  <2>1. <<>> \in Seq(Int) /\ Len(<<>>) = 0
    BY EmptySeq
  <2>2. Reverse(<<>>) \in Seq(Int) /\ Len(Reverse(<<>>)) = 0
    BY <2>1, Reversed
  <2>3. Reverse(<<>>) = <<>>
    BY <2>2, EmptySeq
  <2> QED
    BY <2>3, DigitsDefined DEF Digits
<1>2. \A v \in Nat : Digits(v) \in Seq(Int)
  BY DigitsDefined, Reversed DEF Digits
<1>3. ASSUME NEW v \in Nat \ {0} PROVE Digits(v) = Append(Digits(v \div 10), Digit0 + (v % 10))
  <2>1. PICK w \in Nat, d \in Int : w = v \div 10 /\ d = Digit0 + (v % 10)
    BY DigitSplit DEF Digit0
  <2>2. Backwards[v] = <<d>> \o Backwards[w] /\ Backwards[w] \in Seq(Int)
    BY <2>1, DigitsDefined
  <2> QED
    BY <2>1, <2>2, ReversedDigit DEF Digits
<1> QED
  BY <1>1, <1>2, <1>3

LEMMA PrintedIs ==
  ASSUME NEW n \in Int
  PROVE  /\ n = 0 => PrintedInt(n) = <<Digit0>>
         /\ n > 0 => PrintedInt(n) = Digits(n)
         /\ n < 0 /\ n # MinWord /\ n >= MinWord => PrintedInt(n) = <<Minus>> \o Digits(-n)
         /\ PrintedInt(n) = SetInt(n)
         /\ PrintedInt(n) \in Seq(Int)
<1>1. PICK m : m = IF n < 0 THEN Wrapped(-n) ELSE n
  OBVIOUS
<1>2. m \in Int
  BY <1>1, WrappedIs, WordAssumption
<1>3. PICK t : t = DigitsBackwards(m)
  OBVIOUS
<1>4. t \in Seq(Int) /\ (m > 0 => t = Backwards[m])
  BY <1>2, <1>3, DigitsDefined, EmptySeq DEF DigitsBackwards
<1>5. Reverse(t) \in Seq(Int) /\ [i \in DOMAIN t |-> t[Len(t) + 1 - i]] = Reverse(t)
  BY <1>4, Reversed
<1>6. <<Minus>> \in Seq(Int) /\ <<Digit0>> \in Seq(Int) /\ <<>> \in Seq(Int)
  BY EmptySeq DEF Minus, Digit0
<1>7. CASE n = 0
  BY <1>6, <1>7 DEF PrintedInt, SetInt
<1>8. CASE n > 0
  <2>1. PrintedInt(n) = <<>> \o Reverse(t)
    <3>1. n # 0 /\ ~ (n < 0)
      BY <1>8
    <3> QED
      BY <1>1, <1>3, <1>5, <3>1 DEF PrintedInt
  <2>2. PrintedInt(n) = Reverse(t)
    BY <1>5, <2>1, ConcatEmptySeq
  <2>3. SetInt(n) = Reverse(t)
    BY <1>1, <1>3, <1>8 DEF SetInt
  <2> QED
    BY <1>1, <1>4, <1>5, <1>8, <2>2, <2>3 DEF Digits
<1>9. CASE n < 0
  <2>1. PrintedInt(n) = <<Minus>> \o Reverse(t)
    BY <1>1, <1>3, <1>5, <1>9 DEF PrintedInt
  <2>2. SetInt(n) = <<Minus>> \o Reverse(t)
    BY <1>1, <1>3, <1>9 DEF SetInt
  <2>3. PrintedInt(n) \in Seq(Int)
    BY <1>5, <1>6, <2>1, ConcatProperties
  <2>4. ASSUME n # MinWord, n >= MinWord PROVE Reverse(t) = Digits(-n)
    <3>1. -n \in MinWord..(-MinWord - 1)
      BY <1>9, <2>4, WordAssumption
    <3>2. m = -n
      BY <1>1, <1>9, <3>1, WrappedIs
    <3> QED
      BY <1>4, <1>9, <3>2 DEF Digits
  <2> QED
    BY <1>9, <2>1, <2>2, <2>3, <2>4
<1> QED
  BY <1>7, <1>8, <1>9

-----------------------------------------------------------------------------
(* Reading numbers *)

ValueOf(f, s, first, i) == IF i < first THEN 0 ELSE Wrapped(f[i - 1] * 10 + s[i] - Digit0)

ValuesUpto(f, s, first, m) == f \in [0..m -> Int] /\ \A i \in 0..m : f[i] = ValueOf(f, s, first, i)

LEMMA ValueIsInt ==
  ASSUME NEW s \in Seq(Int), NEW first \in Nat \ {0}, NEW i \in 0..Len(s), NEW f,
         i \in Nat, i # 0 => f[i - 1] \in Int
  PROVE  ValueOf(f, s, first, i) \in Int
<1>1. CASE i < first
  BY <1>1 DEF ValueOf
<1>2. CASE ~ (i < first)
  <2>1. i # 0 /\ i \in 1..Len(s)
    BY <1>2, LenProperties
  <2>2. PICK x \in Int : x = f[i - 1] * 10 + s[i] - Digit0
    BY <2>1, ElementOfSeq DEF Digit0
  <2> QED
    BY <1>2, <2>2, WrappedIs, WordAssumption DEF ValueOf
<1> QED
  BY <1>1, <1>2

LEMMA ValuesExist ==
  ASSUME NEW s \in Seq(Int), NEW first \in Nat \ {0}
  PROVE  \E f : ValuesUpto(f, s, first, Len(s))
<1>1. PICK n \in Nat : n = Len(s)
  BY LenProperties
<1> DEFINE S == {m \in Nat : m <= n => \E f : ValuesUpto(f, s, first, m)}
<1>2. 0 \in S
  <2> DEFINE f == [i \in 0..0 |-> 0]
  <2>1. f \in [0..0 -> Int] /\ \A i \in 0..0 : i = 0 /\ f[i] = 0 /\ i < first
    OBVIOUS
  <2>2. ValuesUpto(f, s, first, 0)
    BY <2>1 DEF ValuesUpto, ValueOf
  <2> QED
    BY <2>2
<1>3. ASSUME NEW m \in Nat, m \in S PROVE m + 1 \in S
  <2>1. SUFFICES ASSUME m + 1 <= n PROVE \E g : ValuesUpto(g, s, first, m + 1)
    OBVIOUS
  <2>2. PICK f : ValuesUpto(f, s, first, m)
    BY <1>3, <2>1
  <2>3. PICK x : x = ValueOf(f, s, first, m + 1)
    OBVIOUS
  <2>4. x \in Int
    <3>1. PICK k : k = m + 1
      OBVIOUS
    <3>2. k \in 0..Len(s) /\ k \in Nat /\ k # 0 /\ f[k - 1] \in Int
      BY <1>1, <2>1, <2>2, <3>1 DEF ValuesUpto
    <3>3. ValueOf(f, s, first, k) \in Int
      BY <3>2, ValueIsInt
    <3> QED
      BY <2>3, <3>1, <3>3
  <2> DEFINE g == [i \in 0..m + 1 |-> IF i = m + 1 THEN x ELSE f[i]]
  <2>5. g \in [0..m + 1 -> Int] /\ g[m + 1] = x /\ \A i \in 0..m : g[i] = f[i]
    BY <2>2, <2>4 DEF ValuesUpto
  <2> HIDE DEF g
  <2>6. ASSUME NEW i \in 0..m + 1 PROVE g[i] = ValueOf(g, s, first, i)
    <3>1. CASE i = m + 1
      <4>1. g[i - 1] = f[i - 1]
        BY <2>5, <3>1
      <4> QED
        BY <2>3, <2>5, <3>1, <4>1 DEF ValueOf
    <3>2. CASE i \in 0..m
      <4>1. i # 0 => i - 1 \in 0..m
        BY <3>2
      <4>2. g[i] = ValueOf(f, s, first, i)
        BY <2>2, <2>5, <3>2 DEF ValuesUpto
      <4> QED
        BY <2>5, <3>2, <4>1, <4>2 DEF ValueOf
    <3> QED
      BY <3>1, <3>2
  <2> QED
    BY <2>5, <2>6 DEF ValuesUpto
<1> HIDE DEF S
<1>4. n \in S
  BY <1>2, <1>3, SetInduction
<1> QED
  BY <1>1, <1>4 DEF S

LEMMA ValuesDefined ==
  ASSUME NEW s \in Seq(Int), NEW first \in Nat \ {0}
  PROVE  ValuesUpto(ValuesBehind(s, first), s, first, Len(s))
<1>1. PICK n \in Nat : n = Len(s)
  BY LenProperties
<1>2. PICK f : ValuesUpto(f, s, first, n)
  BY <1>1, ValuesExist
<1>3. f = [i \in 0..n |-> ValueOf(f, s, first, i)]
  BY <1>2 DEF ValuesUpto
<1>4. PICK v : v = ValuesBehind(s, first)
  OBVIOUS
<1>5. v = [i \in 0..n |-> ValueOf(v, s, first, i)]
  BY <1>1, <1>3, <1>4 DEF ValuesBehind, ValueOf
<1>6. \A i \in 0..n : v[i] = ValueOf(v, s, first, i)
  BY <1>5
<1> DEFINE S == {i \in Nat : i <= n => v[i] \in Int}
<1>7. 0 \in S
  BY <1>6 DEF ValueOf
<1>8. ASSUME NEW m \in Nat, m \in S PROVE m + 1 \in S
  <2>1. SUFFICES ASSUME m + 1 <= n PROVE v[m + 1] \in Int
    OBVIOUS
  <2>2. PICK k : k = m + 1
    OBVIOUS
  <2>3. k \in 0..Len(s) /\ k \in Nat /\ v[k - 1] \in Int /\ k \in 0..n
    BY <1>1, <1>8, <2>1, <2>2
  <2>4. ValueOf(v, s, first, k) \in Int
    BY <2>3, ValueIsInt
  <2> QED
    BY <1>6, <2>2, <2>3, <2>4
<1> HIDE DEF S
<1>9. Nat \subseteq S
  BY <1>7, <1>8, SetInduction
<1>10. \A i \in 0..n : v[i] \in Int
  BY <1>9 DEF S
<1>11. v \in [0..n -> Int]
  BY <1>5, <1>10
<1> QED
  BY <1>1, <1>4, <1>6, <1>11 DEF ValuesUpto

(* What the loop has in value when it comes to the end of s                 *)
ValueAtEnd(s, first) == ValuesBehind(s, first)[Len(s)]

(* A character more                                                         *)
LEMMA ValueStep ==
  ASSUME NEW s \in Seq(Int), NEW first \in Nat \ {0}, NEW c \in Int
  PROVE  /\ ValueAtEnd(s, first) \in Int
         /\ Len(s) < first => ValueAtEnd(s, first) = 0
         /\ first <= Len(s) + 1 =>
              ValueAtEnd(Append(s, c), first) = Wrapped(ValueAtEnd(s, first) * 10 + c - Digit0)
<1>1. PICK n \in Nat : n = Len(s)
  BY LenProperties
<1>2. PICK t : t = Append(s, c)
  OBVIOUS
<1>3. t \in Seq(Int) /\ Len(t) = n + 1 /\ t[n + 1] = c /\ \A i \in 1..n : t[i] = s[i]
  BY <1>1, <1>2, AppendProperties
<1>4. PICK f, g : f = ValuesBehind(s, first) /\ g = ValuesBehind(t, first)
  OBVIOUS
<1>5. ValuesUpto(f, s, first, n)
  BY <1>1, <1>4, ValuesDefined
<1>6. ValuesUpto(g, t, first, n + 1)
  BY <1>3, <1>4, ValuesDefined
<1> DEFINE S == {i \in Nat : i <= n => f[i] = g[i]}
<1>7. 0 \in S
  <2>1. 0 \in 0..n /\ 0 \in 0..n + 1 /\ 0 < first
    OBVIOUS
  <2> QED
    BY <1>5, <1>6, <2>1 DEF ValuesUpto, ValueOf
<1>8. ASSUME NEW m \in Nat, m \in S PROVE m + 1 \in S
  <2>1. SUFFICES ASSUME m + 1 <= n PROVE f[m + 1] = g[m + 1]
    OBVIOUS
  <2>2. PICK k : k = m + 1
    OBVIOUS
  <2>3. k \in 0..n /\ k \in 0..n + 1 /\ k \in 1..n /\ f[k - 1] = g[k - 1]
    BY <1>8, <2>1, <2>2
  <2>4. f[k] = ValueOf(f, s, first, k) /\ g[k] = ValueOf(g, t, first, k) /\ s[k] = t[k]
    BY <1>3, <1>5, <1>6, <2>3 DEF ValuesUpto
  <2> QED
    BY <2>2, <2>3, <2>4 DEF ValueOf
<1> HIDE DEF S
<1>9. Nat \subseteq S
  BY <1>7, <1>8, SetInduction
<1>10. f[n] = g[n] /\ f[n] \in Int
  BY <1>5, <1>9 DEF S, ValuesUpto
<1>11. n < first => f[n] = 0
  BY <1>5 DEF ValuesUpto, ValueOf
<1>12. ASSUME first <= n + 1 PROVE g[n + 1] = Wrapped(f[n] * 10 + c - Digit0)
  <2>1. PICK k : k = n + 1
    OBVIOUS
  <2>2. k \in 0..n + 1 /\ ~ (k < first) /\ k - 1 = n /\ t[k] = c
    BY <1>3, <1>12, <2>1
  <2>3. g[k] = ValueOf(g, t, first, k)
    BY <1>6, <2>2 DEF ValuesUpto
  <2> QED
    BY <1>10, <2>1, <2>2, <2>3 DEF ValueOf
<1>13. ValueAtEnd(s, first) = f[n] /\ ValueAtEnd(t, first) = g[n + 1]
  BY <1>1, <1>3, <1>4 DEF ValueAtEnd
<1> QED
  BY <1>1, <1>2, <1>10, <1>11, <1>12, <1>13

IsDigit(c) == Digit0 <= c /\ c <= Digit9

(* After a sign, or none, the digits of v give v.                           *)
ReadsAs(v, pre) ==
  LET s == pre \o Digits(v)
  IN  /\ s \in Seq(Int) /\ Len(s) >= Len(pre)
      /\ \A i \in 1..Len(s) : IF i <= Len(pre) THEN s[i] = pre[i] ELSE IsDigit(s[i])
      /\ ValueAtEnd(s, Len(pre) + 1) = v

LEMMA DigitsRead ==
  ASSUME NEW pre \in Seq(Int), NEW v \in 0..(-MinWord - 1)
  PROVE  ReadsAs(v, pre)
<1>1. PICK l \in Nat : l = Len(pre)
  BY LenProperties
<1> DEFINE S == {n \in Nat : \A w \in 0..n : w <= -MinWord - 1 => ReadsAs(w, pre)}
<1>2. ReadsAs(0, pre)
  <2>1. pre \o Digits(0) = pre
    BY DigitsAre, ConcatEmptySeq
  <2>2. ValueAtEnd(pre, l + 1) = 0
    <3>1. PICK k \in Nat \ {0} : k = l + 1
      OBVIOUS
    <3>2. Len(pre) < k
      BY <1>1, <3>1
    <3>3. ValueAtEnd(pre, k) = 0
      BY <3>2, ValueStep
    <3> QED
      BY <3>1, <3>3
  <2>3. \A i \in 1..Len(pre) : i <= Len(pre)
    BY <1>1
  <2>4. Len(pre) >= Len(pre)
    BY <1>1
  <2> QED
    BY <1>1, <2>1, <2>2, <2>3, <2>4 DEF ReadsAs
<1>3. 0 \in S
  <2>1. \A w \in 0..0 : w = 0
    OBVIOUS
  <2> QED
    BY <1>2, <2>1
<1>4. ASSUME NEW n \in Nat, n \in S PROVE n + 1 \in S
  <2>1. SUFFICES ASSUME n + 1 <= -MinWord - 1 PROVE ReadsAs(n + 1, pre)
    <3>1. \A w \in 0..n + 1 : w \in 0..n \/ w = n + 1
      OBVIOUS
    <3> QED
      BY <1>4, <3>1
  <2>2. PICK u \in Nat \ {0} : u = n + 1
    OBVIOUS
  <2>3. PICK w \in Nat, d \in 0..9 : w = u \div 10 /\ d = u % 10
    BY DigitSplit
  <2>4. w \in 0..n /\ w <= -MinWord - 1 /\ u = w * 10 + d
    <3>1. w < u /\ u = w * 10 + d
      BY <2>3, DigitSplit
    <3> QED
      BY <2>1, <2>2, <3>1, WordAssumption
  <2>5. ReadsAs(w, pre)
    BY <1>4, <2>4
  <2>6. PICK c \in Int : c = Digit0 + d
    BY DEF Digit0
  <2>7. PICK s, t : s = pre \o Digits(w) /\ t = pre \o Digits(u)
    OBVIOUS
  <2>8. s \in Seq(Int) /\ t = Append(s, c)
    <3>1. Digits(u) = Append(Digits(w), c) /\ Digits(w) \in Seq(Int)
      BY <2>2, <2>3, <2>6, DigitsAre
    <3>2. Append(Digits(w), c) = Digits(w) \o <<c>> /\ <<c>> \in Seq(Int)
      BY <3>1, AppendIsConcat
    <3>3. t = s \o <<c>> /\ s \in Seq(Int)
      BY <2>7, <3>1, <3>2, ConcatAssociative, ConcatProperties
    <3> QED
      BY <3>3, AppendIsConcat
  <2>9. PICK m \in Nat : m = Len(s)
    BY <2>8, LenProperties
  <2>10. t \in Seq(Int) /\ Len(t) = m + 1 /\ t[m + 1] = c /\ \A i \in 1..m : t[i] = s[i]
    BY <2>8, <2>9, AppendProperties
  <2>11. /\ m >= l
         /\ \A i \in 1..m : IF i <= l THEN s[i] = pre[i] ELSE IsDigit(s[i])
         /\ ValueAtEnd(s, l + 1) = w
    BY <1>1, <2>5, <2>7, <2>9 DEF ReadsAs
  <2>12. IsDigit(c)
    BY <2>6 DEF IsDigit, Digit0, Digit9
  <2>13. ASSUME NEW i \in 1..m + 1 PROVE IF i <= l THEN t[i] = pre[i] ELSE IsDigit(t[i])
    <3>1. CASE i = m + 1
      BY <1>1, <2>9, <2>10, <2>11, <2>12, <3>1
    <3>2. CASE i \in 1..m
      BY <2>10, <2>11, <3>2
    <3>3. i = m + 1 \/ i \in 1..m
      BY <2>9
    <3> QED
      BY <3>1, <3>2, <3>3
  <2>14. ValueAtEnd(t, l + 1) = u
    <3>1. PICK k \in Nat \ {0} : k = l + 1
      OBVIOUS
    <3>2. k <= Len(s) + 1
      BY <1>1, <2>9, <2>11, <3>1
    <3>3. ValueAtEnd(t, k) = Wrapped(ValueAtEnd(s, k) * 10 + c - Digit0)
      BY <2>8, <3>2, ValueStep
    <3>4. ValueAtEnd(t, k) = Wrapped(w * 10 + c - Digit0)
      BY <2>11, <3>1, <3>3
    <3>5. w * 10 + c - Digit0 = u /\ u \in MinWord..(-MinWord - 1)
      BY <2>1, <2>2, <2>4, <2>6, WordAssumption DEF Digit0
    <3> QED
      BY <3>1, <3>4, <3>5, WrappedIs
  <2>15. ReadsAs(u, pre)
    BY <1>1, <2>7, <2>9, <2>10, <2>11, <2>13, <2>14 DEF ReadsAs
  <2> QED
    BY <2>2, <2>15
<1> HIDE DEF S
<1>5. Nat \subseteq S
  BY <1>3, <1>4, SetInduction
<1>6. v \in Nat /\ v \in 0..v /\ v <= -MinWord - 1
  BY WordAssumption
<1> QED
  BY <1>5, <1>6 DEF S

LEMMA ReadBack ==
  ASSUME NEW n \in MinWord..(-MinWord - 1), n # MinWord
  PROVE  IntValue(PrintedInt(n)) = n
<1>0. n \in Int
  BY WordAssumption
<1>1. PICK s : s = PrintedInt(n)
  OBVIOUS
<1>2. CASE n = 0
  <2>1. s = <<Digit0>>
    BY <1>1, <1>2, PrintedIs
  <2>2. <<>> \in Seq(Int) /\ Len(<<>>) = 0 /\ s = Append(<<>>, Digit0) /\ Digit0 \in Int
    BY <2>1 DEF Digit0
  <2>3. Len(s) = 1 /\ s[1] = Digit0 /\ s # <<>>
    BY <2>1
  <2>4. ValueAtEnd(s, 1) = Wrapped(ValueAtEnd(<<>>, 1) * 10 + Digit0 - Digit0) /\ ValueAtEnd(<<>>, 1) = 0
    <3>1. PICK e, c : e = <<>> /\ c = Digit0
      OBVIOUS
    <3>2. e \in Seq(Int) /\ c \in Int /\ Len(e) < 1 /\ 1 <= Len(e) + 1 /\ s = Append(e, c)
      BY <2>2, <3>1
    <3>3. /\ ValueAtEnd(e, 1) = 0
          /\ ValueAtEnd(Append(e, c), 1) = Wrapped(ValueAtEnd(e, 1) * 10 + c - Digit0)
      BY <3>2, ValueStep
    <3> QED
      BY <3>1, <3>2, <3>3
  <2>5. Wrapped(0) = 0
    BY WrappedIs, WordAssumption
  <2>6. ValueAtEnd(s, 1) = 0
    BY <2>4, <2>5 DEF Digit0
  <2>7. {i \in 1..Len(s) : s[i] < Digit0 \/ s[i] > Digit9} = {}
    BY <2>3 DEF Digit0, Digit9
  <2>8. ~ (s # <<>> /\ s[1] = Minus)
    BY <2>3 DEF Digit0, Minus
  <2> QED
    BY <1>1, <1>2, <2>6, <2>7, <2>8 DEF IntValue, ValueAtEnd
<1>3. CASE n > 0
  <2>1. s = <<>> \o Digits(n)
    BY <1>0, <1>1, <1>3, PrintedIs, DigitsAre, ConcatEmptySeq
  <2>2. n \in 0..(-MinWord - 1) /\ <<>> \in Seq(Int) /\ Len(<<>>) = 0
    BY <1>0, <1>3, EmptySeq
  <2>3. ReadsAs(n, <<>>)
    BY <2>2, DigitsRead
  <2>4. /\ s \in Seq(Int) /\ Len(s) \in Nat /\ \A i \in 1..Len(s) : IsDigit(s[i]) /\ s[i] \in Int
        /\ ValueAtEnd(s, 1) = n
    <3>1. s \in Seq(Int) /\ Len(s) \in Nat
      BY <2>1, <2>3, LenProperties DEF ReadsAs
    <3>2. \A i \in 1..Len(s) : ~ (i <= Len(<<>>))
      BY <2>2, <3>1
    <3>3. 0 + 1 = 1
      OBVIOUS
    <3> QED
      BY <2>1, <2>2, <2>3, <3>1, <3>2, <3>3, ElementOfSeq DEF ReadsAs
  <2>5. {i \in 1..Len(s) : s[i] < Digit0 \/ s[i] > Digit9} = {}
    BY <2>4 DEF IsDigit, Digit0, Digit9
  <2>6. ~ (s # <<>> /\ s[1] = Minus)
    <3>1. s # <<>> => 1 \in 1..Len(s)
      BY <2>4, EmptySeq
    <3> QED
      BY <2>4, <3>1 DEF IsDigit, Digit0, Minus
  <2> QED
    BY <1>1, <2>4, <2>5, <2>6 DEF IntValue, ValueAtEnd
<1>4. CASE n < 0
  <2>1. PICK v \in 0..(-MinWord - 1) : v = -n
    BY <1>0, <1>4, WordAssumption
  <2>2. s = <<Minus>> \o Digits(v)
    <3>1. n < 0 /\ n # MinWord /\ n >= MinWord
      BY <1>4, WordAssumption
    <3> QED
      BY <1>0, <1>1, <2>1, <3>1, PrintedIs
  <2>3. <<Minus>> \in Seq(Int) /\ Len(<<Minus>>) = 1 /\ <<Minus>>[1] = Minus
    BY DEF Minus
  <2>4. ReadsAs(v, <<Minus>>)
    BY <2>3, DigitsRead
  <2>5. /\ s \in Seq(Int) /\ Len(s) \in Nat /\ Len(s) >= 1
        /\ \A i \in 1..Len(s) : s[i] \in Int /\ IF i <= 1 THEN s[i] = <<Minus>>[i] ELSE IsDigit(s[i])
        /\ ValueAtEnd(s, 2) = v
    <3>1. 1 + 1 = 2
      OBVIOUS
    <3> QED
      BY <2>2, <2>3, <2>4, <3>1, LenProperties, ElementOfSeq DEF ReadsAs
  <2>6. s # <<>> /\ s[1] = Minus
    <3>1. s # <<>>
      BY <2>5, EmptySeq
    <3>2. 1 \in 1..Len(s)
      BY <2>5
    <3> QED
      BY <2>3, <2>5, <3>1, <3>2
  <2>7. {i \in 2..Len(s) : s[i] < Digit0 \/ s[i] > Digit9} = {}
    BY <2>5 DEF IsDigit, Digit0, Digit9
  <2>8. Wrapped(-v) = n
    BY <1>0, <2>1, WrappedIs
  <2> QED
    BY <1>1, <2>5, <2>6, <2>7, <2>8 DEF IntValue, ValueAtEnd
<1> QED
  BY <1>0, <1>2, <1>3, <1>4

-----------------------------------------------------------------------------
(* Editing a line *)

LEMMA FrontOf ==
  ASSUME NEW S, NEW s \in Seq(S), NEW e \in S
  PROVE  Front(Append(s, e)) = s
<1>1. PICK n \in Nat : n = Len(s)
  BY LenProperties
<1>2. PICK t : t = Append(s, e)
  OBVIOUS
<1>3. t \in Seq(S) /\ Len(t) = n + 1 /\ \A i \in 1..n : t[i] = s[i] /\ t[i] \in S
  BY <1>1, <1>2, AppendProperties, ElementOfSeq
<1>4. Front(t) = SubSeq(t, 1, n)
  BY <1>3 DEF Front
<1>5. /\ SubSeq(t, 1, n) \in Seq(S) /\ Len(SubSeq(t, 1, n)) = IF 1 <= n THEN n - 1 + 1 ELSE 0
      /\ \A i \in 1..n - 1 + 1 : SubSeq(t, 1, n)[i] = t[1 + i - 1]
  BY <1>3, SubSeqProperties
<1>6. Len(SubSeq(t, 1, n)) = n /\ \A i \in 1..n : SubSeq(t, 1, n)[i] = s[i]
  BY <1>3, <1>5
<1>7. SubSeq(t, 1, n) = s
  BY <1>1, <1>5, <1>6, SeqEqual
<1> QED
  BY <1>2, <1>4, <1>7

(* What a key makes of a line                                               *)
Stroke(l, k) ==
  IF k # BackSpace THEN Append(l, k) ELSE IF l = <<>> THEN <<>> ELSE Front(l)

LEMMA StrokeTypes ==
  ASSUME NEW S, NEW l \in Seq(S), NEW k \in S
  PROVE  Stroke(l, k) \in Seq(S)
<1>1. CASE k # BackSpace
  BY <1>1, AppendProperties DEF Stroke
<1>2. CASE k = BackSpace /\ l # <<>>
  <2>1. PICK s \in Seq(S), e \in S : l = Append(s, e)
    BY <1>2, SequenceEmptyOrAppend
  <2> QED
    BY <1>2, <2>1, FrontOf DEF Stroke
<1>3. CASE k = BackSpace /\ l = <<>>
  BY <1>3 DEF Stroke
<1> QED
  BY <1>1, <1>2, <1>3

LineOf(f, keys, n) == IF n = 0 THEN <<>> ELSE Stroke(f[n - 1], keys[n])

LinesUpto(f, keys, m) == f \in [0..m -> Seq(Keys)] /\ \A n \in 0..m : f[n] = LineOf(f, keys, n)

LEMMA LineIsSeq ==
  ASSUME NEW keys \in Seq(Keys), NEW n \in 0..Len(keys), NEW f, n # 0 => f[n - 1] \in Seq(Keys)
  PROVE  LineOf(f, keys, n) \in Seq(Keys)
<1>1. CASE n = 0
  BY <1>1, EmptySeq DEF LineOf
<1>2. CASE n # 0
  <2>1. n \in 1..Len(keys)
    BY <1>2, LenProperties
  <2>2. keys[n] \in Keys
    BY <2>1, ElementOfSeq
  <2> QED
    BY <1>2, <2>2, StrokeTypes DEF LineOf
<1> QED
  BY <1>1, <1>2

LEMMA LinesExist ==
  ASSUME NEW keys \in Seq(Keys)
  PROVE  \E f : LinesUpto(f, keys, Len(keys))
<1>1. PICK n \in Nat : n = Len(keys)
  BY LenProperties
<1> DEFINE S == {m \in Nat : m <= n => \E f : LinesUpto(f, keys, m)}
<1>2. 0 \in S
  <2> DEFINE f == [i \in 0..0 |-> <<>>]
  <2>1. f \in [0..0 -> Seq(Keys)] /\ \A i \in 0..0 : i = 0 /\ f[i] = <<>>
    BY EmptySeq
  <2>2. LinesUpto(f, keys, 0)
    BY <2>1 DEF LinesUpto, LineOf
  <2> QED
    BY <2>2
<1>3. ASSUME NEW m \in Nat, m \in S PROVE m + 1 \in S
  <2>1. SUFFICES ASSUME m + 1 <= n PROVE \E g : LinesUpto(g, keys, m + 1)
    OBVIOUS
  <2>2. PICK f : LinesUpto(f, keys, m)
    BY <1>3, <2>1
  <2>3. PICK x : x = LineOf(f, keys, m + 1)
    OBVIOUS
  <2>4. x \in Seq(Keys)
    <3>1. PICK k : k = m + 1
      OBVIOUS
    <3>2. k \in 0..Len(keys) /\ k # 0 /\ f[k - 1] \in Seq(Keys)
      BY <1>1, <2>1, <2>2, <3>1 DEF LinesUpto
    <3>3. LineOf(f, keys, k) \in Seq(Keys)
      BY <3>2, LineIsSeq
    <3> QED
      BY <2>3, <3>1, <3>3
  <2> DEFINE g == [i \in 0..m + 1 |-> IF i = m + 1 THEN x ELSE f[i]]
  <2>5. g \in [0..m + 1 -> Seq(Keys)] /\ g[m + 1] = x /\ \A i \in 0..m : g[i] = f[i]
    BY <2>2, <2>4 DEF LinesUpto
  <2> HIDE DEF g
  <2>6. ASSUME NEW i \in 0..m + 1 PROVE g[i] = LineOf(g, keys, i)
    <3>1. CASE i = m + 1
      <4>1. g[i - 1] = f[i - 1]
        BY <2>5, <3>1
      <4> QED
        BY <2>3, <2>5, <3>1, <4>1 DEF LineOf
    <3>2. CASE i \in 0..m
      <4>1. i # 0 => i - 1 \in 0..m
        BY <3>2
      <4>2. g[i] = LineOf(f, keys, i)
        BY <2>2, <2>5, <3>2 DEF LinesUpto
      <4> QED
        BY <2>5, <3>2, <4>1, <4>2 DEF LineOf
    <3> QED
      BY <3>1, <3>2
  <2> QED
    BY <2>5, <2>6 DEF LinesUpto
<1> HIDE DEF S
<1>4. n \in S
  BY <1>2, <1>3, SetInduction
<1> QED
  BY <1>1, <1>4 DEF S

(* The lines that the definition of Edited goes through                     *)
LinesBehind(keys) ==
  CHOOSE f : f = [n \in 0..Len(keys) |->
                    IF n = 0 THEN <<>>
                    ELSE IF keys[n] # BackSpace THEN Append(f[n - 1], keys[n])
                    ELSE IF f[n - 1] = <<>> THEN <<>>
                    ELSE Front(f[n - 1])]

LEMMA LinesDefined ==
  ASSUME NEW keys \in Seq(Keys)
  PROVE  LinesUpto(LinesBehind(keys), keys, Len(keys)) /\ Edited(keys) = LinesBehind(keys)[Len(keys)]
<1>1. PICK n \in Nat : n = Len(keys)
  BY LenProperties
<1>2. PICK f : LinesUpto(f, keys, n)
  BY <1>1, LinesExist
<1>3. f = [i \in 0..n |-> LineOf(f, keys, i)]
  BY <1>2 DEF LinesUpto
<1>4. PICK v : v = LinesBehind(keys)
  OBVIOUS
<1>5. v = [i \in 0..n |-> LineOf(v, keys, i)]
  BY <1>1, <1>3, <1>4 DEF LinesBehind, LineOf, Stroke
<1>6. \A i \in 0..n : v[i] = LineOf(v, keys, i)
  BY <1>5
<1> DEFINE S == {i \in Nat : i <= n => v[i] \in Seq(Keys)}
<1>7. 0 \in S
  <2>1. v[0] = <<>>
    BY <1>6 DEF LineOf
  <2> QED
    BY <2>1, EmptySeq
<1>8. ASSUME NEW m \in Nat, m \in S PROVE m + 1 \in S
  <2>1. SUFFICES ASSUME m + 1 <= n PROVE v[m + 1] \in Seq(Keys)
    OBVIOUS
  <2>2. PICK k : k = m + 1
    OBVIOUS
  <2>3. k \in 0..Len(keys) /\ v[k - 1] \in Seq(Keys) /\ k \in 0..n
    BY <1>1, <1>8, <2>1, <2>2
  <2>4. LineOf(v, keys, k) \in Seq(Keys)
    BY <2>3, LineIsSeq
  <2> QED
    BY <1>6, <2>2, <2>3, <2>4
<1> HIDE DEF S
<1>9. Nat \subseteq S
  BY <1>7, <1>8, SetInduction
<1>10. \A i \in 0..n : v[i] \in Seq(Keys)
  BY <1>9 DEF S
<1>11. v \in [0..n -> Seq(Keys)]
  BY <1>5, <1>10
<1>12. Edited(keys) = LinesBehind(keys)[Len(keys)]
  BY DEF Edited, LinesBehind
<1> QED
  BY <1>1, <1>4, <1>6, <1>11, <1>12 DEF LinesUpto

(* A key more                                                               *)
LEMMA EditedStep ==
  /\ Edited(<<>>) = <<>>
  /\ \A keys \in Seq(Keys), k \in Keys :
       Edited(keys) \in Seq(Keys) /\ Edited(Append(keys, k)) = Stroke(Edited(keys), k)
<1>1. Edited(<<>>) = <<>>
  <2>1. PICK e : e = <<>>
    OBVIOUS
  <2>2. e \in Seq(Keys) /\ Len(e) = 0
    BY <2>1, EmptySeq
  <2>3. LinesUpto(LinesBehind(e), e, 0) /\ Edited(e) = LinesBehind(e)[0]
    BY <2>2, LinesDefined
  <2> QED
    BY <2>1, <2>3 DEF LinesUpto, LineOf
<1>2. ASSUME NEW s \in Seq(Keys), NEW c \in Keys
      PROVE  Edited(s) \in Seq(Keys) /\ Edited(Append(s, c)) = Stroke(Edited(s), c)
  <2>1. PICK n \in Nat : n = Len(s)
    BY LenProperties
  <2>2. PICK t : t = Append(s, c)
    OBVIOUS
  <2>3. t \in Seq(Keys) /\ Len(t) = n + 1 /\ t[n + 1] = c /\ \A i \in 1..n : t[i] = s[i]
    BY <2>1, <2>2, AppendProperties
  <2>4. PICK f, g : f = LinesBehind(s) /\ g = LinesBehind(t)
    OBVIOUS
  <2>5. LinesUpto(f, s, n) /\ Edited(s) = f[n]
    BY <2>1, <2>4, LinesDefined
  <2>6. LinesUpto(g, t, n + 1) /\ Edited(t) = g[n + 1]
    BY <2>3, <2>4, LinesDefined
  <2> DEFINE S == {i \in Nat : i <= n => f[i] = g[i]}
  <2>7. 0 \in S
    <3>1. 0 \in 0..n /\ 0 \in 0..n + 1
      OBVIOUS
    <3> QED
      BY <2>5, <2>6, <3>1 DEF LinesUpto, LineOf
  <2>8. ASSUME NEW m \in Nat, m \in S PROVE m + 1 \in S
    <3>1. SUFFICES ASSUME m + 1 <= n PROVE f[m + 1] = g[m + 1]
      OBVIOUS
    <3>2. PICK k : k = m + 1
      OBVIOUS
    <3>3. k \in 0..n /\ k \in 0..n + 1 /\ k \in 1..n /\ f[k - 1] = g[k - 1]
      BY <2>8, <3>1, <3>2
    <3>4. f[k] = LineOf(f, s, k) /\ g[k] = LineOf(g, t, k) /\ s[k] = t[k]
      BY <2>3, <2>5, <2>6, <3>3 DEF LinesUpto
    <3> QED
      BY <3>2, <3>3, <3>4 DEF LineOf
  <2> HIDE DEF S
  <2>9. Nat \subseteq S
    BY <2>7, <2>8, SetInduction
  <2>10. f[n] = g[n] /\ f[n] \in Seq(Keys)
    BY <2>5, <2>9 DEF S, LinesUpto
  <2>11. g[n + 1] = Stroke(f[n], c)
    <3>1. PICK k : k = n + 1
      OBVIOUS
    <3>2. k \in 0..n + 1 /\ k # 0 /\ k - 1 = n /\ t[k] = c
      BY <2>3, <3>1
    <3>3. g[k] = LineOf(g, t, k)
      BY <2>6, <3>2 DEF LinesUpto
    <3> QED
      BY <2>10, <3>1, <3>2, <3>3 DEF LineOf
  <2> QED
    BY <2>2, <2>5, <2>6, <2>10, <2>11
<1> QED
  BY <1>1, <1>2

-----------------------------------------------------------------------------
(* Cells *)

CellAt(k) == <<k % Columns, (k \div Columns) % Rows>>

LEMMA Quotient ==
  ASSUME NEW c \in Nat \ {0}, NEW k \in Nat
  PROVE  /\ k \div c \in Nat /\ k % c \in 0..c - 1 /\ k = (k \div c) * c + (k % c)
         /\ (k + 1) % c = IF (k % c) + 1 < c THEN (k % c) + 1 ELSE 0
         /\ (k + 1) \div c = IF (k % c) + 1 < c THEN k \div c ELSE (k \div c) + 1
<1>1. PICK q \in Nat, r \in 0..c - 1 : q = k \div c /\ r = k % c /\ k = q * c + r
  <2>1. k \div c \in Nat /\ k % c \in 0..c - 1 /\ k = (k \div c) * c + (k % c)
    OBVIOUS
  <2> QED
    BY <2>1
<1>2. CASE r + 1 < c
  <2>1. PICK n \in Nat, p \in Nat : n = k + 1 /\ p = r + 1
    OBVIOUS
  <2>2. n = q * c + p /\ p < c
    BY <1>1, <1>2, <2>1
  <2>3. n \div c = q /\ n % c = p
    BY <2>2
  <2> QED
    BY <1>1, <1>2, <2>1, <2>3
<1>3. CASE ~ (r + 1 < c)
  <2>1. PICK n \in Nat, p \in Nat : n = k + 1 /\ p = q + 1
    OBVIOUS
  <2>2. n = p * c + 0 /\ 0 < c
    BY <1>1, <1>3, <2>1
  <2>3. n \div c = p /\ n % c = 0
    BY <2>2
  <2> QED
    BY <1>1, <1>3, <2>1, <2>3
<1> QED
  BY <1>1, <1>2, <1>3

LEMMA Neighbours ==
  ASSUME NEW k \in Nat
  PROVE  /\ CellAt(k) \in Cells
         /\ Behind(CellAt(k)) = CellAt(k + 1)
         /\ Before(CellAt(k + 1)) = CellAt(k)
<1>1. PICK q \in Nat, r \in 0..Columns - 1 : q = k \div Columns /\ r = k % Columns
  BY Quotient, ConsoleAssumption
<1>2. PICK m \in 0..Rows - 1 : m = q % Rows
  BY Quotient, ConsoleAssumption
<1>3. /\ (k + 1) % Columns = IF r + 1 < Columns THEN r + 1 ELSE 0
      /\ (k + 1) \div Columns = IF r + 1 < Columns THEN q ELSE q + 1
  BY <1>1, Quotient, ConsoleAssumption
<1>4. (q + 1) % Rows = IF m + 1 < Rows THEN m + 1 ELSE 0
  BY <1>2, Quotient, ConsoleAssumption
<1>5. CellAt(k) = <<r, m>>
  BY <1>1, <1>2 DEF CellAt
<1>6. CellAt(k + 1) = IF r + 1 < Columns THEN <<r + 1, m>>
                      ELSE <<0, IF m + 1 < Rows THEN m + 1 ELSE 0>>
  BY <1>2, <1>3, <1>4 DEF CellAt
<1>7. CellAt(k) \in Cells
  BY <1>5 DEF Cells
<1>8. Behind(CellAt(k)) = CellAt(k + 1)
  BY <1>5, <1>6 DEF Behind
<1>9. Before(CellAt(k + 1)) = CellAt(k)
  <2>1. CASE r + 1 < Columns
    BY <1>5, <1>6, <2>1 DEF Before
  <2>2. CASE ~ (r + 1 < Columns)
    <3>1. r = Columns - 1
      BY <2>2, ConsoleAssumption
    <3>2. CASE m + 1 < Rows
      BY <1>5, <1>6, <2>2, <3>1, <3>2 DEF Before
    <3>3. CASE ~ (m + 1 < Rows)
      <4>1. m = Rows - 1
        BY <3>3, ConsoleAssumption
      <4> QED
        BY <1>5, <1>6, <2>2, <3>1, <3>3, <4>1 DEF Before
    <3> QED
      BY <3>2, <3>3
  <2> QED
    BY <2>1, <2>2
<1> QED
  BY <1>7, <1>8, <1>9

LEMMA CellItself ==
  ASSUME NEW cell \in Cells
  PROVE  cell[2] * Columns + cell[1] \in Nat /\ CellAt(cell[2] * Columns + cell[1]) = cell
<1>1. PICK i \in 0..Columns - 1, j \in 0..Rows - 1 : cell = <<i, j>>
  BY DEF Cells
<1>2. PICK k \in Nat : k = j * Columns + i
  <2>1. j * Columns + i \in Nat
    BY ConsoleAssumption
  <2> QED
    BY <2>1
<1>3. PICK c \in Nat \ {0}, r \in Nat \ {0} : c = Columns /\ r = Rows
  BY ConsoleAssumption
<1>4. k = j * c + i /\ i < c /\ i \in Nat /\ j \in Nat
  BY <1>2, <1>3
<1>5. k \div c = j /\ k % c = i
  BY <1>4
<1>6. j % r = j
  BY <1>3
<1> QED
  BY <1>1, <1>2, <1>3, <1>5, <1>6 DEF CellAt

LEMMA Multiples ==
  ASSUME NEW c \in Nat \ {0}, NEW a \in Nat, NEW b \in Nat, NEW r \in Nat, a * c + r < b * c + r
  PROVE  a < b
<1>1. SUFFICES ASSUME b <= a PROVE FALSE
  OBVIOUS
<1>2. b < a => b * c + c <= a * c
  BY Products
<1>3. b * c \in Int /\ a * c \in Int
  OBVIOUS
<1> QED
  BY <1>1, <1>2, <1>3

(* Fewer characters than the screen has cells are in cells of their own.    *)
LEMMA OwnCell ==
  ASSUME NEW k \in Nat, NEW n \in Nat, k < n, n - k < Columns * Rows
  PROVE  CellAt(k) # CellAt(n)
<1>1. SUFFICES ASSUME CellAt(k) = CellAt(n) PROVE FALSE
  OBVIOUS
<1>2. PICK c \in Nat \ {0}, h \in Nat \ {0} : c = Columns /\ h = Rows
  BY ConsoleAssumption
<1>3. PICK q, p, r : q = k \div c /\ p = n \div c /\ r = k % c
  OBVIOUS
<1>4. /\ q \in Nat /\ p \in Nat /\ r \in 0..c - 1 /\ r \in Nat
      /\ k = q * c + r /\ n = p * c + r
  <2>1. k % c = n % c
    BY <1>1, <1>2 DEF CellAt
  <2>2. k \div c \in Nat /\ k % c \in 0..c - 1 /\ k = (k \div c) * c + (k % c)
    BY Quotient
  <2>3. n \div c \in Nat /\ n % c \in 0..c - 1 /\ n = (n \div c) * c + (n % c)
    BY Quotient
  <2> QED
    BY <1>3, <2>1, <2>2, <2>3
<1>5. q < p
  BY <1>4, Multiples
<1>6. PICK a, b, m : a = q \div h /\ b = p \div h /\ m = q % h
  OBVIOUS
<1>7. /\ a \in Nat /\ b \in Nat /\ m \in 0..h - 1 /\ m \in Nat
      /\ q = a * h + m /\ p = b * h + m
  <2>1. q % h = p % h
    BY <1>1, <1>2, <1>3 DEF CellAt
  <2>2. q \div h \in Nat /\ q % h \in 0..h - 1 /\ q = (q \div h) * h + (q % h)
    BY <1>4, Quotient
  <2>3. p \div h \in Nat /\ p % h \in 0..h - 1 /\ p = (p \div h) * h + (p % h)
    BY <1>4, Quotient
  <2> QED
    BY <1>6, <2>1, <2>2, <2>3
<1>8. a < b
  BY <1>5, <1>7, Multiples
<1>9. a * h + h <= b * h /\ a * h \in Int /\ b * h \in Int
  BY <1>7, <1>8, Products
<1>10. PICK d \in Nat : d = p - q
  BY <1>4, <1>5
<1>11. d >= h
  BY <1>4, <1>7, <1>9, <1>10
<1>12. d * c >= h * c /\ h * c = c * h /\ d * c \in Int /\ h * c \in Int
  <2>1. h < d => h * c + c <= d * c
    BY <1>10, Products
  <2> QED
    BY <1>10, <1>11, <2>1
<1>13. n - k = d * c
  BY <1>4, <1>10
<1> QED
  BY <1>2, <1>12, <1>13

-----------------------------------------------------------------------------
(* What the cells show *)

Parts == Int \X {"body", "tail"}

LEMMA GlyphParts ==
  ASSUME NEW c
  PROVE  Glyph(c) \in SUBSET Parts
<1>1. (IF c \in Printable THEN c ELSE 0) \in Int
  BY DEF Printable
<1> QED
  BY <1>1 DEF Glyph, Parts

(* The places in t of the characters in a cell, the first one at o          *)
PlacesIn(t, o, cell) == {j \in 1..Len(t) : CellAt(o + j - 1) = cell}

BodiesIn(t, o, cell) == UNION {Bodies(Glyph(t[i])) : i \in PlacesIn(t, o, cell)}

(* Of t, the first character at o, all that EchoShowsLine says              *)
Shows(t, o, cur, cs) ==
  /\ cur = CellAt(o + Len(t))
  /\ \A cell \in Cells : Bodies(cs[cell]) = BodiesIn(t, o, cell)
  /\ \A i \in 1..Len(t) : Glyph(t[i]) \subseteq cs[CellAt(o + i - 1)]

Characters == Int \cup Keys

LEMMA NothingShown ==
  ASSUME NEW o \in Nat, NEW cs, \A cell \in Cells : cs[cell] = {}
  PROVE  Shows(<<>>, o, CellAt(o), cs)
<1>1. PICK e : e = <<>>
  OBVIOUS
<1>2. Len(e) = 0 /\ o + 0 = o /\ 1..0 = {}
  BY <1>1
<1>3. \A cell \in Cells : BodiesIn(e, o, cell) = {}
  BY <1>2 DEF BodiesIn, PlacesIn
<1> QED
  BY <1>1, <1>2, <1>3 DEF Shows, Bodies

LEMMA OneMoreShown ==
  ASSUME NEW t \in Seq(Characters), NEW c \in Characters, NEW o \in Nat, NEW cur,
         NEW cs \in [Cells -> SUBSET Parts], Shows(t, o, cur, cs)
  PROVE  /\ Shows(Append(t, c), o, Behind(cur), [cs EXCEPT ![cur] = @ \cup Glyph(c)])
         /\ [cs EXCEPT ![cur] = @ \cup Glyph(c)] \in [Cells -> SUBSET Parts]
<1>1. PICK n \in Nat : n = Len(t)
  BY LenProperties
<1>2. PICK u : u = Append(t, c)
  OBVIOUS
<1>3. Len(u) = n + 1 /\ u[n + 1] = c /\ \A i \in 1..n : u[i] = t[i]
  BY <1>1, <1>2, AppendProperties
<1>4. PICK k \in Nat : k = o + n
  OBVIOUS
<1>5. cur = CellAt(k) /\ cur \in Cells /\ Behind(cur) = CellAt(k + 1)
  BY <1>1, <1>4, Neighbours DEF Shows
<1>6. PICK ds : ds = [cs EXCEPT ![cur] = @ \cup Glyph(c)]
  OBVIOUS
<1>7. /\ ds \in [Cells -> SUBSET Parts]
      /\ \A cell \in Cells : ds[cell] = IF cell = cur THEN cs[cell] \cup Glyph(c) ELSE cs[cell]
  BY <1>5, <1>6, GlyphParts
<1>8. ASSUME NEW cell \in Cells PROVE Bodies(ds[cell]) = BodiesIn(u, o, cell)
  <2>1. o + (n + 1) - 1 = k
    BY <1>4
  <2>2. PlacesIn(u, o, cell) = PlacesIn(t, o, cell) \cup (IF cell = cur THEN {n + 1} ELSE {})
    BY <1>1, <1>3, <1>5, <2>1 DEF PlacesIn
  <2>3. \A i \in PlacesIn(t, o, cell) : u[i] = t[i]
    BY <1>1, <1>3 DEF PlacesIn
  <2>4. BodiesIn(u, o, cell) = BodiesIn(t, o, cell) \cup (IF cell = cur THEN Bodies(Glyph(c)) ELSE {})
    <3>1. CASE cell = cur
      <4>1. {Bodies(Glyph(u[i])) : i \in PlacesIn(u, o, cell)}
              = {Bodies(Glyph(t[i])) : i \in PlacesIn(t, o, cell)} \cup {Bodies(Glyph(c))}
        BY <1>3, <2>2, <2>3, <3>1
      <4> QED
        BY <3>1, <4>1 DEF BodiesIn
    <3>2. CASE cell # cur
      BY <2>2, <2>3, <3>2 DEF BodiesIn
    <3> QED
      BY <3>1, <3>2
  <2>5. Bodies(cs[cell] \cup Glyph(c)) = Bodies(cs[cell]) \cup Bodies(Glyph(c))
    BY DEF Bodies
  <2> QED
    BY <1>7, <2>4, <2>5 DEF Shows
<1>9. ASSUME NEW i \in 1..n + 1 PROVE Glyph(u[i]) \subseteq ds[CellAt(o + i - 1)]
  <2>1. CASE i = n + 1
    <3>1. o + i - 1 = k
      BY <1>4, <2>1
    <3> QED
      BY <1>3, <1>5, <1>7, <2>1, <3>1
  <2>2. CASE i \in 1..n
    <3>1. PICK m \in Nat : m = o + i - 1
      BY <2>2
    <3>2. CellAt(m) \in Cells /\ Glyph(t[i]) \subseteq cs[CellAt(m)]
      BY <1>1, <2>2, <3>1, Neighbours DEF Shows
    <3> QED
      BY <1>3, <1>7, <2>2, <3>1, <3>2
  <2>3. i = n + 1 \/ i \in 1..n
    OBVIOUS
  <2> QED
    BY <2>1, <2>2, <2>3
<1>10. o + (n + 1) = k + 1
  BY <1>4
<1>11. Shows(u, o, Behind(cur), ds)
  BY <1>3, <1>5, <1>8, <1>9, <1>10 DEF Shows
<1> QED
  BY <1>2, <1>6, <1>7, <1>11

(* The square takes a character away, if no other one is in its cell.       *)
LEMMA OneLessShown ==
  ASSUME NEW t \in Seq(Characters), NEW c \in Characters, NEW o \in Nat, NEW cur,
         NEW cs \in [Cells -> SUBSET Parts], Shows(Append(t, c), o, cur, cs), Len(t) < Columns * Rows
  PROVE  /\ Shows(t, o, Before(Behind(Before(cur))), [cs EXCEPT ![Before(cur)] = @ \ Bodies(@)])
         /\ [cs EXCEPT ![Before(cur)] = @ \ Bodies(@)] \in [Cells -> SUBSET Parts]
<1>1. PICK n \in Nat : n = Len(t)
  BY LenProperties
<1>2. PICK u : u = Append(t, c)
  OBVIOUS
<1>3. Len(u) = n + 1 /\ u[n + 1] = c /\ \A i \in 1..n : u[i] = t[i]
  BY <1>1, <1>2, AppendProperties
<1>4. PICK k \in Nat : k = o + n
  OBVIOUS
<1>5. PICK last : last = Before(cur)
  OBVIOUS
<1>6. last = CellAt(k) /\ last \in Cells /\ Before(Behind(last)) = last
  <2>1. o + (n + 1) = k + 1
    BY <1>4
  <2>2. cur = CellAt(k + 1)
    BY <1>2, <1>3, <2>1 DEF Shows
  <2> QED
    BY <1>5, <2>2, Neighbours
<1>7. PICK ds : ds = [cs EXCEPT ![last] = @ \ Bodies(@)]
  OBVIOUS
<1>8. /\ ds \in [Cells -> SUBSET Parts]
      /\ \A cell \in Cells : ds[cell] = IF cell = last THEN cs[cell] \ Bodies(cs[cell]) ELSE cs[cell]
  <2>1. cs[last] \ Bodies(cs[last]) \in SUBSET Parts
    BY <1>6
  <2> QED
    BY <1>6, <1>7, <2>1
<1>9. ASSUME NEW i \in 1..n PROVE CellAt(o + i - 1) # last /\ CellAt(o + i - 1) \in Cells
  <2>1. PICK m \in Nat : m = o + i - 1
    OBVIOUS
  <2>2. PICK room \in Int : room = Columns * Rows
    BY ConsoleAssumption
  <2>3. m < k /\ k - m <= n /\ n < room
    BY <1>1, <1>4, <2>1, <2>2
  <2>4. m < k /\ k - m < Columns * Rows
    BY <2>2, <2>3
  <2> QED
    BY <1>6, <2>1, <2>4, OwnCell, Neighbours
<1>10. ASSUME NEW cell \in Cells PROVE Bodies(ds[cell]) = BodiesIn(t, o, cell)
  <2>1. o + (n + 1) - 1 = k
    BY <1>4
  <2>2. CASE cell = last
    <3>1. PlacesIn(t, o, cell) = {}
      BY <1>1, <1>9, <2>2 DEF PlacesIn
    <3>2. BodiesIn(t, o, cell) = {}
      BY <3>1 DEF BodiesIn
    <3>3. Bodies(ds[cell]) = {}
      BY <1>8, <2>2 DEF Bodies
    <3> QED
      BY <3>2, <3>3
  <2>3. CASE cell # last
    <3>1. PlacesIn(u, o, cell) = PlacesIn(t, o, cell)
      BY <1>1, <1>3, <1>6, <2>1, <2>3 DEF PlacesIn
    <3>2. \A i \in PlacesIn(t, o, cell) : u[i] = t[i]
      BY <1>1, <1>3 DEF PlacesIn
    <3>3. BodiesIn(u, o, cell) = BodiesIn(t, o, cell)
      BY <3>1, <3>2 DEF BodiesIn
    <3> QED
      BY <1>2, <1>8, <2>3, <3>3 DEF Shows
  <2> QED
    BY <2>2, <2>3
<1>11. ASSUME NEW i \in 1..n PROVE Glyph(t[i]) \subseteq ds[CellAt(o + i - 1)]
  <2>1. i \in 1..Len(u) /\ u[i] = t[i]
    BY <1>1, <1>3
  <2>2. Glyph(u[i]) \subseteq cs[CellAt(o + i - 1)]
    BY <1>2, <2>1 DEF Shows
  <2> QED
    BY <1>8, <1>9, <2>1, <2>2
<1>12. Shows(t, o, last, ds)
  BY <1>1, <1>4, <1>6, <1>10, <1>11 DEF Shows
<1> QED
  BY <1>5, <1>6, <1>7, <1>8, <1>12

-----------------------------------------------------------------------------
(* The invariant *)

Origin == start[2] * Columns + start[1]

Printed == PrintedInt(number)

(* Keys that are in the line or may come there                              *)
Kept == Len(line) + (IF reading \in {"release", "echo"} THEN 1 ELSE 0) + (IF ready THEN 1 ELSE 0)

Room == Len(Printed) + Len(struck) <= Columns * Rows

Typing ==
  /\ number \in Numbers /\ prompt \in Seq(Int)
  /\ reading \in {"move", "prompt", "wait", "release", "echo", "read"}
  /\ cells \in [Cells -> SUBSET Parts]
  /\ struck \in Seq(Keys) /\ line \in Seq(Keys)
  /\ ready \in BOOLEAN /\ (ready => data \in Keys)
  /\ reading \in {"release", "echo"} => pressed \in Keys
  /\ reading # "move" => start \in Cells
  /\ Kept <= Len(struck)
  /\ reading \in {"move", "prompt"} => line = <<>>

EchoInv ==
  /\ reading = "move" => prompt = Printed /\ \A cell \in Cells : cells[cell] = {}
  /\ Room /\ reading = "prompt" =>
       \E t \in Seq(Int) : Printed = t \o prompt /\ Shows(t, Origin, cursor, cells)
  /\ Room /\ reading \in {"wait", "release", "echo"} => Shows(Text, Origin, cursor, cells)

(* What a user who waits has typed                                          *)
TypistInv ==
  /\ reading \in {"move", "prompt"} => struck = <<>> /\ ~ ready
  /\ reading = "wait" => IF ready THEN \E s \in Seq(Keys) : struck = Append(s, data) /\ line = Edited(s)
                                  ELSE line = Edited(struck)
  /\ reading \in {"release", "echo"} =>
       ~ ready /\ \E s \in Seq(Keys) : struck = Append(s, pressed) /\ line = Edited(s)
  /\ reading = "read" => Edited(struck) = Append(line, NewLine)

ConsoleInv ==
  /\ Typing
  /\ EchoInv
  /\ ~ hasty => TypistInv
  /\ reading = "read" => value = IntValue(line)

LEMMA PrintedType == ASSUME Typing PROVE Printed \in Seq(Int) /\ Len(Printed) \in Nat
<1>1. number \in Int
  BY ConsoleAssumption, WordAssumption DEF Typing
<1> QED
  BY <1>1, PrintedIs, LenProperties DEF Printed

LEMMA OriginType == ASSUME Typing, reading # "move" PROVE Origin \in Nat
  BY CellItself DEF Typing, Origin

LEMMA WiderSequences ==
  /\ Seq(Int) \subseteq Seq(Characters)
  /\ Seq(Keys) \subseteq Seq(Characters)
  BY SeqMonotonic DEF Characters

LEMMA TextGrows ==
  ASSUME Typing, NEW l \in Seq(Keys), NEW k \in Keys
  PROVE  /\ Printed \o l \in Seq(Characters)
         /\ Printed \o Append(l, k) = Append(Printed \o l, k)
         /\ Len(Printed \o l) = Len(Printed) + Len(l)
<1>1. /\ Printed \in Seq(Characters) /\ l \in Seq(Characters) /\ k \in Characters
  BY PrintedType, WiderSequences DEF Characters
<1>2. <<k>> \in Seq(Characters)
  BY <1>1
<1>3. Append(l, k) = l \o <<k>> /\ Append(Printed \o l, k) = (Printed \o l) \o <<k>>
  BY <1>1, ConcatProperties, AppendIsConcat
<1> QED
  BY <1>1, <1>2, <1>3, ConcatProperties, ConcatAssociative

LEMMA ConsoleInvSuffices == ConsoleInv => EchoShowsLine /\ SlowTypistIsRead /\ NumbersReadBack
<1> SUFFICES ASSUME ConsoleInv PROVE EchoShowsLine /\ SlowTypistIsRead /\ NumbersReadBack
  OBVIOUS
<1>1. EchoShowsLine
  <2>1. SUFFICES ASSUME reading = "wait", Room
                 PROVE  /\ cursor = CellBehind(Len(Text))
                        /\ \A cell \in Cells :
                             Bodies(cells[cell]) =
                               UNION {Bodies(Glyph(Text[i])) :
                                        i \in {j \in DOMAIN Text : CellBehind(j - 1) = cell}}
                        /\ \A i \in DOMAIN Text : Glyph(Text[i]) \subseteq cells[CellBehind(i - 1)]
    BY DEF EchoShowsLine, Room, Printed
  <2>2. Shows(Text, Origin, cursor, cells) /\ Origin \in Nat
    BY <2>1, OriginType DEF ConsoleInv, EchoInv, Typing
  <2>3. PICK t, o : t = Text /\ o = Origin
    OBVIOUS
  <2>4. DOMAIN t = 1..Len(t) /\ Len(t) \in Nat
    <3>1. Printed \in Seq(Characters) /\ line \in Seq(Characters)
      BY PrintedType, WiderSequences DEF ConsoleInv, Typing
    <3>2. t \in Seq(Characters)
      BY <2>3, <3>1, ConcatProperties DEF Text, Printed
    <3> QED
      BY <3>2, LenProperties
  <2>5. \A n \in Nat : CellBehind(n) = CellAt(o + n)
    BY <2>3 DEF CellBehind, CellAt, Origin
  <2>6. \A j \in 1..Len(t) : CellBehind(j - 1) = CellAt(o + j - 1)
    <3>1. \A j \in 1..Len(t) : j - 1 \in Nat /\ o + (j - 1) = o + j - 1
      BY <2>2, <2>3, <2>4
    <3> QED
      BY <2>5, <3>1
  <2>7. \A cell \in Cells : {j \in DOMAIN t : CellBehind(j - 1) = cell} = PlacesIn(t, o, cell)
    BY <2>4, <2>6 DEF PlacesIn
  <2>8. Shows(t, o, cursor, cells)
    BY <2>2, <2>3
  <2>9. cursor = CellBehind(Len(t))
    BY <2>4, <2>5, <2>8 DEF Shows
  <2>10. \A cell \in Cells :
           Bodies(cells[cell]) =
             UNION {Bodies(Glyph(t[i])) : i \in {j \in DOMAIN t : CellBehind(j - 1) = cell}}
    BY <2>7, <2>8 DEF Shows, BodiesIn
  <2>11. \A i \in DOMAIN t : Glyph(t[i]) \subseteq cells[CellBehind(i - 1)]
    BY <2>4, <2>6, <2>8 DEF Shows
  <2> QED
    BY <2>3, <2>9, <2>10, <2>11
<1>2. SlowTypistIsRead
  BY DEF SlowTypistIsRead, ConsoleInv, TypistInv
<1>3. NumbersReadBack
  <2>1. PICK n : n = number
    OBVIOUS
  <2>2. n \in MinWord..(-MinWord - 1) /\ n \in Int
    BY <2>1, ConsoleAssumption, WordAssumption DEF ConsoleInv, Typing
  <2>3. PrintedInt(n) = SetInt(n) /\ (n # MinWord => IntValue(PrintedInt(n)) = n)
    BY <2>2, PrintedIs, ReadBack
  <2> QED
    BY <2>1, <2>3 DEF NumbersReadBack, ConsoleInv
<1> QED
  BY <1>1, <1>2, <1>3

-----------------------------------------------------------------------------
(* Steps *)

LEMMA KeptIs ==
  ASSUME Typing
  PROVE  Len(line) \in Nat /\ Len(struck) \in Nat
  BY LenProperties DEF Typing

LEMMA MoveKeeps == ASSUME ConsoleInv, NEW to \in Targets, MoveCursor(to[1], to[2]) PROVE ConsoleInv'
<1>1. /\ reading = "move" /\ reading' = "prompt" /\ start' = cursor' /\ cells' = [cells EXCEPT ![cursor'] = {}]
      /\ UNCHANGED <<number, prompt, ready, data, pressed, line, value, struck, hasty>>
  BY DEF MoveCursor, device, typed
<1>2. to[1] \in Int /\ to[2] \in Int
  BY ConsoleAssumption
<1>3. cursor' \in Cells
  <2>1. Clamp(to[2], Columns) \in 0..Columns - 1 /\ Clamp(to[1], Rows) \in 0..Rows - 1
    BY <1>2, ConsoleAssumption DEF Clamp
  <2> QED
    BY <2>1 DEF MoveCursor, Cells
<1>4. PICK at, cs : at = cursor' /\ cs = cells'
  OBVIOUS
<1>5. /\ at \in Cells /\ cs \in [Cells -> SUBSET Parts] /\ \A cell \in Cells : cs[cell] = {}
  BY <1>1, <1>3, <1>4 DEF ConsoleInv, Typing, EchoInv
<1>6. Typing'
  BY <1>1, <1>3, <1>4, <1>5 DEF ConsoleInv, Typing, Kept
<1>7. PICK o : o = at[2] * Columns + at[1]
  OBVIOUS
<1>8. o \in Nat /\ CellAt(o) = at /\ Origin' = o
  BY <1>1, <1>4, <1>5, <1>7, CellItself DEF Origin
<1>9. Shows(<<>>, o, at, cs)
  BY <1>5, <1>8, NothingShown
<1>10. Printed' = <<>> \o prompt' /\ <<>> \in Seq(Int)
  <2>1. prompt \in Seq(Int) /\ prompt = Printed
    BY <1>1 DEF ConsoleInv, Typing, EchoInv
  <2> QED
    BY <1>1, <2>1, ConcatEmptySeq, EmptySeq DEF Printed
<1>11. EchoInv'
  BY <1>1, <1>4, <1>8, <1>9, <1>10 DEF EchoInv
<1>12. ~ hasty' => TypistInv'
  BY <1>1 DEF ConsoleInv, TypistInv
<1> QED
  BY <1>1, <1>6, <1>11, <1>12 DEF ConsoleInv

LEMMA PromptKeeps == ConsoleInv /\ Prompt => ConsoleInv'
<1> SUFFICES ASSUME ConsoleInv, Prompt PROVE ConsoleInv'
  OBVIOUS
<1>1. /\ reading = "prompt" /\ reading' = "prompt" /\ prompt # <<>> /\ PrintChar(Head(prompt))
      /\ prompt' = Tail(prompt)
      /\ UNCHANGED <<number, ready, data, pressed, line, value, start, struck, hasty>>
  BY DEF Prompt, device, typed
<1>2. PICK c, rest : c = Head(prompt) /\ rest = Tail(prompt)
  OBVIOUS
<1>3. prompt \in Seq(Int) /\ c \in Int /\ rest \in Seq(Int) /\ prompt = <<c>> \o rest
  BY <1>1, <1>2, HeadTailProperties DEF ConsoleInv, Typing
<1>4. PICK cur, cs : cur = cursor /\ cs = cells
  OBVIOUS
<1>5. cursor' = Behind(cur) /\ cells' = [cs EXCEPT ![cur] = @ \cup Glyph(c)]
  BY <1>1, <1>2, <1>4 DEF PrintChar
<1>6. cs \in [Cells -> SUBSET Parts]
  BY <1>4 DEF ConsoleInv, Typing
<1>7. cells' \in [Cells -> SUBSET Parts]
  <2>1. CASE cur \in Cells
    BY <1>5, <1>6, <2>1, GlyphParts
  <2>2. CASE cur \notin Cells
    BY <1>5, <1>6, <2>2
  <2> QED
    BY <2>1, <2>2
<1>8. Typing'
  BY <1>1, <1>2, <1>3, <1>7 DEF ConsoleInv, Typing, Kept
<1>9. ASSUME Room'
      PROVE  \E t \in Seq(Int) : Printed' = t \o prompt' /\ Shows(t, Origin', cursor', cells')
  <2>1. Room /\ Printed' = Printed /\ Origin' = Origin
    BY <1>1, <1>9 DEF Room, Printed, Origin
  <2>2. PICK t \in Seq(Int) : Printed = t \o prompt /\ Shows(t, Origin, cursor, cells)
    BY <1>1, <2>1 DEF ConsoleInv, EchoInv
  <2>3. PICK o \in Nat : o = Origin
    BY <1>1, OriginType DEF ConsoleInv
  <2>4. t \in Seq(Characters) /\ c \in Characters
    BY <1>3, WiderSequences DEF Characters
  <2>5. Shows(Append(t, c), o, cursor', cells')
    BY <1>4, <1>5, <1>6, <2>2, <2>3, <2>4, OneMoreShown
  <2>6. <<c>> \in Seq(Int) /\ Append(t, c) = t \o <<c>> /\ Append(t, c) \in Seq(Int)
    BY <1>3, AppendIsConcat, AppendProperties
  <2>7. Printed = Append(t, c) \o rest
    BY <1>3, <2>2, <2>6, ConcatAssociative
  <2> QED
    BY <1>1, <1>2, <2>1, <2>3, <2>5, <2>6, <2>7
<1>10. EchoInv'
  BY <1>1, <1>9 DEF EchoInv
<1>11. ~ hasty' => TypistInv'
  BY <1>1 DEF ConsoleInv, TypistInv
<1> QED
  BY <1>1, <1>8, <1>10, <1>11 DEF ConsoleInv

LEMMA AskKeeps == ConsoleInv /\ Ask => ConsoleInv'
<1> SUFFICES ASSUME ConsoleInv, Ask PROVE ConsoleInv'
  OBVIOUS
<1>1. /\ reading = "prompt" /\ reading' = "wait" /\ prompt = <<>> /\ line' = <<>> /\ line = <<>>
      /\ UNCHANGED <<cursor, cells, number, prompt, ready, data, pressed, value, start, struck, hasty>>
  BY DEF Ask, device, typed, ConsoleInv, Typing
<1>2. Typing'
  BY <1>1 DEF ConsoleInv, Typing, Kept
<1>3. ASSUME Room' PROVE Shows(Text', Origin', cursor', cells')
  <2>1. Room /\ Printed' = Printed /\ Origin' = Origin
    BY <1>1, <1>3 DEF Room, Printed, Origin
  <2>2. PICK t \in Seq(Int) : Printed = t \o prompt /\ Shows(t, Origin, cursor, cells)
    BY <1>1, <2>1 DEF ConsoleInv, EchoInv
  <2>3. Printed \in Seq(Int)
    BY PrintedType DEF ConsoleInv
  <2>4. Text' = Printed \o <<>>
    BY <1>1 DEF Text, Printed
  <2>5. t = Printed /\ Text' = Printed
    BY <1>1, <2>2, <2>3, <2>4, ConcatEmptySeq
  <2> QED
    BY <1>1, <2>1, <2>2, <2>5
<1>4. EchoInv'
  BY <1>1, <1>3 DEF EchoInv
<1>5. ~ hasty' => TypistInv'
  BY <1>1, EditedStep DEF ConsoleInv, TypistInv
<1> QED
  BY <1>1, <1>2, <1>4, <1>5 DEF ConsoleInv

LEMMA EchoStays ==
  ASSUME ConsoleInv, UNCHANGED <<cursor, cells, number, prompt, line, start>>,
         reading \in {"wait", "release", "echo"}, reading' \in {"wait", "release", "echo", "read"},
         Len(struck) <= Len(struck'), Len(struck') \in Nat
  PROVE  EchoInv'
<1>1. Room' => Room
  <2>1. PICK a, b : a = Len(Printed) /\ b = Columns * Rows
    OBVIOUS
  <2>2. a \in Int /\ b \in Int
    BY <2>1, PrintedType, ConsoleAssumption DEF ConsoleInv
  <2>3. Room' <=> a + Len(struck') <= b
    BY <2>1 DEF Room, Printed
  <2>4. Room <=> a + Len(struck) <= b
    BY <2>1 DEF Room
  <2> QED
    BY <2>2, <2>3, <2>4, KeptIs DEF ConsoleInv
<1> QED
  BY <1>1 DEF ConsoleInv, EchoInv, Origin, Text

LEMMA WaitPressedKeeps == ConsoleInv /\ WaitPressed => ConsoleInv'
<1> SUFFICES ASSUME ConsoleInv, WaitPressed PROVE ConsoleInv'
  OBVIOUS
<1>1. /\ reading = "wait" /\ reading' = "release" /\ ready /\ ready' = FALSE /\ pressed' = data
      /\ UNCHANGED <<data, cursor, cells, number, prompt, line, value, start, struck, hasty>>
  BY DEF WaitPressed, KeyPressed, typed
<1>2. Kept' <= Len(struck')
  <2>1. Kept = Len(line) + 0 + 1 /\ Kept' = Len(line) + 1 + 0
    BY <1>1 DEF Kept
  <2> QED
    BY <1>1, <2>1, KeptIs DEF ConsoleInv, Typing
<1>3. Typing'
  BY <1>1, <1>2 DEF ConsoleInv, Typing
<1>4. EchoInv'
  BY <1>1, EchoStays, KeptIs DEF ConsoleInv
<1>5. ~ hasty' => TypistInv'
  BY <1>1 DEF ConsoleInv, TypistInv
<1> QED
  BY <1>1, <1>3, <1>4, <1>5 DEF ConsoleInv

LEMMA SpinKeeps == ConsoleInv /\ SpinUntilReleased => ConsoleInv'
<1> SUFFICES ASSUME ConsoleInv, SpinUntilReleased PROVE ConsoleInv'
  OBVIOUS
<1>1. /\ reading = "release" /\ reading' = "release" /\ ready /\ ready' = FALSE
      /\ UNCHANGED <<data, cursor, cells, number, prompt, pressed, line, value, start, struck, hasty>>
  BY DEF SpinUntilReleased, KeyPressed, typed
<1>2. Kept' <= Len(struck')
  <2>1. Kept = Len(line) + 1 + 1 /\ Kept' = Len(line) + 1 + 0
    BY <1>1 DEF Kept
  <2> QED
    BY <1>1, <2>1, KeptIs DEF ConsoleInv, Typing
<1>3. Typing'
  BY <1>1, <1>2 DEF ConsoleInv, Typing
<1>4. EchoInv'
  BY <1>1, EchoStays, KeptIs DEF ConsoleInv
<1>5. ~ hasty' => TypistInv'
  BY <1>1 DEF ConsoleInv, TypistInv
<1> QED
  BY <1>1, <1>3, <1>4, <1>5 DEF ConsoleInv

LEMMA ReleasedKeeps == ConsoleInv /\ Released => ConsoleInv'
<1> SUFFICES ASSUME ConsoleInv, Released PROVE ConsoleInv'
  OBVIOUS
<1>1. /\ reading = "release" /\ reading' = "echo"
      /\ UNCHANGED <<cursor, cells, number, prompt, ready, data, pressed, line, value, start, struck, hasty>>
  BY DEF Released, device, typed
<1>2. Typing'
  BY <1>1, KeptIs DEF ConsoleInv, Typing, Kept
<1>3. EchoInv'
  BY <1>1, EchoStays, KeptIs DEF ConsoleInv
<1>4. ~ hasty' => TypistInv'
  BY <1>1 DEF ConsoleInv, TypistInv
<1> QED
  BY <1>1, <1>2, <1>3, <1>4 DEF ConsoleInv

(* The line after a key of a user who waits                                 *)
LEMMA KeyEdits ==
  ASSUME ConsoleInv, reading = "echo", ~ hasty
  PROVE  ~ ready /\ Edited(struck) = Stroke(line, pressed)
<1>1. PICK s \in Seq(Keys) : struck = Append(s, pressed) /\ line = Edited(s)
  BY DEF ConsoleInv, TypistInv
<1>2. PICK k \in Keys : k = pressed
  BY DEF ConsoleInv, Typing
<1> QED
  BY <1>1, <1>2, EditedStep DEF ConsoleInv, TypistInv

LEMMA NewLineKeeps == ConsoleInv /\ EchoNewLine => ConsoleInv'
<1> SUFFICES ASSUME ConsoleInv, EchoNewLine PROVE ConsoleInv'
  OBVIOUS
<1>1. /\ reading = "echo" /\ reading' = "read" /\ pressed = NewLine /\ value' = IntValue(line)
      /\ UNCHANGED <<cells, number, prompt, ready, data, pressed, line, start, struck, hasty>>
  BY DEF EchoNewLine, device, typed
<1>2. Typing'
  BY <1>1, KeptIs DEF ConsoleInv, Typing, Kept
<1>3. EchoInv'
  BY <1>1 DEF EchoInv
<1>4. ~ hasty' => TypistInv'
  <2>1. NewLine # BackSpace
    BY DEF NewLine, BackSpace
  <2> QED
    BY <1>1, <2>1, KeyEdits DEF TypistInv, Stroke
<1> QED
  BY <1>1, <1>2, <1>3, <1>4 DEF ConsoleInv

LEMMA BackSpaceKeeps == ConsoleInv /\ EchoBackSpace => ConsoleInv'
<1> SUFFICES ASSUME ConsoleInv, EchoBackSpace PROVE ConsoleInv'
  OBVIOUS
<1>1. /\ reading = "echo" /\ reading' = "wait" /\ pressed = BackSpace
      /\ UNCHANGED <<number, prompt, ready, data, pressed, value, start, struck, hasty>>
  BY DEF EchoBackSpace, device, typed
<1>2. CASE line = <<>>
  <2>1. line' = line /\ cursor' = cursor /\ cells' = cells
    BY <1>2 DEF EchoBackSpace
  <2>2. Typing'
    BY <1>1, <2>1, KeptIs DEF ConsoleInv, Typing, Kept
  <2>3. EchoInv'
    BY <1>1, <2>1, EchoStays, KeptIs DEF ConsoleInv
  <2>4. ~ hasty' => TypistInv'
    BY <1>1, <1>2, <2>1, KeyEdits DEF TypistInv, Stroke
  <2> QED
    BY <1>1, <2>2, <2>3, <2>4 DEF ConsoleInv
<1>3. CASE line # <<>>
  <2>1. /\ line' = Front(line)
        /\ cells' = [cells EXCEPT ![Before(cursor)] = @ \ Bodies(@)]
        /\ cursor' = Before(Behind(Before(cursor)))
    BY <1>3 DEF EchoBackSpace, EraseLastChar
  <2>2. PICK l \in Seq(Keys), k \in Keys : line = Append(l, k)
    BY <1>3, SequenceEmptyOrAppend DEF ConsoleInv, Typing
  <2>3. line' = l
    BY <2>1, <2>2, FrontOf
  <2>4. Len(line) = Len(l) + 1 /\ Len(l) \in Nat
    BY <2>2, AppendProperties, LenProperties
  <2>5. PICK cur, cs, ds : cur = cursor /\ cs = cells /\ ds = cells'
    OBVIOUS
  <2>6. cs \in [Cells -> SUBSET Parts] /\ ds = [cs EXCEPT ![Before(cur)] = @ \ Bodies(@)]
    BY <2>1, <2>5 DEF ConsoleInv, Typing
  <2>7. ds \in [Cells -> SUBSET Parts]
    <3>1. CASE Before(cur) \in Cells
      <4>1. cs[Before(cur)] \ Bodies(cs[Before(cur)]) \in SUBSET Parts
        BY <2>6, <3>1
      <4> QED
        BY <2>6, <3>1, <4>1
    <3>2. CASE Before(cur) \notin Cells
      BY <2>6, <3>2
    <3> QED
      BY <3>1, <3>2
  <2>8. Typing'
    BY <1>1, <2>3, <2>4, <2>5, <2>7, KeptIs DEF ConsoleInv, Typing, Kept
  <2>9. ASSUME Room' PROVE Shows(Text', Origin', cursor', cells')
    <3>1. Room /\ Printed' = Printed /\ Origin' = Origin
      BY <1>1, <2>9 DEF Room, Printed, Origin
    <3>2. PICK o, t : o \in Nat /\ o = Origin /\ t = Printed \o l
      BY <1>1, OriginType DEF ConsoleInv
    <3>3. /\ t \in Seq(Characters) /\ k \in Characters /\ Text = Append(t, k) /\ Text' = t
          /\ Len(t) = Len(Printed) + Len(l)
      BY <1>1, <2>2, <2>3, <3>2, TextGrows DEF ConsoleInv, Text, Printed, Characters
    <3>4. Len(t) < Columns * Rows
      <4>1. Len(l) + 1 <= Len(struck)
        BY <1>1, <2>4, KeptIs DEF ConsoleInv, Typing, Kept
      <4>2. PICK room \in Int : room = Columns * Rows
        BY ConsoleAssumption
      <4> QED
        BY <2>4, <3>1, <3>3, <4>1, <4>2, PrintedType, KeptIs DEF ConsoleInv, Room
    <3>5. Shows(Append(t, k), o, cur, cs)
      BY <1>1, <2>5, <3>1, <3>2, <3>3 DEF ConsoleInv, EchoInv
    <3>6. Shows(t, o, Before(Behind(Before(cur))), ds)
      BY <2>6, <3>2, <3>3, <3>4, <3>5, OneLessShown
    <3> QED
      BY <2>1, <2>5, <3>1, <3>2, <3>3, <3>6
  <2>10. EchoInv'
    BY <1>1, <2>9 DEF EchoInv
  <2>11. ~ hasty' => TypistInv'
    BY <1>1, <1>3, <2>1, KeyEdits DEF TypistInv, Stroke
  <2> QED
    BY <1>1, <2>8, <2>10, <2>11 DEF ConsoleInv
<1> QED
  BY <1>2, <1>3

LEMMA OtherKeeps == ConsoleInv /\ EchoOther => ConsoleInv'
<1> SUFFICES ASSUME ConsoleInv, EchoOther PROVE ConsoleInv'
  OBVIOUS
<1>1. /\ reading = "echo" /\ reading' = "wait" /\ pressed \notin {NewLine, BackSpace}
      /\ line' = Append(line, pressed) /\ PrintChar(pressed)
      /\ UNCHANGED <<number, prompt, ready, data, pressed, value, start, struck, hasty>>
  BY DEF EchoOther, AppendChar, device, typed
<1>2. PICK k \in Keys : k = pressed
  BY <1>1 DEF ConsoleInv, Typing
<1>3. line \in Seq(Keys) /\ line' \in Seq(Keys) /\ Len(line') = Len(line) + 1
  BY <1>1, <1>2, AppendProperties DEF ConsoleInv, Typing
<1>4. PICK cur, cs : cur = cursor /\ cs = cells
  OBVIOUS
<1>5. cursor' = Behind(cur) /\ cells' = [cs EXCEPT ![cur] = @ \cup Glyph(k)]
  BY <1>1, <1>2, <1>4 DEF PrintChar
<1>6. cs \in [Cells -> SUBSET Parts]
  BY <1>4 DEF ConsoleInv, Typing
<1>7. cells' \in [Cells -> SUBSET Parts]
  <2>1. CASE cur \in Cells
    BY <1>5, <1>6, <2>1, GlyphParts
  <2>2. CASE cur \notin Cells
    BY <1>5, <1>6, <2>2
  <2> QED
    BY <2>1, <2>2
<1>8. Typing'
  BY <1>1, <1>3, <1>7, KeptIs DEF ConsoleInv, Typing, Kept
<1>9. ASSUME Room' PROVE Shows(Text', Origin', cursor', cells')
  <2>1. Room /\ Printed' = Printed /\ Origin' = Origin
    BY <1>1, <1>9 DEF Room, Printed, Origin
  <2>2. PICK o, t : o \in Nat /\ o = Origin /\ t = Printed \o line
    BY <1>1, OriginType DEF ConsoleInv
  <2>3. t \in Seq(Characters) /\ k \in Characters /\ Text = t /\ Text' = Append(t, k)
    BY <1>1, <1>2, <1>3, <2>2, TextGrows DEF ConsoleInv, Text, Printed, Characters
  <2>4. Shows(t, o, cur, cs)
    BY <1>1, <1>4, <2>1, <2>2, <2>3 DEF ConsoleInv, EchoInv
  <2>5. Shows(Append(t, k), o, cursor', cells')
    BY <1>5, <1>6, <2>2, <2>3, <2>4, OneMoreShown
  <2> QED
    BY <2>1, <2>2, <2>3, <2>5
<1>10. EchoInv'
  BY <1>1, <1>9 DEF EchoInv
<1>11. ~ hasty' => TypistInv'
  BY <1>1, KeyEdits DEF TypistInv, Stroke
<1> QED
  BY <1>1, <1>8, <1>10, <1>11 DEF ConsoleInv

LEMMA StrikeKeeps == ASSUME ConsoleInv, NEW k \in Keys, Strike(k) PROVE ConsoleInv'
<1>1. /\ reading' = reading /\ reading # "read" /\ ready' = TRUE /\ data' = k /\ struck' = Append(struck, k)
      /\ hasty' = (hasty \/ ready \/ reading # "wait")
      /\ UNCHANGED <<cursor, cells, number, prompt, pressed, line, value, start>>
  BY DEF Strike
<1>2. struck' \in Seq(Keys) /\ Len(struck') = Len(struck) + 1
  BY <1>1, AppendProperties DEF ConsoleInv, Typing
<1>3. Typing'
  <2>1. PICK n : n = Len(line) + (IF reading \in {"release", "echo"} THEN 1 ELSE 0)
    OBVIOUS
  <2>2. Kept = n + (IF ready THEN 1 ELSE 0) /\ Kept' = n + 1
    BY <1>1, <2>1 DEF Kept
  <2>3. n \in Nat /\ Len(struck) \in Nat
    BY <2>1, KeptIs DEF ConsoleInv
  <2>4. Kept' <= Len(struck')
    BY <1>2, <2>2, <2>3 DEF ConsoleInv, Typing
  <2> QED
    BY <1>1, <1>2, <2>4 DEF ConsoleInv, Typing
<1>4. Room' => Room
  <2>1. PICK a, b : a = Len(Printed) /\ b = Columns * Rows
    OBVIOUS
  <2>2. a \in Int /\ b \in Int
    BY <2>1, PrintedType, ConsoleAssumption DEF ConsoleInv
  <2>3. Room' <=> a + Len(struck') <= b
    BY <1>1, <2>1 DEF Room, Printed
  <2>4. Room <=> a + Len(struck) <= b
    BY <2>1 DEF Room
  <2> QED
    BY <1>2, <2>2, <2>3, <2>4, KeptIs DEF ConsoleInv
<1>5. EchoInv'
  BY <1>1, <1>4 DEF ConsoleInv, EchoInv, Printed, Origin, Text
<1>6. ASSUME ~ hasty' PROVE TypistInv'
  <2>1. reading = "wait" /\ ~ ready /\ ~ hasty
    BY <1>1, <1>6 DEF ConsoleInv, Typing
  <2>2. struck \in Seq(Keys) /\ line = Edited(struck)
    BY <2>1 DEF ConsoleInv, Typing, TypistInv
  <2> QED
    BY <1>1, <2>1, <2>2 DEF TypistInv
<1> QED
  BY <1>1, <1>3, <1>5, <1>6 DEF ConsoleInv

LEMMA ConsoleStarts == ConsoleInit => ConsoleInv
<1> SUFFICES ASSUME ConsoleInit PROVE ConsoleInv
  OBVIOUS
<1>1. /\ reading = "move" /\ number \in Numbers /\ prompt = Printed /\ cells = [cell \in Cells |-> {}]
      /\ ~ ready /\ line = <<>> /\ struck = <<>> /\ ~ hasty /\ ready \in BOOLEAN
  BY DEF ConsoleInit, ConsoleBlank, Printed
<1>2. number \in Int
  BY <1>1, ConsoleAssumption, WordAssumption
<1>3. prompt \in Seq(Int) /\ <<>> \in Seq(Keys) /\ Len(<<>>) = 0
  BY <1>1, <1>2, PrintedIs, EmptySeq DEF Printed
<1>4. Typing
  BY <1>1, <1>3 DEF Typing, Kept
<1> QED
  BY <1>1, <1>4 DEF ConsoleInv, EchoInv, TypistInv

LEMMA ConsoleKeeps == ConsoleInv /\ [ConsoleNext]_consoleVars => ConsoleInv'
<1>1. ConsoleInv /\ ConsoleNext => ConsoleInv'
  BY MoveKeeps, PromptKeeps, AskKeeps, WaitPressedKeeps, SpinKeeps, ReleasedKeeps, NewLineKeeps,
     BackSpaceKeeps, OtherKeeps, StrikeKeeps DEF ConsoleNext, ConsoleStep
<1>2. ConsoleInv /\ UNCHANGED consoleVars => ConsoleInv'
  <2>1. SUFFICES ASSUME ConsoleInv,
                        UNCHANGED <<reading, cursor, cells, number, prompt, ready, data, pressed, line, value,
                                    start, struck, hasty>>
                 PROVE  ConsoleInv'
    BY DEF consoleVars, device, typed
  <2>2. Typing' /\ EchoInv' /\ (~ hasty' => TypistInv')
    BY <2>1 DEF ConsoleInv, Typing, Kept, EchoInv, TypistInv, Printed, Room, Origin, Text
  <2> QED
    BY <2>1, <2>2 DEF ConsoleInv
<1> QED
  BY <1>1, <1>2

(* On a screen of any size, wherever the cursor is put first, whatever is   *)
(* printed, struck and erased: while the program waits for a key the       *)
(* cursor is behind the line, and the cells show the line and nothing else *)
(* (Keyboard.readLine, Output.printChar and backSpace).                    *)
THEOREM Echo == ConsoleSpec => []EchoShowsLine
  BY ConsoleStarts, ConsoleKeeps, ConsoleInvSuffices, PTL DEF ConsoleSpec

(* A user who strikes a key only when the program waits for one loses none  *)
(* of any keys, although readChar reads keys away until the key is         *)
(* released: the line is what a line editor makes of them.                 *)
THEOREM SlowTypist == ConsoleSpec => []SlowTypistIsRead
  BY ConsoleStarts, ConsoleKeeps, ConsoleInvSuffices, PTL DEF ConsoleSpec

(* For words of any size: whoever types the number that printInt showed     *)
(* has it read by readInt, unless it is the least word; setInt writes the  *)
(* same as printInt.                                                       *)
THEOREM ReadAgain == ConsoleSpec => []NumbersReadBack
  BY ConsoleStarts, ConsoleKeeps, ConsoleInvSuffices, PTL DEF ConsoleSpec
=============================================================================
