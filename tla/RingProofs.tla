----------------------------- MODULE RingProofs -----------------------------
(***************************************************************************)
(* Lemmas about ring buffers as pipe.c and console.c have them: the        *)
(* counters are unsigned integers that wrap, and the place of an item in   *)
(* the buffer is its counter modulo the buffer's size.                     *)
(***************************************************************************)
EXTENDS Integers, Sequences, SequenceTheorems, TLAPS

CONSTANTS Size,     \* places in the buffer
          Modulus,  \* the counters count modulo this
          Items

Sizes == Size \in Nat \ {0} /\ Modulus \in Nat \ {0} /\ Modulus > Size /\ Modulus % Size = 0

Counters == 0..Modulus - 1
Buffers  == [0..Size - 1 -> Items]

Place(k) == k % Size

\* A counter's ++ and --.
Up(i)   == IF i + 1 < Modulus THEN i + 1 ELSE 0
Down(i) == IF i = 0 THEN Modulus - 1 ELSE i - 1

\* How far counter j is ahead of counter i.
Ahead(i, j) == IF j >= i THEN j - i ELSE j - i + Modulus

\* What the buffer b holds from counter i up to counter j.
Held(b, i, j) == [k \in 1..Ahead(i, j) |-> b[Place(i + k - 1)]]

\* b with x put at counter j.
Written(b, j, x) == [b EXCEPT ![Place(j)] = x]

-----------------------------------------------------------------------------
(* Counters.                                                               *)

LEMMA ModUnique ==
  ASSUME NEW m \in Nat \ {0}, NEW q \in Int, NEW s \in 0..m - 1 PROVE (m * q + s) % m = s
OBVIOUS

LEMMA Divided ==
  ASSUME NEW m \in Nat \ {0}, NEW k \in Int
  PROVE  k \div m \in Int /\ k % m \in 0..m - 1 /\ k = m * (k \div m) + (k % m)
OBVIOUS

LEMMA Wrapped ==
  Sizes => \A k \in Nat : k < 2 * Modulus => k % Modulus = IF k < Modulus THEN k ELSE k - Modulus
<1> SUFFICES ASSUME Sizes, NEW k \in Nat, k < 2 * Modulus
             PROVE  k % Modulus = IF k < Modulus THEN k ELSE k - Modulus
  OBVIOUS
<1>1. Modulus \in Nat \ {0} BY DEF Sizes
<1>2. CASE k < Modulus
  <2>1. k \in 0..Modulus - 1 /\ Modulus * 0 + k = k BY <1>1, <1>2
  <2>2. (Modulus * 0 + k) % Modulus = k BY <1>1, <2>1, ModUnique
  <2> QED BY <1>2, <2>1, <2>2
<1>3. CASE ~(k < Modulus)
  <2>1. k - Modulus \in 0..Modulus - 1 /\ Modulus * 1 + (k - Modulus) = k BY <1>1, <1>3
  <2>2. (Modulus * 1 + (k - Modulus)) % Modulus = k - Modulus BY <1>1, <2>1, ModUnique
  <2> QED BY <1>3, <2>1, <2>2
<1> QED BY <1>2, <1>3

LEMMA UpIs == Sizes => \A i \in Counters : (i + 1) % Modulus = Up(i) /\ Up(i) \in Counters
<1> SUFFICES ASSUME Sizes, NEW i \in Counters
             PROVE  (i + 1) % Modulus = Up(i) /\ Up(i) \in Counters
  OBVIOUS
<1>1. Modulus \in Nat \ {0} /\ i \in 0..Modulus - 1 BY DEF Sizes, Counters
<1>2. CASE i + 1 < Modulus
  <2>1. i + 1 \in 0..Modulus - 1 /\ Modulus * 0 + (i + 1) = i + 1 BY <1>1, <1>2
  <2>2. (Modulus * 0 + (i + 1)) % Modulus = i + 1 BY <1>1, <2>1, ModUnique
  <2> QED BY <1>2, <2>1, <2>2 DEF Up, Counters
<1>3. CASE ~(i + 1 < Modulus)
  <2>1. 0 \in 0..Modulus - 1 /\ Modulus * 1 + 0 = i + 1 BY <1>1, <1>3
  <2>2. (Modulus * 1 + 0) % Modulus = 0 BY <1>1, <2>1, ModUnique
  <2> QED BY <1>3, <2>1, <2>2 DEF Up, Counters
<1> QED BY <1>2, <1>3

LEMMA AheadIs ==
  Sizes => \A i, j \in Counters : (j - i) % Modulus = Ahead(i, j) /\ Ahead(i, j) \in Counters
<1> SUFFICES ASSUME Sizes, NEW i \in Counters, NEW j \in Counters
             PROVE  (j - i) % Modulus = Ahead(i, j) /\ Ahead(i, j) \in Counters
  OBVIOUS
<1>1. Modulus \in Nat \ {0} /\ i \in 0..Modulus - 1 /\ j \in 0..Modulus - 1 BY DEF Sizes, Counters
<1>2. CASE j >= i
  <2>1. j - i \in 0..Modulus - 1 /\ Modulus * 0 + (j - i) = j - i BY <1>1, <1>2
  <2>2. (Modulus * 0 + (j - i)) % Modulus = j - i BY <1>1, <2>1, ModUnique
  <2> QED BY <1>2, <2>1, <2>2 DEF Ahead, Counters
<1>3. CASE ~(j >= i)
  <2>1. j - i + Modulus \in 0..Modulus - 1 /\ Modulus * (-1) + (j - i + Modulus) = j - i BY <1>1, <1>3
  <2>2. (Modulus * (-1) + (j - i + Modulus)) % Modulus = j - i + Modulus BY <1>1, <2>1, ModUnique
  <2> QED BY <1>3, <2>1, <2>2 DEF Ahead, Counters
<1> QED BY <1>2, <1>3

LEMMA DownIs == Sizes => \A i \in Counters : (i - 1) % Modulus = Down(i) /\ Down(i) \in Counters
<1> SUFFICES ASSUME Sizes, NEW i \in Counters
             PROVE  (i - 1) % Modulus = Down(i) /\ Down(i) \in Counters
  OBVIOUS
<1>1. Modulus \in Nat \ {0} /\ i \in 0..Modulus - 1 BY DEF Sizes, Counters
<1>2. CASE i = 0
  <2>1. Modulus - 1 \in 0..Modulus - 1 /\ Modulus * (-1) + (Modulus - 1) = i - 1 BY <1>1, <1>2
  <2>2. (Modulus * (-1) + (Modulus - 1)) % Modulus = Modulus - 1 BY <1>1, <2>1, ModUnique
  <2> QED BY <1>2, <2>1, <2>2 DEF Down, Counters
<1>3. CASE i # 0
  <2>1. i - 1 \in 0..Modulus - 1 /\ Modulus * 0 + (i - 1) = i - 1 BY <1>1, <1>3
  <2>2. (Modulus * 0 + (i - 1)) % Modulus = i - 1 BY <1>1, <2>1, ModUnique
  <2> QED BY <1>3, <2>1, <2>2 DEF Down, Counters
<1> QED BY <1>2, <1>3

-----------------------------------------------------------------------------
(* Places.                                                                 *)

LEMMA PlaceIn == Sizes => \A k \in Nat : Place(k) \in 0..Size - 1
BY DEF Sizes, Place

\* The size divides the modulus, so an item's place survives a wrap.
LEMMA SamePlace == Sizes => \A k \in Nat : Place(k + Modulus) = Place(k)
<1> SUFFICES ASSUME Sizes, NEW k \in Nat PROVE (k + Modulus) % Size = k % Size BY DEF Place
<1>1. Size \in Nat \ {0} /\ Modulus \in Int /\ Modulus % Size = 0 BY DEF Sizes
<1> DEFINE q == k \div Size
           d == Modulus \div Size
           s == k % Size
<1>2. q \in Int /\ s \in 0..Size - 1 /\ k = Size * q + s
  <2>1. k \in Int OBVIOUS
  <2> QED BY ONLY <1>1, <2>1, Divided
<1>3. d \in Int /\ Modulus = Size * d + (Modulus % Size) BY ONLY <1>1, Divided
<1> HIDE DEF q, d, s
<1>4. Modulus = Size * d BY <1>1, <1>3
<1>5. k + Modulus = Size * (q + d) + s BY ONLY <1>1, <1>2, <1>3, <1>4
<1>6. (Size * (q + d) + s) % Size = s
  <2>1. q + d \in Int BY <1>2, <1>3
  <2> QED BY ONLY <1>1, <1>2, <2>1, ModUnique
<1> QED BY <1>5, <1>6 DEF s

\* Items less than the size apart have different places.
LEMMA OtherPlace == Sizes => \A k \in Nat : \A j \in 1..Size - 1 : Place(k + j) # Place(k)
<1> SUFFICES ASSUME Sizes, NEW k \in Nat, NEW j \in 1..Size - 1
             PROVE  (k + j) % Size # k % Size
  BY DEF Place
<1>1. Size \in Nat \ {0} BY DEF Sizes
<1> DEFINE q == k \div Size
           s == k % Size
<1>2. q \in Int /\ s \in 0..Size - 1 /\ k = Size * q + s
  <2>1. k \in Int OBVIOUS
  <2> QED BY ONLY <1>1, <2>1, Divided
<1> HIDE DEF q, s
<1>3. CASE s + j < Size
  <2>1. s + j \in 0..Size - 1 BY <1>1, <1>2, <1>3
  <2>2. (Size * q + (s + j)) % Size = s + j BY ONLY <1>1, <1>2, <2>1, ModUnique
  <2>3. k + j = Size * q + (s + j) BY <1>1, <1>2
  <2>4. s + j # s BY <1>1, <1>2
  <2> QED BY <2>2, <2>3, <2>4 DEF s
<1>4. CASE ~(s + j < Size)
  <2>1. s + j - Size \in 0..Size - 1 BY <1>1, <1>2, <1>4
  <2>2. (Size * (q + 1) + (s + j - Size)) % Size = s + j - Size
    <3>1. q + 1 \in Int BY <1>2
    <3> QED BY ONLY <1>1, <2>1, <3>1, ModUnique
  <2>3. k + j = Size * (q + 1) + (s + j - Size) BY <1>1, <1>2
  <2>4. s + j - Size # s BY <1>1, <1>2
  <2> QED BY <2>2, <2>3, <2>4 DEF s
<1> QED BY <1>3, <1>4

\* Where the item at counter j is, counted from i on.
LEMMA PlaceAhead == Sizes => \A i, j \in Counters : Place(i + Ahead(i, j)) = Place(j)
<1> SUFFICES ASSUME Sizes, NEW i \in Counters, NEW j \in Counters
             PROVE  Place(i + Ahead(i, j)) = Place(j)
  OBVIOUS
<1>1. j \in Nat /\ (i + Ahead(i, j) = j \/ i + Ahead(i, j) = j + Modulus)
  BY DEF Sizes, Counters, Ahead
<1>2. Place(j + Modulus) = Place(j) BY <1>1, SamePlace
<1> QED BY <1>1, <1>2

-----------------------------------------------------------------------------
(* Contents.                                                               *)

LEMMA HeldIs ==
  Sizes => \A b \in Buffers : \A i, j \in Counters :
    /\ Held(b, i, j) \in Seq(Items) /\ Len(Held(b, i, j)) = Ahead(i, j)
    /\ \A k \in 1..Ahead(i, j) : Held(b, i, j)[k] = b[Place(i + k - 1)]
<1> SUFFICES ASSUME Sizes, NEW b \in Buffers, NEW i \in Counters, NEW j \in Counters
             PROVE  /\ Held(b, i, j) \in Seq(Items) /\ Len(Held(b, i, j)) = Ahead(i, j)
                    /\ \A k \in 1..Ahead(i, j) : Held(b, i, j)[k] = b[Place(i + k - 1)]
  OBVIOUS
<1> DEFINE c == Held(b, i, j)
           d == Ahead(i, j)
<1>1. d \in Nat /\ i \in Nat BY AheadIs DEF Sizes, Counters
<1>2. c = [k \in 1..d |-> b[Place(i + k - 1)]] BY DEF Held
<1> HIDE DEF c, d
<1>3. ASSUME NEW k \in 1..d PROVE b[Place(i + k - 1)] \in Items
  <2>1. i + k - 1 \in Nat BY <1>1
  <2>2. Place(i + k - 1) \in 0..Size - 1 BY <2>1, PlaceIn
  <2> QED BY <2>2 DEF Buffers
<1>4. c \in [1..d -> Items] BY <1>2, <1>3
<1>5. c \in Seq(Items) /\ Len(c) = d BY ONLY <1>1, <1>4
<1> QED BY <1>2, <1>5 DEF c, d

LEMMA HeldNothing == Sizes => \A b \in Buffers : \A i \in Counters : Held(b, i, i) = <<>>
<1> SUFFICES ASSUME Sizes, NEW b \in Buffers, NEW i \in Counters PROVE Held(b, i, i) = <<>> OBVIOUS
<1>1. Ahead(i, i) = 0 BY DEF Ahead, Sizes, Counters
<1>2. Held(b, i, i) \in Seq(Items) /\ Len(Held(b, i, i)) = 0 BY <1>1, HeldIs
<1> QED BY ONLY <1>2, EmptySeq

\* Putting at j leaves what ends before it, within the size.
LEMMA HeldElsewhere ==
  ASSUME Sizes, NEW b \in Buffers, NEW x \in Items,
         NEW i \in Counters, NEW h \in Counters, NEW j \in Counters,
         Ahead(i, h) <= Ahead(i, j), Ahead(i, j) < Size
  PROVE  Written(b, j, x) \in Buffers /\ Held(Written(b, j, x), i, h) = Held(b, i, h)
<1> DEFINE d == Ahead(i, h)
           z == Ahead(i, j)
           f == Written(b, j, x)
<1>1. Size \in Nat \ {0} /\ i \in Nat /\ j \in Nat BY DEF Sizes, Counters
<1>2. d \in Nat /\ z \in Nat /\ d <= z /\ z < Size BY AheadIs DEF Counters, Sizes
<1>3. Place(i + z) = Place(j) BY PlaceAhead
<1>4. Place(j) \in 0..Size - 1 BY <1>1, PlaceIn
<1>5. f \in Buffers /\ \A y \in 0..Size - 1 : y # Place(j) => f[y] = b[y]
  BY <1>4 DEF Written, Buffers
<1> HIDE DEF d, z, f
<1>6. ASSUME NEW k \in 1..d PROVE f[Place(i + k - 1)] = b[Place(i + k - 1)]
  <2> DEFINE y == i + k - 1
             v == z - k + 1
  <2>1. y \in Nat /\ v \in 1..Size - 1 /\ y + v = i + z BY <1>1, <1>2
  <2> HIDE DEF y, v
  <2>2. Place(y + v) # Place(y) BY <2>1, OtherPlace
  <2>3. Place(y) \in 0..Size - 1 BY <2>1, PlaceIn
  <2>4. f[Place(y)] = b[Place(y)] BY <1>3, <1>5, <2>1, <2>2, <2>3
  <2> QED BY <2>4 DEF y
<1>7. [k \in 1..d |-> f[Place(i + k - 1)]] = [k \in 1..d |-> b[Place(i + k - 1)]] BY <1>6
<1> QED BY <1>5, <1>7 DEF Held, d, f

\* One more at the end.
LEMMA HeldPut ==
  ASSUME Sizes, NEW b \in Buffers, NEW x \in Items, NEW i \in Counters, NEW j \in Counters,
         Ahead(i, j) < Size
  PROVE  /\ Ahead(i, Up(j)) = Ahead(i, j) + 1
         /\ Held(Written(b, j, x), i, Up(j)) = Append(Held(b, i, j), x)
<1> DEFINE d == Ahead(i, j)
           f == Written(b, j, x)
           c == Held(b, i, j)
           t == Held(f, i, Up(j))
<1>1. Size \in Nat \ {0} /\ i \in Nat /\ j \in Nat BY DEF Sizes, Counters
<1>2. Up(j) \in Counters /\ d \in 0..Size - 1 BY UpIs, AheadIs DEF Counters, Sizes
<1>3. Ahead(i, Up(j)) = d + 1 BY <1>2 DEF Ahead, Up, Counters, Sizes
<1>4. f \in Buffers /\ Held(f, i, j) = c
  <2>1. Ahead(i, j) <= Ahead(i, j) BY <1>2
  <2> QED BY <2>1, HeldElsewhere
<1>5. f[Place(i + (d + 1) - 1)] = x
  <2>1. Place(i + d) = Place(j) BY PlaceAhead
  <2>2. i + (d + 1) - 1 = i + d BY <1>1, <1>2
  <2>3. Place(j) \in 0..Size - 1 BY <1>1, PlaceIn
  <2>4. f[Place(j)] = x BY <2>3 DEF Written, Buffers
  <2> QED BY <2>1, <2>2, <2>4
<1>6. c \in Seq(Items) /\ Len(c) = d BY HeldIs
<1>7. \A k \in 1..d : c[k] = f[Place(i + k - 1)]
  <2>1. \A k \in 1..d : Held(f, i, j)[k] = f[Place(i + k - 1)] BY <1>4, HeldIs
  <2> QED BY <1>4, <2>1
<1>8. t \in Seq(Items) /\ Len(t) = d + 1 /\ \A k \in 1..d + 1 : t[k] = f[Place(i + k - 1)]
  BY <1>2, <1>3, <1>4, HeldIs
<1> HIDE DEF c, t, d, f
<1>9. /\ Append(c, x) \in Seq(Items) /\ Len(Append(c, x)) = d + 1
      /\ \A k \in 1..d : Append(c, x)[k] = c[k]
      /\ Append(c, x)[d + 1] = x
  BY <1>6, AppendProperties
<1>10. ASSUME NEW k \in 1..d + 1 PROVE t[k] = Append(c, x)[k]
  <2>1. CASE k = d + 1 BY <1>5, <1>8, <1>9, <2>1
  <2>2. CASE k # d + 1
    <3>1. k \in 1..d BY <1>2, <2>2
    <3> QED BY <1>7, <1>8, <1>9, <3>1
  <2> QED BY <2>1, <2>2
<1>11. t = Append(c, x) BY ONLY <1>2, <1>8, <1>9, <1>10, SeqEqual
<1> QED BY <1>3, <1>11 DEF c, t, d, f

\* One less at the front.
LEMMA HeldGet ==
  ASSUME Sizes, NEW b \in Buffers, NEW i \in Counters, NEW j \in Counters, i # j
  PROVE  /\ Ahead(Up(i), j) = Ahead(i, j) - 1
         /\ Held(b, i, j) # <<>>
         /\ Head(Held(b, i, j)) = b[Place(i)]
         /\ Held(b, Up(i), j) = Tail(Held(b, i, j))
<1> DEFINE d == Ahead(i, j)
           g == Up(i)
           c == Held(b, i, j)
           t == Held(b, g, j)
<1>1. Modulus \in Nat \ {0} /\ i \in 0..Modulus - 1 BY DEF Sizes, Counters
<1>2. g \in Counters /\ g = IF i + 1 < Modulus THEN i + 1 ELSE 0 BY UpIs DEF Up
<1>3. d \in Nat \ {0} BY DEF Ahead, Counters, Sizes
<1>4. Ahead(g, j) = d - 1 BY <1>2 DEF Ahead, Counters, Sizes
<1>5. c \in Seq(Items) /\ Len(c) = d /\ \A k \in 1..d : c[k] = b[Place(i + k - 1)] BY HeldIs
<1>6. t \in Seq(Items) /\ Len(t) = d - 1 /\ \A k \in 1..d - 1 : t[k] = b[Place(g + k - 1)]
  BY <1>2, <1>4, HeldIs
<1> HIDE DEF c, t, d, g
<1>7. ASSUME NEW k \in 1..d - 1 PROVE Place(g + k - 1) = Place(i + (k + 1) - 1)
  <2>1. CASE i + 1 < Modulus
    <3>1. g + k - 1 = i + (k + 1) - 1 BY <1>1, <1>2, <1>3, <2>1
    <3> QED BY <3>1
  <2>2. CASE ~(i + 1 < Modulus)
    <3>1. k - 1 \in Nat /\ g + k - 1 = k - 1 /\ i + (k + 1) - 1 = (k - 1) + Modulus
      BY <1>1, <1>2, <1>3, <2>2
    <3>2. Place((k - 1) + Modulus) = Place(k - 1) BY <3>1, SamePlace
    <3> QED BY <3>1, <3>2
  <2> QED BY <2>1, <2>2
<1>8. c # <<>> BY <1>3, <1>5, EmptySeq
<1>9. /\ Head(c) = c[1] /\ Tail(c) \in Seq(Items) /\ Len(Tail(c)) = d - 1
      /\ \A k \in 1..d - 1 : Tail(c)[k] = c[k + 1]
  BY <1>5, <1>8, HeadTailProperties
<1>10. Head(c) = b[Place(i)]
  <2>1. 1 \in 1..d /\ i + 1 - 1 = i BY <1>1, <1>3
  <2> QED BY <1>5, <1>9, <2>1
<1>11. ASSUME NEW k \in 1..d - 1 PROVE t[k] = Tail(c)[k]
  <2>1. k + 1 \in 1..d BY <1>3
  <2> QED BY <1>5, <1>6, <1>7, <1>9, <2>1
<1>12. t = Tail(c) BY ONLY <1>3, <1>6, <1>9, <1>11, SeqEqual
<1> QED BY <1>4, <1>8, <1>10, <1>12 DEF c, t, d, g

\* One less at the end.
LEMMA HeldErased ==
  ASSUME Sizes, NEW b \in Buffers, NEW i \in Counters, NEW j \in Counters, i # j
  PROVE  /\ Ahead(i, Down(j)) = Ahead(i, j) - 1
         /\ Held(b, i, j) # <<>>
         /\ Held(b, i, Down(j)) = SubSeq(Held(b, i, j), 1, Len(Held(b, i, j)) - 1)
<1> DEFINE d == Ahead(i, j)
           g == Down(j)
           c == Held(b, i, j)
           t == Held(b, i, g)
           u == SubSeq(c, 1, d - 1)
<1>1. g \in Counters /\ g = IF j = 0 THEN Modulus - 1 ELSE j - 1 BY DownIs DEF Down
<1>2. d \in Nat \ {0} BY DEF Ahead, Counters, Sizes
<1>3. Ahead(i, g) = d - 1 BY <1>1 DEF Ahead, Counters, Sizes
<1>4. c \in Seq(Items) /\ Len(c) = d /\ \A k \in 1..d : c[k] = b[Place(i + k - 1)] BY HeldIs
<1>5. t \in Seq(Items) /\ Len(t) = d - 1 /\ \A k \in 1..d - 1 : t[k] = b[Place(i + k - 1)]
  BY <1>1, <1>3, HeldIs
<1> HIDE DEF c, t, d, g, u
<1>6. c # <<>> BY <1>2, <1>4, EmptySeq
<1>7. u \in Seq(Items) /\ Len(u) = d - 1 /\ \A k \in 1..d - 1 : u[k] = c[k]
  <2>1. \A k \in 1..d - 1 : c[k] \in Items BY <1>2, <1>4, ElementOfSeq
  <2>2. 1 \in Int /\ d - 1 \in Int BY <1>2
  <2>3. /\ u \in Seq(Items) /\ Len(u) = IF 1 <= d - 1 THEN (d - 1) - 1 + 1 ELSE 0
        /\ \A k \in 1..(d - 1) - 1 + 1 : u[k] = c[1 + k - 1]
    BY ONLY <2>1, <2>2, SubSeqProperties DEF u
  <2> QED BY <1>2, <2>3
<1>8. ASSUME NEW k \in 1..d - 1 PROVE t[k] = u[k]
  <2>1. k \in 1..d BY <1>2
  <2> QED BY <1>4, <1>5, <1>7, <2>1
<1>9. t = u BY ONLY <1>2, <1>5, <1>7, <1>8, SeqEqual
<1> QED BY <1>3, <1>4, <1>6, <1>9 DEF c, t, d, g, u

\* Two neighbours.
LEMMA HeldJoined ==
  ASSUME Sizes, NEW b \in Buffers, NEW i \in Counters, NEW h \in Counters, NEW j \in Counters,
         Ahead(i, j) = Ahead(i, h) + Ahead(h, j)
  PROVE  Held(b, i, j) = Held(b, i, h) \o Held(b, h, j)
<1> DEFINE d == Ahead(i, h)
           z == Ahead(h, j)
           x == Held(b, i, h)
           y == Held(b, h, j)
           t == Held(b, i, j)
<1>1. Modulus \in Nat /\ i \in Nat /\ h \in Nat BY DEF Sizes, Counters
<1>2. d \in Nat /\ z \in Nat BY AheadIs DEF Counters, Sizes
<1>3. x \in Seq(Items) /\ Len(x) = d /\ \A k \in 1..d : x[k] = b[Place(i + k - 1)] BY HeldIs
<1>4. y \in Seq(Items) /\ Len(y) = z /\ \A k \in 1..z : y[k] = b[Place(h + k - 1)] BY HeldIs
<1>5. t \in Seq(Items) /\ Len(t) = d + z /\ \A k \in 1..d + z : t[k] = b[Place(i + k - 1)] BY HeldIs
<1>6. i + d = h \/ i + d = h + Modulus BY DEF Ahead, Counters, Sizes
<1> HIDE DEF d, z, x, y, t
<1>7. /\ x \o y \in Seq(Items) /\ Len(x \o y) = d + z
      /\ \A k \in 1..d + z : (x \o y)[k] = IF k <= d THEN x[k] ELSE y[k - d]
  <2>1. /\ x \o y \in Seq(Items) /\ Len(x \o y) = Len(x) + Len(y)
        /\ \A k \in 1..Len(x) + Len(y) : (x \o y)[k] = IF k <= Len(x) THEN x[k] ELSE y[k - Len(x)]
    BY ONLY <1>3, <1>4, ConcatProperties
  <2> QED BY <1>3, <1>4, <2>1
<1>8. ASSUME NEW k \in 1..d + z PROVE t[k] = (x \o y)[k]
  <2>1. CASE k <= d
    <3>1. k \in 1..d BY <1>2, <2>1
    <3> QED BY <1>3, <1>5, <1>7, <2>1, <3>1
  <2>2. CASE ~(k <= d)
    <3>1. k - d \in 1..z BY <1>2, <2>2
    <3>2. Place(i + k - 1) = Place(h + (k - d) - 1)
      <4>1. CASE i + d = h
        <5>1. i + k - 1 = h + (k - d) - 1 BY <1>1, <1>2, <4>1
        <5> QED BY <5>1
      <4>2. CASE i + d = h + Modulus
        <5>1. h + (k - d) - 1 \in Nat /\ i + k - 1 = (h + (k - d) - 1) + Modulus
          BY <1>1, <1>2, <3>1, <4>2
        <5>2. Place((h + (k - d) - 1) + Modulus) = Place(h + (k - d) - 1) BY <5>1, SamePlace
        <5> QED BY <5>1, <5>2
      <4> QED BY <1>6, <4>1, <4>2
    <3> QED BY <1>4, <1>5, <1>7, <2>2, <3>1, <3>2
  <2> QED BY <2>1, <2>2
<1>9. t = x \o y
  <2>1. d + z \in Nat BY <1>2
  <2> QED BY ONLY <2>1, <1>5, <1>7, <1>8, SeqEqual
<1> QED BY <1>9 DEF x, y, t

=============================================================================
