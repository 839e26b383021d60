--------------------------- MODULE TerminalProofs ---------------------------
(***************************************************************************)
(* Proofs about the console's input, for any number of readers, any set of *)
(* keys, any size of the ring and any range of its indices that the size   *)
(* divides, and about the process listings, for any number of slots.       *)
(***************************************************************************)
EXTENDS Console, Ps, SequenceTheorems, TLAPS

Input == INSTANCE RingProofs WITH Size <- INPUT_BUF, Modulus <- UINT, Items <- Chars \cup {"nul"}

Line  == Ring(w, e)
Given == Ring(r, w)

\* A line that ^U would erase as a whole.
Unbroken(s) == \A k \in 1..Len(s) : s[k] # "nl"

\* The indices follow one another within the ring, and no newline waits in the
\* line under edit.
InputInv ==
  /\ buf \in Input!Buffers
  /\ r \in Input!Counters /\ w \in Input!Counters /\ e \in Input!Counters
  /\ Input!Ahead(r, e) = Input!Ahead(r, w) + Input!Ahead(w, e)
  /\ Input!Ahead(r, e) <= INPUT_BUF
  /\ Unbroken(Input!Held(buf, w, e))

LineStep == InputInv' /\ [Lines!Next]_<<Line, Given, out>>

LEMMA RingSizes == Input!Sizes
BY RingAssumption DEF Input!Sizes

-----------------------------------------------------------------------------
(* Places.                                                                 *)

LEMMA PlusIs ==
  /\ \A i \in Input!Counters : Plus(i, 1) = Input!Up(i) /\ Plus(i, -1) = Input!Down(i) /\ Plus(i, 0) = i
  /\ \A i \in Nat : At(i) = Input!Place(i)
<1>1. ASSUME NEW i \in Input!Counters PROVE Plus(i, 1) = Input!Up(i)
  BY RingSizes, Input!UpIs DEF Plus
<1>2. ASSUME NEW i \in Input!Counters PROVE Plus(i, -1) = Input!Down(i)
  <2>1. i + (-1) = i - 1 BY RingAssumption DEF Input!Counters
  <2>2. (i - 1) % UINT = Input!Down(i) BY RingSizes, Input!DownIs
  <2> QED BY <2>1, <2>2 DEF Plus
<1>3. ASSUME NEW i \in Input!Counters PROVE Plus(i, 0) = i
  <2>1. UINT \in Nat \ {0} /\ i \in 0..UINT - 1 BY RingAssumption DEF Input!Counters
  <2>2. (UINT * 0 + i) % UINT = i BY <2>1, Input!ModUnique
  <2>3. UINT * 0 + i = i + 0 BY <2>1
  <2> QED BY <2>2, <2>3 DEF Plus
<1>4. \A i \in Nat : At(i) = Input!Place(i) BY DEF At, Input!Place
<1> QED BY <1>1, <1>2, <1>3, <1>4

\* The place of the k-th character from i on.
LEMMA PlaceFrom ==
  ASSUME NEW i \in Input!Counters, NEW k \in 1..UINT PROVE At(Plus(i, k - 1)) = Input!Place(i + k - 1)
<1>1. UINT \in Nat \ {0} /\ i \in 0..UINT - 1 BY RingAssumption DEF Input!Counters
<1> DEFINE y == i + k - 1
<1>2. y \in Nat /\ i + (k - 1) = y /\ y < 2 * UINT BY <1>1
<1> HIDE DEF y
<1>3. Plus(i, k - 1) = IF y < UINT THEN y ELSE y - UINT
  <2>1. y % UINT = IF y < UINT THEN y ELSE y - UINT BY ONLY <1>2, RingSizes, Input!Wrapped
  <2> QED BY <1>2, <2>1 DEF Plus
<1>4. CASE y < UINT BY <1>2, <1>3, <1>4, PlusIs DEF y
<1>5. CASE ~(y < UINT)
  <2>1. y - UINT \in Nat /\ (y - UINT) + UINT = y BY <1>1, <1>2, <1>5
  <2>2. Input!Place((y - UINT) + UINT) = Input!Place(y - UINT) BY <2>1, RingSizes, Input!SamePlace
  <2> QED BY <1>3, <1>5, <2>1, <2>2, PlusIs DEF y
<1> QED BY <1>4, <1>5

LEMMA RingIs ==
  ASSUME NEW i \in Input!Counters, NEW j \in Input!Counters PROVE Ring(i, j) = Input!Held(buf, i, j)
<1> DEFINE d == Input!Ahead(i, j)
<1>1. (j - i) % UINT = d /\ d \in Input!Counters BY RingSizes, Input!AheadIs
<1>2. \A k \in 1..d : k \in 1..UINT BY <1>1, RingAssumption DEF Input!Counters
<1>3. \A k \in 1..d : buf[At(Plus(i, k - 1))] = buf[Input!Place(i + k - 1)] BY <1>2, PlaceFrom
<1>4. [k \in 1..d |-> buf[At(Plus(i, k - 1))]] = [k \in 1..d |-> buf[Input!Place(i + k - 1)]] BY <1>3
<1> QED BY <1>1, <1>4 DEF Ring, Input!Held

LEMMA Views == InputInv => Line = Input!Held(buf, w, e) /\ Given = Input!Held(buf, r, w)
BY RingIs DEF InputInv, Line, Given

LEMMA ViewsNext == (InputInv => Line = Input!Held(buf, w, e) /\ Given = Input!Held(buf, r, w))'
BY Views, PTL

-----------------------------------------------------------------------------
(* Lines without a newline.                                                *)

LEMMA UnbrokenKept ==
  ASSUME NEW s \in Seq(Chars \cup {"nul"}), Unbroken(s)
  PROVE  /\ \A c \in Chars \cup {"nul"} : c # "nl" => Unbroken(Append(s, c))
         /\ s # <<>> => Unbroken(SubSeq(s, 1, Len(s) - 1))
<1>1. Len(s) \in Nat BY LenProperties
<1>2. ASSUME NEW c \in Chars \cup {"nul"}, c # "nl" PROVE Unbroken(Append(s, c))
  <2>1. /\ Len(Append(s, c)) = Len(s) + 1 /\ Append(s, c)[Len(s) + 1] = c
        /\ \A k \in 1..Len(s) : Append(s, c)[k] = s[k]
    BY AppendProperties
  <2>2. \A k \in 1..Len(s) + 1 : k \in 1..Len(s) \/ k = Len(s) + 1 BY <1>1
  <2> QED BY <1>2, <2>1, <2>2 DEF Unbroken
<1>3. ASSUME s # <<>> PROVE Unbroken(SubSeq(s, 1, Len(s) - 1))
  <2> DEFINE u == SubSeq(s, 1, Len(s) - 1)
  <2>1. Len(s) \in Nat \ {0} BY <1>3, EmptySeq
  <2>2. 1 \in Int /\ Len(s) - 1 \in Int /\ \A k \in 1..Len(s) - 1 : s[k] \in Chars \cup {"nul"}
    BY <2>1, ElementOfSeq
  <2>3. /\ Len(u) = IF 1 <= Len(s) - 1 THEN (Len(s) - 1) - 1 + 1 ELSE 0
        /\ \A k \in 1..(Len(s) - 1) - 1 + 1 : u[k] = s[1 + k - 1]
    BY ONLY <2>2, SubSeqProperties
  <2> HIDE DEF u
  <2>4. Len(u) = Len(s) - 1 /\ \A k \in 1..Len(s) - 1 : u[k] = s[k]
    <3>1. Len(u) = Len(s) - 1
      <4>1. Len(u) = IF 1 <= Len(s) - 1 THEN (Len(s) - 1) - 1 + 1 ELSE 0 BY ONLY <2>3
      <4> DEFINE d == Len(s)
                 z == Len(u)
      <4>2. d \in Nat \ {0} /\ z = IF 1 <= d - 1 THEN (d - 1) - 1 + 1 ELSE 0 BY ONLY <2>1, <4>1
      <4> HIDE DEF d, z
      <4>3. z = d - 1 BY ONLY <4>2
      <4> QED BY ONLY <4>3 DEF d, z
    <3>2. \A k \in 1..Len(s) - 1 : k \in 1..(Len(s) - 1) - 1 + 1 /\ 1 + k - 1 = k BY <2>1
    <3> QED BY <2>3, <3>1, <3>2
  <2>5. Unbroken(u) BY <2>1, <2>4 DEF Unbroken
  <2> QED BY <2>5 DEF u
<1> QED BY <1>2, <1>3

LEMMA UnbrokenNothing == Unbroken(<<>>)
BY EmptySeq DEF Unbroken

-----------------------------------------------------------------------------
(* Keys.                                                                   *)

LEMMA KillsLine ==
  ASSUME InputInv, e' = LineStart, UNCHANGED <<buf, r, w, out>>
  PROVE  LineStep
<1> DEFINE d == Input!Ahead(w, e)
           T == {k \in 0..d : k = 0 \/ buf[At(Plus(w, k - 1))] = "nl"}
<1>1. /\ buf \in Input!Buffers /\ r \in Input!Counters /\ w \in Input!Counters /\ e \in Input!Counters
      /\ Unbroken(Input!Held(buf, w, e))
      /\ Input!Ahead(r, e) = Input!Ahead(r, w) + d /\ Input!Ahead(r, e) <= INPUT_BUF
  BY DEF InputInv
<1>2. (e - w) % UINT = d /\ d \in Input!Counters BY <1>1, RingSizes, Input!AheadIs
<1>3. d \in Nat /\ d <= UINT /\ UINT \in Nat /\ INPUT_BUF \in Nat /\ Input!Ahead(r, w) \in Nat
  <2>1. Input!Ahead(r, w) \in Input!Counters BY <1>1, RingSizes, Input!AheadIs
  <2> QED BY <1>2, <2>1, RingAssumption DEF Input!Counters
<1> HIDE DEF d
<1>4. ASSUME NEW k \in 1..d PROVE buf[At(Plus(w, k - 1))] # "nl"
  <2>1. Len(Input!Held(buf, w, e)) = d /\ Input!Held(buf, w, e)[k] = buf[Input!Place(w + k - 1)]
    BY <1>1, RingSizes, Input!HeldIs, Zenon DEF d
  <2>2. Input!Held(buf, w, e)[k] # "nl" BY <1>1, <2>1 DEF Unbroken
  <2>3. k \in 1..UINT BY <1>3
  <2>4. At(Plus(w, k - 1)) = Input!Place(w + k - 1) BY <1>1, <2>3, PlaceFrom
  <2> QED BY <2>1, <2>2, <2>4
<1>5. T = {0}
  <2>1. \A k \in 0..d : k = 0 \/ k \in 1..d BY <1>3
  <2>2. 0 \in 0..d BY <1>3
  <2> QED BY <1>4, <2>1, <2>2
<1>6. Max(T) = 0 BY <1>5 DEF Max
<1>7. e' = w
  <2>1. LineStart = Plus(w, Max(T)) BY <1>2 DEF LineStart
  <2> QED BY <1>1, <1>6, <2>1, PlusIs
<1>8. Input!Held(buf, w, w) = <<>> BY <1>1, RingSizes, Input!HeldNothing
<1>9. Input!Ahead(w, w) = 0 BY <1>1, RingAssumption DEF Input!Ahead, Input!Counters
<1>10. InputInv'
  <2>1. Input!Ahead(r, w) <= INPUT_BUF /\ Input!Ahead(r, w) = Input!Ahead(r, w) + 0 BY <1>1, <1>3
  <2> QED BY <1>1, <1>7, <1>8, <1>9, <2>1, UnbrokenNothing DEF InputInv
<1>11. Line' = <<>> /\ Given' = Given
  BY <1>7, <1>8, <1>10, Views, ViewsNext
<1>12. Lines!KillLine BY <1>11 DEF Lines!KillLine, Line, Given
<1> QED BY <1>10, <1>12 DEF LineStep, Lines!Next

LEMMA ErasesLast ==
  ASSUME InputInv, e' = (IF e # w THEN Plus(e, -1) ELSE e), UNCHANGED <<buf, r, w, out>>
  PROVE  LineStep
<1>1. /\ buf \in Input!Buffers /\ r \in Input!Counters /\ w \in Input!Counters /\ e \in Input!Counters
      /\ Unbroken(Input!Held(buf, w, e))
      /\ Input!Ahead(r, e) = Input!Ahead(r, w) + Input!Ahead(w, e) /\ Input!Ahead(r, e) <= INPUT_BUF
  BY DEF InputInv
<1>2. CASE e = w
  <2>1. UNCHANGED <<buf, r, w, e, out>> BY <1>2
  <2> QED BY <2>1 DEF LineStep, InputInv, Line, Given, Ring
<1>3. CASE e # w
  <2>1. e' = Input!Down(e) /\ Input!Down(e) \in Input!Counters
    BY <1>1, <1>3, PlusIs, RingSizes, Input!DownIs
  <2> DEFINE s == Input!Held(buf, w, e)
  <2>2. /\ Input!Ahead(w, Input!Down(e)) = Input!Ahead(w, e) - 1 /\ s # <<>>
        /\ Input!Held(buf, w, Input!Down(e)) = SubSeq(s, 1, Len(s) - 1)
    BY <1>1, <1>3, RingSizes, Input!HeldErased
  <2>3. s \in Seq(Chars \cup {"nul"}) BY <1>1, RingSizes, Input!HeldIs
  <2>4. Unbroken(SubSeq(s, 1, Len(s) - 1)) BY <1>1, <2>2, <2>3, UnbrokenKept
  <2>5. /\ Input!Ahead(r, Input!Down(e)) = Input!Ahead(r, w) + Input!Ahead(w, Input!Down(e))
        /\ Input!Ahead(r, Input!Down(e)) <= INPUT_BUF
    BY <1>1, <1>3, RingAssumption DEF Input!Ahead, Input!Down, Input!Counters
  <2>6. InputInv' BY <1>1, <2>1, <2>2, <2>4, <2>5, Zenon DEF InputInv
  <2>7. Line = s /\ Line' = SubSeq(s, 1, Len(s) - 1) /\ Given' = Given
    BY <2>1, <2>2, <2>6, Views, ViewsNext
  <2>8. Lines!Erase BY <2>2, <2>7 DEF Lines!Erase, Line, Given
  <2> QED BY <2>6, <2>8 DEF LineStep, Lines!Next
<1> QED BY <1>2, <1>3

\* A character that fits: the ring ends with it, and what was handed over stays.
LEMMA TypesChar ==
  ASSUME InputInv, NEW c \in Chars, Input!Ahead(r, e) < INPUT_BUF,
         buf' = [buf EXCEPT ![At(e)] = c], e' = Plus(e, 1),
         w' = (IF HandedOver(c) THEN e' ELSE w), UNCHANGED <<r, out>>
  PROVE  LineStep
<1> DEFINE f == Input!Written(buf, e, c)
           g == Input!Up(e)
           s == Input!Held(buf, w, e)
           t == Input!Held(buf, r, w)
<1>1. /\ buf \in Input!Buffers /\ r \in Input!Counters /\ w \in Input!Counters /\ e \in Input!Counters
      /\ Unbroken(s)
      /\ Input!Ahead(r, e) = Input!Ahead(r, w) + Input!Ahead(w, e)
  BY DEF InputInv
<1>2. INPUT_BUF \in Nat \ {0} /\ UINT \in Nat \ {0} /\ INPUT_BUF < UINT BY RingAssumption
<1>3. Input!Ahead(r, w) \in Nat /\ Input!Ahead(w, e) \in Nat /\ Input!Ahead(r, e) \in Nat
  <2>1. /\ Input!Ahead(r, w) \in Input!Counters /\ Input!Ahead(w, e) \in Input!Counters
        /\ Input!Ahead(r, e) \in Input!Counters
    BY <1>1, RingSizes, Input!AheadIs
  <2> QED BY <1>2, <2>1 DEF Input!Counters
<1>4. Input!Ahead(r, w) <= Input!Ahead(r, e) /\ Input!Ahead(w, e) < INPUT_BUF BY <1>1, <1>2, <1>3
<1>5. e' = g /\ g \in Input!Counters BY <1>1, PlusIs, RingSizes, Input!UpIs
<1>6. buf' = f
  <2>1. e \in Nat BY <1>1, <1>2 DEF Input!Counters
  <2> QED BY <2>1, PlusIs, Zenon DEF Input!Written
<1>7. c \in Chars \cup {"nul"} OBVIOUS
<1>8. f \in Input!Buffers /\ Input!Held(f, r, w) = t
  BY <1>1, <1>4, <1>7, RingSizes, Input!HeldElsewhere
<1>9. Input!Ahead(w, g) = Input!Ahead(w, e) + 1 /\ Input!Held(f, w, g) = Append(s, c)
  BY <1>1, <1>4, <1>7, RingSizes, Input!HeldPut
<1>10. Input!Ahead(r, g) = Input!Ahead(r, e) + 1 BY <1>1, <1>7, RingSizes, Input!HeldPut
<1>11. s \in Seq(Chars \cup {"nul"}) /\ Len(s) = Input!Ahead(w, e) /\ Len(t) = Input!Ahead(r, w)
  BY <1>1, RingSizes, Input!HeldIs
<1>12. Line = s /\ Given = t BY Views
<1>13. Plus(e, 1) = Plus(r, INPUT_BUF) <=> Input!Ahead(r, e) + 1 = INPUT_BUF
  <2>1. r \in 0..UINT - 1 /\ e \in 0..UINT - 1 BY <1>1 DEF Input!Counters
  <2>2. Plus(r, INPUT_BUF) = IF r + INPUT_BUF < UINT THEN r + INPUT_BUF ELSE (r + INPUT_BUF) - UINT
    <3> DEFINE y == r + INPUT_BUF
    <3>1. y \in Nat /\ y < 2 * UINT BY <1>2, <2>1
    <3> HIDE DEF y
    <3>2. y % UINT = IF y < UINT THEN y ELSE y - UINT BY ONLY <3>1, RingSizes, Input!Wrapped
    <3> QED BY ONLY <3>2 DEF y, Plus
  <2>3. Plus(e, 1) = Input!Up(e) BY <1>1, PlusIs
  <2> QED BY <1>2, <2>1, <2>2, <2>3 DEF Input!Up, Input!Ahead
<1> HIDE DEF f, g, s, t
<1>14. CASE HandedOver(c)
  <2>1. w' = g BY <1>5, <1>14
  <2>2. Input!Ahead(g, g) = 0 /\ Input!Held(f, g, g) = <<>>
    BY <1>2, <1>5, <1>8, RingSizes, Input!HeldNothing DEF Input!Ahead, Input!Counters
  <2>3. Input!Ahead(r, g) = Input!Ahead(r, g) + 0 /\ Input!Ahead(r, g) <= INPUT_BUF
    BY <1>2, <1>3, <1>10
  <2>4. InputInv' BY <1>1, <1>5, <1>6, <1>8, <2>1, <2>2, <2>3, UnbrokenNothing, Zenon DEF InputInv
  <2>5. Input!Ahead(r, g) = Input!Ahead(r, w) + Input!Ahead(w, g) BY <1>1, <1>3, <1>9, <1>10
  <2>6. Input!Held(f, r, g) = t \o Append(s, c)
    <3>1. Input!Held(f, r, g) = Input!Held(f, r, w) \o Input!Held(f, w, g)
      BY ONLY <1>1, <1>5, <1>8, <2>5, RingSizes, Input!HeldJoined, ZenonT(30)
    <3> QED BY <1>8, <1>9, <3>1
  <2>7. Line' = <<>> /\ Given' = t \o Append(s, c)
    BY <1>5, <1>6, <2>1, <2>2, <2>4, <2>6, ViewsNext, Zenon
  <2>8. c \in {"nl", EOT} \/ Len(t) + Len(s) + 1 = INPUT_BUF
    BY <1>1, <1>11, <1>13, <1>14 DEF HandedOver
  <2>9. Len(t) + Len(s) < INPUT_BUF BY <1>1, <1>11
  <2>10. Lines!Type(c) BY <1>12, <2>7, <2>8, <2>9 DEF Lines!Type, Lines!Room, Line, Given
  <2> QED BY <2>4, <2>10 DEF LineStep, Lines!Next
<1>15. CASE ~HandedOver(c)
  <2>1. w' = w BY <1>15
  <2>2. c # "nl" /\ c \notin {"nl", EOT} /\ ~(Len(t) + Len(s) + 1 = INPUT_BUF)
    BY <1>1, <1>11, <1>13, <1>15 DEF HandedOver
  <2>3. Unbroken(Append(s, c)) BY <1>1, <1>7, <1>11, <2>2, UnbrokenKept
  <2>4. Input!Ahead(r, g) = Input!Ahead(r, w) + Input!Ahead(w, g) /\ Input!Ahead(r, g) <= INPUT_BUF
    BY <1>1, <1>2, <1>3, <1>9, <1>10
  <2>5. InputInv' BY <1>1, <1>5, <1>6, <1>8, <1>9, <2>1, <2>3, <2>4, Zenon DEF InputInv
  <2>6. Line' = Append(s, c) /\ Given' = t BY <1>5, <1>6, <1>8, <1>9, <2>1, <2>5, ViewsNext, ZenonT(30)
  <2>7. Len(t) + Len(s) < INPUT_BUF BY <1>1, <1>11
  <2>8. Lines!Type(c) BY <1>12, <2>2, <2>6, <2>7 DEF Lines!Type, Lines!Room, Line, Given
  <2> QED BY <2>5, <2>8 DEF LineStep, Lines!Next
<1> QED BY <1>14, <1>15

-----------------------------------------------------------------------------
(* Readers.                                                                *)

LEMMA TakesFirst ==
  ASSUME InputInv, r # w, r' = Plus(r, 1), UNCHANGED <<buf, w, e>>,
         out' = (IF buf[At(r)] = EOT THEN out ELSE buf[At(r)])
  PROVE  LineStep
<1> DEFINE g == Input!Up(r)
           t == Input!Held(buf, r, w)
<1>1. /\ buf \in Input!Buffers /\ r \in Input!Counters /\ w \in Input!Counters /\ e \in Input!Counters
      /\ Unbroken(Input!Held(buf, w, e))
      /\ Input!Ahead(r, e) = Input!Ahead(r, w) + Input!Ahead(w, e) /\ Input!Ahead(r, e) <= INPUT_BUF
  BY DEF InputInv
<1>2. r' = g /\ g \in Input!Counters BY <1>1, PlusIs, RingSizes, Input!UpIs
<1>3. /\ Input!Ahead(g, w) = Input!Ahead(r, w) - 1 /\ t # <<>>
      /\ Head(t) = buf[Input!Place(r)] /\ Input!Held(buf, g, w) = Tail(t)
  BY <1>1, RingSizes, Input!HeldGet
<1>4. /\ Input!Ahead(g, e) = Input!Ahead(g, w) + Input!Ahead(w, e)
      /\ Input!Ahead(g, e) <= INPUT_BUF
  BY <1>1, RingAssumption DEF Input!Ahead, Input!Up, Input!Counters
<1>5. At(r) = Input!Place(r)
  <2>1. r \in Nat BY <1>1, RingAssumption DEF Input!Counters
  <2> QED BY <2>1, PlusIs
<1> HIDE DEF g, t
<1>6. InputInv' BY <1>1, <1>2, <1>4 DEF InputInv
<1>7. Given = t /\ Given' = Tail(t) /\ Line' = Line BY <1>2, <1>3, <1>6, Views, ViewsNext DEF t
<1>8. Lines!Take BY <1>3, <1>5, <1>7 DEF Lines!Take, Line, Given
<1> QED BY <1>6, <1>8 DEF LineStep, Lines!Next

LEMMA InputFrame ==
  ASSUME InputInv, UNCHANGED <<buf, r, w, e, out>> PROVE LineStep
BY DEF LineStep, InputInv, Line, Given, Ring

LEMMA KeyStep ==
  ASSUME InputInv, NEW k \in Keys, consoleintr(k)
  PROVE  LineStep
<1>1. UNCHANGED <<r, out>> BY DEF consoleintr
<1>2. CASE k = "^U" BY <1>1, <1>2, KillsLine DEF consoleintr
<1>3. CASE k = "^H" BY <1>1, <1>3, ErasesLast DEF consoleintr
<1>4. CASE k \notin {"^U", "^H"}
  <2> DEFINE c == Stored(k)
  <2>1. Insert(c) BY <1>4 DEF consoleintr
  <2>2. r \in Input!Counters /\ e \in Input!Counters BY DEF InputInv
  <2>3. (e - r) % UINT = Input!Ahead(r, e) BY <2>2, RingSizes, Input!AheadIs
  <2>4. CASE c # "nul" /\ Input!Ahead(r, e) < INPUT_BUF
    <3>1. /\ buf' = [buf EXCEPT ![At(e)] = c] /\ e' = Plus(e, 1)
          /\ w' = (IF HandedOver(c) THEN e' ELSE w)
      BY <2>1, <2>3, <2>4 DEF Insert
    <3>2. c \in Chars BY <1>4, <2>4 DEF Chars, Editing, Stored
    <3> QED BY <1>1, <2>4, <3>1, <3>2, TypesChar, Zenon
  <2>5. CASE ~(c # "nul" /\ Input!Ahead(r, e) < INPUT_BUF)
    <3>1. UNCHANGED <<buf, w, e>> BY <2>1, <2>3, <2>5 DEF Insert
    <3> QED BY <1>1, <3>1, InputFrame
  <2> QED BY <2>4, <2>5
<1> QED BY <1>2, <1>3, <1>4

LEMMA UserStep ==
  ASSUME InputInv, NEW p \in Users,
         \/ \E n \in ReadSizes : CallConsole(p, "read", n)
         \/ CallConsole(p, "write", 0)
         \/ UnlockInode(p) \/ ReturnToUser(p) \/ AcquireConsole(p)
         \/ consolewrite(p) \/ ReadEmpty(p) \/ SleepOnInput(p) \/ ReadEof(p) \/ ReadChar(p) \/ ReadFull(p)
         \/ KillUser(p) \/ ExitUser(p)
  PROVE  LineStep
<1>1. CASE ReadEof(p)
  <2>1. /\ r # w /\ buf[At(r)] = EOT /\ UNCHANGED <<buf, w, e, out>> /\ (r' = r \/ r' = Plus(r, 1))
    BY <1>1 DEF ReadEof
  <2>2. CASE r' = r BY <2>1, <2>2, InputFrame
  <2>3. CASE r' = Plus(r, 1) BY <2>1, <2>3, TakesFirst
  <2> QED BY <2>1, <2>2, <2>3
<1>2. CASE ReadChar(p)
  <2>1. /\ r # w /\ buf[At(r)] # EOT /\ out' = buf[At(r)] /\ r' = Plus(r, 1) /\ UNCHANGED <<buf, w, e>>
    BY <1>2 DEF ReadChar
  <2> QED BY <2>1, TakesFirst
<1>3. CASE ~ReadEof(p) /\ ~ReadChar(p)
  <2>1. UNCHANGED <<buf, r, w, e, out>>
    BY <1>3, Zenon DEF CallConsole, UnlockInode, ReturnToUser, AcquireConsole, consolewrite, ReadEmpty,
                SleepOnInput, ReadFull, KillUser, ExitUser, inputVars
  <2> QED BY <2>1, InputFrame
<1> QED BY <1>1, <1>2, <1>3

\* Keys change only the line under edit, a full ring is handed over, and what was
\* handed over comes out once, in order and unchanged, also when the indices wrap
\* (console.c:203-226, 253-265).
THEOREM LinesKeptCorrect == ConsoleSpec => LinesKept
<1>1. ConsoleInit => InputInv /\ Lines!Init
  <2> SUFFICES ASSUME ConsoleInit PROVE InputInv /\ Lines!Init OBVIOUS
  <2>1. r = 0 /\ w = 0 /\ e = 0 /\ out = "nul" /\ buf = [i \in 0..INPUT_BUF - 1 |-> "nul"]
    BY DEF ConsoleInit
  <2>2. buf \in Input!Buffers /\ 0 \in Input!Counters
    BY <2>1, RingAssumption DEF Input!Buffers, Input!Counters
  <2>3. Input!Held(buf, 0, 0) = <<>> BY <2>2, RingSizes, Input!HeldNothing
  <2>4. Input!Ahead(0, 0) = 0 /\ 0 = 0 + 0 /\ 0 <= INPUT_BUF BY RingAssumption DEF Input!Ahead
  <2>5. InputInv BY <2>1, <2>2, <2>3, <2>4, UnbrokenNothing DEF InputInv
  <2>6. Line = <<>> /\ Given = <<>> BY <2>1, <2>3, <2>5, Views
  <2>7. out \notin Chars BY <2>1 DEF Chars, Editing, Stored
  <2> QED BY <2>5, <2>6, <2>7 DEF Lines!Init, Line, Given
<1>2. InputInv /\ [ConsoleNext]_consoleVars => InputInv' /\ [Lines!Next]_Lines!lvars
  <2> SUFFICES ASSUME InputInv, [ConsoleNext]_consoleVars PROVE LineStep
    BY DEF LineStep, Lines!lvars, Line, Given
  <2>1. CASE UNCHANGED consoleVars
    <3>1. UNCHANGED <<buf, r, w, e, out>> BY <2>1 DEF consoleVars, inputVars
    <3> QED BY <3>1, InputFrame
  <2>2. CASE ConsoleNext BY <2>2, KeyStep, UserStep DEF ConsoleNext
  <2> QED BY <2>1, <2>2
<1> QED BY <1>1, <1>2, PTL DEF ConsoleSpec, LinesKept, Lines!Spec

-----------------------------------------------------------------------------
(* Sleeping readers.                                                       *)

Calls == [pc : {"user", "inside", "relock", "read", "write", "tosleep", "asleep", "ending"},
          call : {"none", "read", "write"}, n : Nat, target : Nat, killed : BOOLEAN]

\* Who holds which lock, and that nobody who sleeps, or is about to, has input.
SleepInv ==
  /\ io \in [Users -> Calls]
  /\ \A p \in Users : conslock = p <=> io[p].pc \in {"read", "write", "tosleep"}
  /\ \A p \in Users : iplock = p => io[p].pc = "inside"
  /\ \A p \in Users : io[p].pc \in {"tosleep", "asleep"} => r = w
  /\ \A p \in Users : io[p].pc # "user" => io[p].call # "none"

\* A step of p alone.
LEMMA Moves ==
  ASSUME SleepInv, NEW p \in Users, NEW x \in Calls, io' = [io EXCEPT ![p] = x],
         conslock' = p <=> x.pc \in {"read", "write", "tosleep"},
         \A q \in Users : q # p => (conslock' = q <=> conslock = q),
         iplock' = p => x.pc = "inside",
         \A q \in Users : q # p /\ iplock' = q => iplock = q,
         r # w \/ (r' = r /\ w' = w),
         x.pc \in {"tosleep", "asleep"} => r' = w',
         x.pc # "user" => x.call # "none"
  PROVE  SleepInv'
<1>1. io \in [Users -> Calls] BY DEF SleepInv
<1>2. io' \in [Users -> Calls] /\ io'[p] = x /\ \A q \in Users : q # p => io'[q] = io[q] BY <1>1
<1>3. \A q \in Users : conslock' = q <=> io'[q].pc \in {"read", "write", "tosleep"} BY <1>2 DEF SleepInv
<1>4. \A q \in Users : iplock' = q => io'[q].pc = "inside" BY <1>2 DEF SleepInv
<1>5. \A q \in Users : io'[q].pc \in {"tosleep", "asleep"} => r' = w' BY <1>2 DEF SleepInv
<1>6. \A q \in Users : io'[q].pc # "user" => io'[q].call # "none" BY <1>2 DEF SleepInv
<1> QED BY <1>2, <1>3, <1>4, <1>5, <1>6 DEF SleepInv

\* A key wakes everybody before it lets the input grow.
LEMMA KeyWakes ==
  ASSUME SleepInv, NEW k \in Keys, consoleintr(k)
  PROVE  SleepInv'
<1>1. conslock = Nobody /\ UNCHANGED <<r, conslock, iplock>> BY DEF consoleintr
<1>2. UNCHANGED <<w, io>> \/ io' = ReadersWoken BY DEF consoleintr, Insert
<1>3. CASE UNCHANGED <<w, io>> BY <1>1, <1>3 DEF SleepInv
<1>4. CASE io' = ReadersWoken
  <2>1. io \in [Users -> Calls] BY DEF SleepInv
  <2>2. ASSUME NEW p \in Users
        PROVE  /\ io'[p] \in Calls /\ io'[p].call = io[p].call /\ io'[p].pc # "asleep"
               /\ io'[p].pc = IF io[p].pc = "asleep" THEN "relock" ELSE io[p].pc
    BY <1>4, <2>1 DEF ReadersWoken, Calls
  <2>3. io' \in [Users -> Calls] BY <1>4, <2>2 DEF ReadersWoken
  <2>4. \A p \in Users : io[p].pc # "tosleep" BY <1>1, RingAssumption DEF SleepInv
  <2> QED BY <1>1, <2>2, <2>3, <2>4 DEF SleepInv
<1> QED BY <1>2, <1>3, <1>4

LEMMA UserMoves ==
  ASSUME SleepInv, NEW p \in Users,
         \/ \E n \in ReadSizes : CallConsole(p, "read", n)
         \/ CallConsole(p, "write", 0)
         \/ UnlockInode(p) \/ ReturnToUser(p) \/ AcquireConsole(p)
         \/ consolewrite(p) \/ ReadEmpty(p) \/ SleepOnInput(p) \/ ReadEof(p) \/ ReadChar(p) \/ ReadFull(p)
         \/ KillUser(p) \/ ExitUser(p)
  PROVE  SleepInv'
<1>1. /\ io \in [Users -> Calls] /\ io[p] \in Calls
      /\ conslock = p <=> io[p].pc \in {"read", "write", "tosleep"}
      /\ iplock = p => io[p].pc = "inside"
      /\ io[p].pc \in {"tosleep", "asleep"} => r = w
      /\ io[p].pc # "user" => io[p].call # "none"
  BY DEF SleepInv
<1>2. Nobody \notin Users /\ ReadSizes \subseteq Nat BY RingAssumption
\* Where p goes on to l, and leaves the input alone.
<1>3. ASSUME NEW l \in {"inside", "relock", "read", "write", "tosleep", "asleep", "ending"},
             Step(p, l), UNCHANGED <<r, w>>, io[p].pc # "user",
             l \in {"tosleep", "asleep"} => r = w,
             conslock' = p <=> l \in {"read", "write", "tosleep"},
             \A q \in Users : q # p => (conslock' = q <=> conslock = q),
             iplock' \in {iplock, Nobody}, iplock' = p => l = "inside"
      PROVE  SleepInv'
  <2> DEFINE x == [io[p] EXCEPT !.pc = l]
  <2>1. x \in Calls /\ x.pc = l /\ x.call = io[p].call BY <1>1 DEF Calls
  <2>2. io' = [io EXCEPT ![p] = x] BY <1>1, <1>3 DEF Step
  <2> HIDE DEF x
  <2> QED BY <1>1, <1>2, <1>3, <2>1, <2>2, Moves, Zenon
\* Where p lets go of cons.lock.
<1>4. ASSUME ReleaseConsole(p), io[p].pc \in {"read", "write"}, iplock' = iplock, r # w \/ r' = r, w' = w
      PROVE  SleepInv'
  <2> DEFINE x == [io[p] EXCEPT !.pc = "ending"]
  <2>1. x \in Calls /\ x.pc = "ending" /\ x.call = io[p].call BY <1>1 DEF Calls
  <2>2. io' = [io EXCEPT ![p] = x] /\ conslock' = Nobody BY <1>1, <1>4 DEF ReleaseConsole, Step
  <2>3. conslock = p /\ iplock # p BY <1>1, <1>4
  <2> HIDE DEF x
  <2> QED BY <1>1, <1>2, <1>4, <2>1, <2>2, <2>3, Moves, ZenonT(30)
<1>5. ASSUME NEW c \in {"read", "write"}, NEW n \in Nat, CallConsole(p, c, n) PROVE SleepInv'
  <2> DEFINE x == [Away EXCEPT !.pc = "inside", !.call = c, !.n = n, !.target = n]
  <2>1. x \in Calls /\ x.pc = "inside" /\ x.call = c BY Zenon DEF Calls, Away
  <2>2. /\ io[p].pc = "user" /\ iplock' = p /\ iplock = Nobody /\ io' = [io EXCEPT ![p] = x]
        /\ UNCHANGED <<r, w, conslock>>
    BY <1>5, Zenon DEF CallConsole, inputVars
  <2> HIDE DEF x
  <2> QED BY <1>1, <1>2, <2>1, <2>2, Moves, Zenon
<1>6. CASE UnlockInode(p)
  <2>1. /\ io[p].pc = "inside" /\ iplock' = Nobody /\ Step(p, "relock") /\ UNCHANGED <<r, w, conslock>>
    BY <1>6 DEF UnlockInode, inputVars
  <2> QED BY <1>1, <1>2, <1>3, <2>1
<1>7. CASE ReturnToUser(p)
  <2> DEFINE x == [Away EXCEPT !.killed = io[p].killed]
  <2>1. x \in Calls /\ x.pc = "user" BY <1>1 DEF Calls, Away
  <2>2. io[p].pc = "ending" /\ io' = [io EXCEPT ![p] = x] /\ UNCHANGED <<r, w, conslock, iplock>>
    BY <1>7 DEF ReturnToUser, inputVars
  <2> HIDE DEF x
  <2> QED BY <1>1, <2>1, <2>2, Moves, Zenon
<1>8. CASE AcquireConsole(p)
  <2>1. /\ io[p].pc = "relock" /\ conslock = Nobody /\ conslock' = p /\ Step(p, io[p].call)
        /\ UNCHANGED <<r, w, iplock>>
    BY <1>8 DEF AcquireConsole, inputVars
  <2>2. io[p].call \in {"read", "write"} BY <1>1, <2>1 DEF Calls
  <2>3. iplock # p /\ \A q \in Users : q # p => (conslock' = q <=> conslock = q) BY <1>1, <1>2, <2>1
  <2> QED BY <1>3, <2>1, <2>2, <2>3
<1>9. CASE consolewrite(p)
  <2>1. io[p].pc = "write" /\ ReleaseConsole(p) /\ UNCHANGED <<r, w, iplock>>
    BY <1>9 DEF consolewrite, inputVars
  <2> QED BY <1>4, <2>1
<1>10. CASE ReadEmpty(p)
  <2>1. io[p].pc = "read" /\ r = w /\ UNCHANGED <<r, w, iplock>> BY <1>10 DEF ReadEmpty, inputVars
  <2>2. CASE io[p].killed BY <1>4, <1>10, <2>1, <2>2 DEF ReadEmpty
  <2>3. CASE ~io[p].killed
    <3>1. Step(p, "tosleep") /\ UNCHANGED conslock BY <1>10, <2>3 DEF ReadEmpty
    <3> QED BY <1>1, <1>3, <2>1, <3>1
  <2> QED BY <2>2, <2>3
<1>11. CASE SleepOnInput(p)
  <2>1. io[p].pc = "tosleep" /\ conslock' = Nobody /\ Step(p, "asleep") /\ UNCHANGED <<r, w, iplock>>
    BY <1>11 DEF SleepOnInput, inputVars
  <2>2. conslock = p /\ r = w /\ iplock # p BY <1>1, <2>1
  <2> QED BY <1>2, <1>3, <2>1, <2>2
<1>12. CASE ReadEof(p) BY <1>4, <1>12, Zenon DEF ReadEof
<1>13. CASE ReadChar(p)
  <2>1. io[p].pc = "read" /\ io[p].n > 0 /\ r # w /\ UNCHANGED <<w, iplock>> BY <1>13 DEF ReadChar
  <2>2. CASE out' = "nl" BY <1>4, <1>13, <2>1, <2>2 DEF ReadChar
  <2>3. CASE out' # "nl"
    <3> DEFINE x == [io[p] EXCEPT !.n = @ - 1]
    <3>1. io' = [io EXCEPT ![p] = x] /\ UNCHANGED conslock BY <1>1, <1>13, <2>3 DEF ReadChar
    <3>2. x \in Calls /\ x.pc = "read" /\ x.call = io[p].call BY <1>1, <2>1 DEF Calls
    <3> HIDE DEF x
    <3> QED BY <1>1, <2>1, <3>1, <3>2, Moves, ZenonT(30)
  <2> QED BY <2>2, <2>3
<1>14. CASE ReadFull(p)
  <2>1. io[p].pc = "read" /\ ReleaseConsole(p) /\ UNCHANGED <<r, w, iplock>>
    BY <1>14 DEF ReadFull, inputVars
  <2> QED BY <1>4, <2>1
<1>15. CASE KillUser(p)
  <2> DEFINE l == IF io[p].pc = "asleep" THEN "relock" ELSE io[p].pc
             x == [io[p] EXCEPT !.killed = TRUE, !.pc = l]
  <2>1. io' = [io EXCEPT ![p] = x] /\ UNCHANGED <<r, w, conslock, iplock>>
    BY <1>1, <1>15, Zenon DEF KillUser, inputVars, Calls
  <2>2. x \in Calls /\ x.call = io[p].call /\ x.pc = l BY <1>1, Zenon DEF Calls
  <2> HIDE DEF x
  <2> QED BY <1>1, <2>1, <2>2, Moves, Zenon
<1>16. CASE ExitUser(p)
  <2> DEFINE x == [io[p] EXCEPT !.killed = FALSE]
  <2>1. io[p].pc = "user" /\ io' = [io EXCEPT ![p] = x] /\ UNCHANGED <<r, w, conslock, iplock>>
    BY <1>1, <1>16 DEF ExitUser, inputVars
  <2>2. x \in Calls /\ x.call = io[p].call /\ x.pc = io[p].pc BY <1>1, Zenon DEF Calls
  <2> HIDE DEF x
  <2> QED BY <1>1, <2>1, <2>2, Moves, Zenon
<1> QED
  BY <1>2, <1>5, <1>6, <1>7, <1>8, <1>9, <1>10, <1>11, <1>12, <1>13, <1>14, <1>15, <1>16

\* A reader sleeps only while there is nothing to read, and holds neither the
\* lock of the console nor that of its inode (console.c:222-223, 241, 245-251).
THEOREM ReaderAsleepCorrect == ConsoleSpec => []ReaderAsleep
<1>1. ConsoleInit => SleepInv
  <2> SUFFICES ASSUME ConsoleInit PROVE SleepInv OBVIOUS
  <2>1. Away \in Calls /\ Away.pc = "user" BY DEF Away, Calls
  <2>2. io = [p \in Users |-> Away] /\ r = w /\ conslock = Nobody /\ iplock = Nobody
    BY DEF ConsoleInit
  <2> QED BY <2>1, <2>2, RingAssumption DEF SleepInv
<1>2. SleepInv /\ [ConsoleNext]_consoleVars => SleepInv'
  <2> SUFFICES ASSUME SleepInv, [ConsoleNext]_consoleVars PROVE SleepInv' OBVIOUS
  <2>1. CASE UNCHANGED consoleVars
    <3>1. UNCHANGED <<r, w, conslock, iplock, io>> BY <2>1 DEF consoleVars, inputVars
    <3> QED BY <3>1 DEF SleepInv
  <2>2. CASE ConsoleNext BY <2>2, KeyWakes, UserMoves DEF ConsoleNext
  <2> QED BY <2>1, <2>2
<1>3. SleepInv => ReaderAsleep BY DEF SleepInv, ReaderAsleep
<1> QED BY <1>1, <1>2, <1>3, PTL DEF ConsoleSpec

-----------------------------------------------------------------------------
(* The process listings.                                                   *)

Entries  == [state : {"UNUSED", "EMBRYO", "RUNNABLE", "SLEEPING", "ZOMBIE"}, pid : Nat,
             name : PsNames \cup {"", "init"}]
Listings == [pc : {"idle", "scan", "near", "done"}, i : Slots, d : 1..NEAR, q : PsQueries \cup {NoQuery},
             found : BOOLEAN, rows : SUBSET Slots, still : SUBSET Slots]
PsTyped  == tab \in [Slots -> Entries] /\ nextpid \in Nat /\ ps \in Listings

PidsOnce ==
  /\ \A s \in Slots : tab[s].pid < nextpid
  /\ \A u, s \in Slots : tab[u].pid = tab[s].pid /\ tab[s].pid # 0 => u = s

\* What a listing in progress has of the slots that do not change: those it has
\* passed are listed if they are asked for, none has the pid asked for, and those
\* nearer to it than the distance it has reached are not there.
DumpScanned ==
  ps.pc = "scan" /\ ps.q.kind = "dump" =>
    \A s \in ps.still : s \in ps.rows <=> s < ps.i /\ tab[s].state # "UNUSED"
PsScanned ==
  ps.pc = "scan" /\ ps.q.kind = "ps" =>
    /\ ps.d = 1 /\ (ps.found <=> ps.rows # {})
    /\ \A s \in ps.still : s \in ps.rows <=> s < ps.i /\ Selected(ps.q, tab[s])
    /\ ps.q.pid # NoPid => \A s \in ps.still : s < ps.i => tab[s].pid # ps.q.pid
NearScanned ==
  ps.pc = "near" =>
    /\ ps.q.kind = "ps" /\ ps.q.pid # NoPid
    /\ \A s \in ps.still :
         /\ tab[s].pid # ps.q.pid
         /\ tab[s].state # "UNUSED" =>
              Distance(ps.q, tab[s]) >= ps.d /\ (s < ps.i => Distance(ps.q, tab[s]) > ps.d)

PsInv == PsTyped /\ PidsOnce /\ DumpScanned /\ PsScanned /\ NearScanned /\ ListsTheUnchanged

LEMMA NoListTyped == NoList \in Listings
<1>1. PsSlots \in Nat \ {0} /\ NEAR \in Nat \ {0} BY PsAssumption, Zenon
<1>2. 1 \in Slots /\ 1 \in 1..NEAR BY ONLY <1>1 DEF Slots
<1> QED BY ONLY <1>2, Zenon DEF NoList, Listings

LEMMA InitPs == PsInit => PsInv
<1> SUFFICES ASSUME PsInit PROVE PsInv OBVIOUS
<1>1. PsTyped
  <2>1. NoList \in Listings BY NoListTyped
  <2> QED BY <2>1, Zenon DEF PsInit, PsTyped, Entries, NoProc
<1>2. PidsOnce
  <2>1. \A s \in Slots : tab[s].pid = IF s = 1 THEN 1 ELSE 0 BY Zenon DEF PsInit, NoProc
  <2>2. nextpid = 2 BY DEF PsInit
  <2> QED BY ONLY <2>1, <2>2 DEF PidsOnce
<1>3. ps.pc = "idle" BY DEF PsInit, NoList
<1> QED BY <1>1, <1>2, <1>3 DEF PsInv, DumpScanned, PsScanned, NearScanned, ListsTheUnchanged

\* A process that changes is no longer one of those the listing answers for.
LEMMA ChangeKeeps ==
  ASSUME PsInv, NEW s \in Slots, NEW t \in Entries, Change(s, t), nextpid' \in Nat, nextpid <= nextpid',
         t.pid = tab[s].pid \/ t.pid = 0 \/ (t.pid = nextpid /\ nextpid' = nextpid + 1)
  PROVE  PsInv'
<1>1. PsTyped /\ PidsOnce BY DEF PsInv
<1>2. tab' = [tab EXCEPT ![s] = t] /\ ps' = [ps EXCEPT !.still = @ \ {s}] BY DEF Change
<1>3. /\ ps' \in Listings /\ ps'.still = ps.still \ {s}
      /\ ps'.pc = ps.pc /\ ps'.i = ps.i /\ ps'.d = ps.d /\ ps'.q = ps.q /\ ps'.found = ps.found
      /\ ps'.rows = ps.rows
  BY <1>1, <1>2 DEF PsTyped, Listings
<1>4. \A u \in ps.still \ {s} : tab'[u] = tab[u] BY <1>1, <1>2 DEF PsTyped, Listings
<1>5. PsTyped' BY <1>1, <1>2, <1>3 DEF PsTyped
<1>6. PidsOnce'
  <2> DEFINE n(u) == tab[u].pid
             m(u) == tab'[u].pid
  <2>1. \A u \in Slots : n(u) \in Nat BY <1>1, Zenon DEF PsTyped, Entries
  <2>2. \A u \in Slots : u # s => m(u) = n(u) BY <1>1, <1>2 DEF PsTyped
  <2>3. m(s) = t.pid BY <1>1, <1>2 DEF PsTyped
  <2>4. /\ \A u \in Slots : n(u) < nextpid
        /\ \A u, o \in Slots : n(u) = n(o) /\ n(o) # 0 => u = o
    BY <1>1 DEF PidsOnce
  <2>5. m(s) = n(s) \/ m(s) = 0 \/ (m(s) = nextpid /\ nextpid' = nextpid + 1) BY <2>3
  <2>6. nextpid \in Nat BY <1>1 DEF PsTyped
  <2> HIDE DEF n, m
  <2>7. \A u \in Slots : m(u) < nextpid' BY <2>1, <2>2, <2>4, <2>5, <2>6
  <2>8. \A u, o \in Slots : m(u) = m(o) /\ m(o) # 0 => u = o BY <2>1, <2>2, <2>4, <2>5, <2>6
  <2> QED BY <2>7, <2>8 DEF PidsOnce, m
<1>7. DumpScanned' BY <1>3, <1>4 DEF PsInv, DumpScanned
<1>8. PsScanned' BY <1>3, <1>4 DEF PsInv, PsScanned
<1>9. NearScanned' BY <1>3, <1>4 DEF PsInv, NearScanned
<1>10. ListsTheUnchanged' BY <1>3, <1>4 DEF PsInv, ListsTheUnchanged
<1> QED BY <1>5, <1>6, <1>7, <1>8, <1>9, <1>10 DEF PsInv

LEMMA OthersKeep ==
  ASSUME PsInv, NEW s \in Slots, PsAlloc(s) \/ PsMoves(s)
  PROVE  PsInv'
<1>1. tab[s] \in Entries /\ nextpid \in Nat BY DEF PsInv, PsTyped
<1>2. CASE PsAlloc(s)
  <2> DEFINE t == [tab[s] EXCEPT !.state = "EMBRYO", !.pid = nextpid]
  <2>1. t \in Entries /\ t.pid = nextpid BY <1>1, Zenon DEF Entries
  <2>2. Change(s, t) /\ nextpid' = nextpid + 1 BY <1>2 DEF PsAlloc
  <2> HIDE DEF t
  <2> QED BY <1>1, <2>1, <2>2, ChangeKeeps
<1>3. CASE PsMoves(s)
  <2> DEFINE Moved(t) == t \in Entries /\ (t.pid = tab[s].pid \/ t.pid = 0)
  <2>1. \A n \in PsNames : Moved([tab[s] EXCEPT !.state = "RUNNABLE", !.name = n]) BY <1>1, Zenon DEF Entries
  <2>2. \A x \in {"SLEEPING", "RUNNABLE", "ZOMBIE"} : Moved([tab[s] EXCEPT !.state = x])
    BY <1>1, Zenon DEF Entries
  <2>3. Moved([tab[s] EXCEPT !.pid = 0, !.name = ""]) /\ Moved(NoProc) BY <1>1, Zenon DEF Entries, NoProc
  <2> HIDE DEF Moved
  <2>4. \E t : Moved(t) /\ Change(s, t) BY <1>3, <2>1, <2>2, <2>3, Zenon DEF PsMoves
  <2>5. PICK t : Moved(t) /\ Change(s, t) BY <2>4
  <2>6. nextpid' = nextpid BY <1>3, Zenon DEF PsMoves
  <2> QED BY <1>1, <2>5, <2>6, ChangeKeeps DEF Moved
<1> QED BY <1>2, <1>3

LEMMA CallKeeps ==
  ASSUME PsInv, NEW q \in PsQueries, PsCall(q)
  PROVE  PsInv'
<1>1. UNCHANGED <<tab, nextpid>> /\ ps' = [NoList EXCEPT !.pc = "scan", !.q = q, !.still = Slots]
  BY DEF PsCall
<1>2. NoList \in Listings BY NoListTyped
<1>3. ps' \in Listings /\ ps'.pc = "scan" /\ ps'.i = 1 /\ ps'.d = 1 /\ ps'.rows = {} /\ ps'.found = FALSE
      /\ ps'.still = Slots
  BY <1>1, <1>2, Zenon DEF Listings, NoList
<1>4. \A s \in Slots : ~(s < 1) BY DEF Slots
<1>5. PsTyped' /\ PidsOnce' BY <1>1, <1>3 DEF PsInv, PsTyped, PidsOnce
<1>6. DumpScanned' BY <1>3, <1>4 DEF DumpScanned
<1>7. PsScanned' BY <1>3, <1>4 DEF PsScanned
<1> QED BY <1>3, <1>5, <1>6, <1>7, ZenonT(30) DEF PsInv, NearScanned, ListsTheUnchanged

LEMMA ReturnKeeps == PsInv /\ PsReturn => PsInv'
<1> SUFFICES ASSUME PsInv, PsReturn PROVE PsInv' OBVIOUS
<1>1. UNCHANGED <<tab, nextpid>> /\ ps' = NoList BY DEF PsReturn
<1>2. NoList \in Listings BY NoListTyped
<1>3. ps'.pc = "idle" BY <1>1 DEF NoList
<1>4. PsTyped' /\ PidsOnce' BY <1>1, <1>2 DEF PsInv, PsTyped, PidsOnce
<1> QED BY <1>3, <1>4, Zenon DEF PsInv, DumpScanned, PsScanned, NearScanned, ListsTheUnchanged

\* How far two pids are apart.
LEMMA Apart ==
  ASSUME NEW q \in PsQueries \cup {NoQuery}, NEW t \in Entries
  PROVE  Distance(q, t) \in Nat /\ (Distance(q, t) = 0 <=> t.pid = q.pid) /\ q.pid # 0
<1> DEFINE m == q.pid
           n == t.pid
<1>1. m \in Int /\ m # 0 BY PsAssumption DEF NoQuery, NoPid
<1>2. n \in Nat BY Zenon DEF Entries
<1>3. Distance(q, t) = IF m > n THEN m - n ELSE n - m BY DEF Distance
<1> HIDE DEF m, n
<1>4. Distance(q, t) \in Nat /\ (Distance(q, t) = 0 <=> n = m) BY <1>1, <1>2, <1>3
<1> QED BY <1>1, <1>4 DEF m, n

\* What every step of a listing has at hand.
LEMMA Listing ==
  ASSUME PsInv
  PROVE  /\ tab \in [Slots -> Entries] /\ ps \in Listings /\ ps.i \in Slots /\ ps.d \in 1..NEAR
         /\ ps.still \subseteq Slots /\ ps.rows \subseteq Slots
         /\ \A s \in Slots : s < ps.i + 1 <=> s < ps.i \/ s = ps.i
         /\ \A s \in Slots : s <= PsSlots
         /\ ~Last(ps.i) => ps.i + 1 \in Slots
<1>1. /\ tab \in [Slots -> Entries] /\ ps \in Listings /\ ps.i \in Slots /\ ps.d \in 1..NEAR
      /\ ps.still \subseteq Slots /\ ps.rows \subseteq Slots
  BY DEF PsInv, PsTyped, Listings
<1> DEFINE i == ps.i
<1>2. i \in Slots BY <1>1
<1> HIDE DEF i
<1>3. /\ \A s \in Slots : s < i + 1 <=> s < i \/ s = i
      /\ \A s \in Slots : s <= PsSlots
      /\ ~Last(i) => i + 1 \in Slots
  BY <1>2, PsAssumption DEF Slots, Last
<1> QED BY <1>1, <1>3 DEF i

LEMMA DumpKeeps ==
  ASSUME PsInv, procdump
  PROVE  PsInv'
<1> DEFINE R == IF tab[ps.i].state = "UNUSED" THEN ps.rows ELSE ps.rows \cup {ps.i}
<1>1. UNCHANGED <<tab, nextpid>> /\ ps.pc = "scan" /\ ps.q.kind = "dump" BY DEF procdump
<1>2. /\ ps' \in Listings /\ ps'.rows = R /\ ps'.q = ps.q /\ ps'.still = ps.still
      /\ IF Last(ps.i) THEN ps'.pc = "done" ELSE ps'.pc = "scan" /\ ps'.i = ps.i + 1
  BY Listing DEF procdump, Listings
<1>3. \A s \in ps.still : s \in ps.rows <=> s < ps.i /\ tab[s].state # "UNUSED"
  BY <1>1 DEF PsInv, DumpScanned
<1>4. \A s \in ps.still : s \in R <=> s < ps.i + 1 /\ tab[s].state # "UNUSED" BY <1>3, Listing
<1>5. Last(ps.i) => \A s \in Slots : s < ps.i + 1
  BY Listing DEF Last, Slots
<1> HIDE DEF R
<1>6. PsTyped' /\ PidsOnce' BY <1>1, <1>2 DEF PsInv, PsTyped, PidsOnce
<1>7. DumpScanned' BY <1>1, <1>2, <1>4 DEF DumpScanned
<1>8. PsScanned' /\ NearScanned' BY <1>1, <1>2 DEF PsScanned, NearScanned
<1>9. ListsTheUnchanged' BY <1>1, <1>2, <1>4, <1>5, Listing DEF ListsTheUnchanged
<1> QED BY <1>6, <1>7, <1>8, <1>9 DEF PsInv

LEMMA NearKeeps ==
  ASSUME PsInv, PsNear
  PROVE  PsInv'
<1>1. UNCHANGED <<tab, nextpid>> /\ ps.pc = "near" BY DEF PsNear
<1>2. /\ ps.q.kind = "ps" /\ ps.q.pid # NoPid
      /\ \A s \in ps.still :
         /\ tab[s].pid # ps.q.pid
         /\ tab[s].state # "UNUSED" =>
              Distance(ps.q, tab[s]) >= ps.d /\ (s < ps.i => Distance(ps.q, tab[s]) > ps.d)
  BY <1>1 DEF PsInv, NearScanned
<1> DEFINE D(s) == Distance(ps.q, tab[s])
<1>3. \A s \in Slots : D(s) \in Nat BY Apart, Listing DEF Listings
<1>4. ASSUME ps' \in Listings, ps'.q = ps.q, ps'.still = ps.still, ps'.pc # "scan",
             NearScanned', ListsTheUnchanged'
      PROVE  PsInv'
  BY <1>1, <1>2, <1>4 DEF PsInv, PsTyped, PidsOnce, DumpScanned, PsScanned
<1>5. CASE tab[ps.i].state # "UNUSED" /\ D(ps.i) = ps.d
  <2>1. ps' \in Listings /\ ps'.q = ps.q /\ ps'.still = ps.still /\ ps'.pc = "done" /\ ps'.rows = {ps.i}
    BY <1>5, Listing, Zenon DEF PsNear, Listings
  <2>2. ListsTheUnchanged'
    BY <1>1, <1>2, <1>5, <2>1, Listing DEF ListsTheUnchanged
  <2> QED BY <1>4, <2>1, <2>2 DEF NearScanned
<1>6. CASE ~(tab[ps.i].state # "UNUSED" /\ D(ps.i) = ps.d)
  <2>1. \A s \in ps.still : s < ps.i + 1 /\ tab[s].state # "UNUSED" => D(s) > ps.d
    BY <1>2, <1>3, <1>6, Listing
  <2>2. CASE ~Last(ps.i)
    <3>1. /\ ps' \in Listings /\ ps'.q = ps.q /\ ps'.still = ps.still /\ ps'.pc = "near"
          /\ ps'.i = ps.i + 1 /\ ps'.d = ps.d
      BY <1>1, <1>6, <2>2, Listing DEF PsNear, Listings
    <3>2. NearScanned' BY <1>1, <1>2, <2>1, <3>1 DEF NearScanned
    <3> QED BY <1>4, <3>1, <3>2 DEF ListsTheUnchanged
  <2>3. CASE Last(ps.i)
    <3>1. \A s \in Slots : s < ps.i + 1 BY <2>3, Listing DEF Last, Slots
    <3>2. \A s \in ps.still : tab[s].state # "UNUSED" => D(s) > ps.d BY <2>1, <3>1, Listing
    <3>3. CASE ps.d < NEAR
      <4>0. 1 \in Slots /\ ps.d + 1 \in 1..NEAR BY <3>3, Listing, PsAssumption DEF Slots
      <4>1. /\ ps' \in Listings /\ ps'.q = ps.q /\ ps'.still = ps.still /\ ps'.pc = "near"
            /\ ps'.i = 1 /\ ps'.d = ps.d + 1
        <5>1. ps' = [ps EXCEPT !.d = ps.d + 1, !.i = 1] BY <1>6, <2>3, <3>3 DEF PsNear
        <5> QED BY <5>1, <4>0, <1>1, Listing, Zenon DEF Listings
      <4>2. \A s \in Slots : ~(s < 1) BY DEF Slots
      <4>3. \A s \in ps.still : tab[s].state # "UNUSED" => D(s) >= ps.d + 1
        BY <3>2, <1>3, Listing
      <4>4. NearScanned' BY <1>1, <1>2, <4>1, <4>2, <4>3, Listing DEF NearScanned
      <4> QED BY <1>4, <4>1, <4>4 DEF ListsTheUnchanged
    <3>4. CASE ~(ps.d < NEAR)
      <4>1. ps' \in Listings /\ ps'.q = ps.q /\ ps'.still = ps.still /\ ps'.pc = "done"
        BY <1>1, <1>6, <2>3, <3>4, Listing DEF PsNear, Listings
      <4>2. \A s \in ps.still : tab[s].state # "UNUSED" => ~(D(s) <= NEAR)
        BY <3>2, <3>4, <1>3, Listing, PsAssumption
      <4>3. ListsTheUnchanged' BY <1>1, <1>2, <4>1, <4>2 DEF ListsTheUnchanged
      <4> QED BY <1>4, <4>1, <4>3 DEF NearScanned
    <3> QED BY <3>3, <3>4
  <2> QED BY <2>2, <2>3
<1> QED BY <1>5, <1>6

LEMMA ScanKeeps ==
  ASSUME PsInv, PsScan
  PROVE  PsInv'
<1> DEFINE i == ps.i
           q == ps.q
           hit == Selected(q, tab[i])
           R == IF hit THEN ps.rows \cup {i} ELSE ps.rows
<1>1. UNCHANGED <<tab, nextpid>> /\ ps.pc = "scan" /\ q.kind = "ps" BY DEF PsScan
<1>2. /\ ps.d = 1 /\ (ps.found <=> ps.rows # {})
      /\ \A s \in ps.still : s \in ps.rows <=> s < i /\ Selected(q, tab[s])
      /\ q.pid # NoPid => \A s \in ps.still : s < i => tab[s].pid # q.pid
  BY <1>1 DEF PsInv, PsScanned
<1>3. ASSUME ps' \in Listings, ps'.q = q, PsScanned', NearScanned', ListsTheUnchanged'
      PROVE  PsInv'
  BY <1>1, <1>3 DEF PsInv, PsTyped, PidsOnce, DumpScanned
<1>4. \A s \in Slots : Distance(q, tab[s]) \in Nat /\ (Distance(q, tab[s]) = 0 <=> tab[s].pid = q.pid)
  BY Apart, Listing DEF Listings
<1>5. CASE q.pid # NoPid /\ tab[i].pid = q.pid
  <2>1. ps' \in Listings /\ ps'.q = q /\ ps'.still = ps.still /\ ps'.pc = "done" /\ i \in ps'.rows
    <3>1. ps' = [ps EXCEPT !.rows = @ \cup {ps.i}, !.found = TRUE, !.pc = "done"] BY <1>5 DEF PsScan
    <3> QED BY <3>1, Listing, Zenon DEF Listings
  <2>2. \A s \in Slots : tab[s].pid = q.pid => s = i
    <3>1. q.pid # 0 BY Apart, Listing DEF Listings
    <3> QED BY <1>5, <3>1, Listing DEF PsInv, PidsOnce
  <2>3. \A s \in Slots : Distance(q, tab[i]) <= Distance(q, tab[s])
    <3>1. Distance(q, tab[i]) = 0 BY <1>4, <1>5, Listing
    <3> QED BY <3>1, <1>4
  <2>4. ListsTheUnchanged' BY <1>1, <1>5, <2>1, <2>2, <2>3, Listing DEF ListsTheUnchanged
  <2> QED BY <1>3, <2>1, <2>4 DEF PsScanned, NearScanned
<1>6. CASE ~(q.pid # NoPid /\ tab[i].pid = q.pid)
  <2> DEFINE l == [ps EXCEPT !.rows = R, !.found = ps.found \/ hit]
  <2>1. ps' = IF ~Last(i) THEN [l EXCEPT !.i = i + 1]
              ELSE IF l.found \/ q.pid = NoPid THEN [l EXCEPT !.pc = "done"]
              ELSE [l EXCEPT !.pc = "near", !.i = 1]
    BY <1>6 DEF PsScan
  <2>2. /\ l \in Listings /\ l.rows = R /\ (l.found <=> ps.found \/ hit) /\ l.q = q /\ l.still = ps.still
        /\ l.pc = ps.pc /\ l.d = ps.d
    BY Listing, Zenon DEF Listings
  <2>3. l.found <=> R # {} BY <1>2, <2>2
  <2>4. \A s \in ps.still : s \in R <=> s < i + 1 /\ Selected(q, tab[s]) BY <1>2, Listing
  <2>5. q.pid # NoPid => \A s \in ps.still : s < i + 1 => tab[s].pid # q.pid BY <1>2, <1>6, Listing
  <2> HIDE DEF l, R
  <2>6. CASE ~Last(i)
    <3>1. /\ ps' \in Listings /\ ps'.q = q /\ ps'.still = ps.still /\ ps'.pc = "scan" /\ ps'.i = i + 1
          /\ ps'.d = ps.d /\ ps'.rows = R /\ ps'.found = l.found
      BY <1>1, <2>1, <2>2, <2>6, Listing DEF Listings
    <3>2. PsScanned' BY <1>1, <1>2, <2>3, <2>4, <2>5, <3>1 DEF PsScanned
    <3> QED BY <1>3, <3>1, <3>2 DEF NearScanned, ListsTheUnchanged
  <2>7. CASE Last(i)
    <3>1. \A s \in Slots : s < i + 1 BY <2>7, Listing DEF Last, Slots
    <3>2. CASE l.found \/ q.pid = NoPid
      <4>1. ps' \in Listings /\ ps'.q = q /\ ps'.still = ps.still /\ ps'.pc = "done" /\ ps'.rows = R
        BY <2>1, <2>2, <2>7, <3>2 DEF Listings
      <4>2. \A s \in ps.still : s \in R <=> Selected(q, tab[s]) BY <2>4, <3>1, Listing
      <4>3. q.pid # NoPid => R # {} /\ R \subseteq Slots /\ \A s \in ps.still : tab[s].pid # q.pid
        BY <2>2, <2>3, <2>5, <3>1, <3>2, Listing DEF Listings
      <4>4. ListsTheUnchanged' BY <1>1, <4>1, <4>2, <4>3 DEF ListsTheUnchanged
      <4> QED BY <1>3, <4>1, <4>4 DEF PsScanned, NearScanned
    <3>3. CASE ~(l.found \/ q.pid = NoPid)
      <4>1. ps' \in Listings /\ ps'.q = q /\ ps'.still = ps.still /\ ps'.pc = "near" /\ ps'.i = 1 /\ ps'.d = 1
        <5>1. 1 \in Slots BY PsAssumption DEF Slots
        <5> QED BY <5>1, <1>2, <2>1, <2>2, <2>7, <3>3, Zenon DEF Listings
      <4>2. \A s \in Slots : ~(s < 1) BY DEF Slots
      <4>3. \A s \in ps.still : tab[s].pid # q.pid /\ Distance(q, tab[s]) >= 1
        BY <1>4, <2>5, <3>1, <3>3, Listing
      <4>4. NearScanned' BY <1>1, <3>3, <4>1, <4>2, <4>3, Listing DEF NearScanned
      <4> QED BY <1>3, <4>1, <4>4 DEF PsScanned, ListsTheUnchanged
    <3> QED BY <3>2, <3>3
  <2> QED BY <2>6, <2>7
<1> QED BY <1>5, <1>6

\* For any number of slots, pids and queries a listing is right about every
\* process that does not change while it runs, although sys_ps() and procdump()
\* read the table without its lock (proc.c:546-560, 615-722).
THEOREM ListsTheUnchangedCorrect == PsSpec => []ListsTheUnchanged
<1>1. PsInv /\ [PsNext]_psVars => PsInv'
  <2> SUFFICES ASSUME PsInv, [PsNext]_psVars PROVE PsInv' OBVIOUS
  <2>1. CASE UNCHANGED psVars
    BY <2>1, ZenonT(30)
    DEF psVars, PsInv, PsTyped, PidsOnce, DumpScanned, PsScanned, NearScanned, ListsTheUnchanged
  <2>2. CASE PsNext
    BY <2>2, OthersKeep, CallKeeps, ScanKeeps, NearKeeps, DumpKeeps, ReturnKeeps DEF PsNext
  <2> QED BY <2>1, <2>2
<1>2. PsInv => ListsTheUnchanged BY DEF PsInv
<1> QED BY <1>1, <1>2, InitPs, PTL DEF PsSpec

=============================================================================
