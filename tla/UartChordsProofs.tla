-------------------------- MODULE UartChordsProofs --------------------------
(***************************************************************************)
(* Proofs about UartChords and the driver of the VS1053, for messages of   *)
(* any size, any plugin, any room in the UART and the chip, and any number *)
(* of messages and resets.                                                 *)
(***************************************************************************)
EXTENDS UartChords, TLAPS

---------------------------------------------------------------------------
(* Division by the size of a message *)

LEMMA DivMod ==
  ASSUME NEW s \in Nat \ {0}, NEW q \in Int, NEW r \in 0..(s - 1)
  PROVE  (s * q + r) % s = r /\ (s * q + r) \div s = q
BY Z3

LEMMA Division ==
  ASSUME NEW s \in Nat \ {0}, NEW x \in Nat
  PROVE  \E q \in Nat, r \in 0..(s - 1) :
           /\ x = s * q + r
           /\ x % s = r /\ x \div s = q
<1> DEFINE q == x \div s
           r == x % s
<1>1. s \in Int /\ s > 0 /\ x \in Int
  OBVIOUS
<1>2. x = s * q + r
  <2> SUFFICES ASSUME NEW t \in Int, t > 0, NEW y \in Int
               PROVE  y = t * (y \div t) + (y % t)
    BY <1>1
  <2> QED BY Z3
<1>3. q \in Nat /\ r \in 0..(s - 1)
  BY Z3
<1> QED BY <1>2, <1>3

\* Counting modulo the size.
LEMMA NextMod ==
  ASSUME NEW s \in Nat \ {0}, NEW n \in Nat
  PROVE  /\ n % s \in 0..(s - 1)
         /\ (n % s) + 1 < s => (n + 1) % s = (n % s) + 1
         /\ (n % s) + 1 >= s => (n + 1) % s = 0
<1>1. PICK q \in Nat, r \in 0..(s - 1) : n = s * q + r /\ n % s = r
  BY Division
<1>2. CASE r + 1 < s
  <2>1. (s * q + (r + 1)) % s = r + 1
    <3>1. r + 1 \in 0..(s - 1) /\ q \in Int
      BY <1>2
    <3> QED BY <3>1, DivMod
  <2>2. n + 1 = s * q + (r + 1)
    BY <1>1
  <2> QED BY <1>1, <1>2, <2>1, <2>2
<1>3. CASE r + 1 >= s
  <2>1. (s * (q + 1) + 0) % s = 0
    BY DivMod
  <2>2. n + 1 = s * (q + 1) + 0
    <3>1. r = s - 1
      BY <1>3
    <3>2. s * (q + 1) = s * q + s
      BY Z3
    <3>3. s * q \in Int
      OBVIOUS
    <3> QED BY <1>1, <3>1, <3>2, <3>3
  <2> QED BY <1>1, <1>3, <2>1, <2>2
<1> QED BY <1>2, <1>3

\* A number is the last of its message exactly when it and another last number
\* are whole messages apart.
LEMMA LastApart ==
  ASSUME NEW s \in Nat \ {0}, NEW h \in Nat, NEW n \in Nat, n % s = s - 1
  PROVE  (h - n) % s = 0 <=> h % s = s - 1
<1>1. PICK q \in Nat, r \in 0..(s - 1) : h = s * q + r /\ h % s = r
  <2>1. \E q \in Nat, r \in 0..(s - 1) : h = s * q + r /\ h % s = r /\ h \div s = q
    BY Division
  <2> QED BY <2>1, Zenon
<1>2. PICK k \in Nat : n = s * k + (s - 1)
  <2>1. PICK k \in Nat, t \in 0..(s - 1) : n = s * k + t /\ n % s = t
    <3>1. \E k \in Nat, t \in 0..(s - 1) : n = s * k + t /\ n % s = t /\ n \div s = k
      BY Division
    <3> QED BY <3>1, Zenon
  <2> QED BY <2>1
<1>3. CASE r = s - 1
  <2>1. (s * (q - k) + 0) % s = 0
    BY DivMod
  <2>2. h - n = s * (q - k) + 0
    BY <1>1, <1>2, <1>3, Z3
  <2> QED BY <1>1, <1>3, <2>1, <2>2
<1>4. CASE r # s - 1
  <2>1. (s * (q - k - 1) + (r + 1)) % s = r + 1
    <3>1. r + 1 \in 0..(s - 1) /\ q - k - 1 \in Int
      BY <1>4
    <3> QED BY <3>1, DivMod
  <2>2. h - n = s * (q - k - 1) + (r + 1)
    BY <1>1, <1>2, Z3
  <2> QED BY <1>1, <1>4, <2>1, <2>2
<1> QED BY <1>3, <1>4

---------------------------------------------------------------------------
(* Positions in what the other board sends *)

\* A message is begun for every SIZE bytes.
SentInv ==
  /\ sent \in Seq(Botones)
  /\ pos \in Position
  /\ pos <= SIZE * Len(sent) /\ SIZE * Len(sent) < pos + SIZE

\* Bytes are read from what has arrived.
LineInv ==
  /\ rx \in Seq(Nat) /\ Len(rx) <= RXFIFO
  /\ \A i \in 1..Len(rx) : rx[i] < pos
  /\ reads \in Nat /\ reads + Len(rx) <= pos

\* idx says how many bytes were read, up to whole messages.
MessageInv ==
  /\ p \in Seq(Nat) /\ Len(p) = reads % SIZE
  /\ \A i \in 1..Len(p) : p[i] < pos
  /\ lastChord \in 0..NULL
  /\ reboots \in 0..MaxReboots

PositionInv == SentInv /\ LineInv /\ MessageInv

LEMMA SizeType == SIZE \in Nat \ {0} /\ MaxFrames * SIZE \in Nat
<1>1. SIZE \in Nat \ {0} /\ MaxFrames \in Nat
  BY UartChordsAssumption DEF SIZE
<1> QED BY <1>1, Z3

LEMMA SentType ==
  ASSUME SentInv
  PROVE  Len(sent) \in Nat /\ \A i \in 1..Len(sent) : sent[i] \in 0..15
<1>1. sent \in Seq(Botones)
  BY Zenon DEF SentInv
<1>2. \A i \in 1..Len(sent) : sent[i] \in Botones
  BY <1>1
<1>3. Len(sent) \in Nat
  BY <1>1
<1>4. Botones \subseteq 0..15
  BY UartChordsAssumption, Zenon
<1> QED BY <1>2, <1>3, <1>4, Zenon

\* A byte that has been sent belongs to a message that has been begun.
LEMMA SentMessage ==
  ASSUME SentInv, NEW n \in Nat, n < pos
  PROVE  /\ n \div SIZE \in Nat /\ n % SIZE \in 0..(SIZE - 1)
         /\ n = SIZE * (n \div SIZE) + (n % SIZE)
         /\ (n \div SIZE) + 1 \in 1..Len(sent)
<1> DEFINE S == SIZE
           L == Len(sent)
<1>1. S \in Nat \ {0} /\ L \in Nat /\ pos \in Nat /\ pos <= S * L
  BY SizeType DEF SentInv, Position
<1> HIDE DEF S, L
<1>2. PICK q \in Nat, r \in 0..(S - 1) : n = S * q + r /\ n % S = r /\ n \div S = q
  BY <1>1, Division
<1>3. q < L
  <2> SUFFICES ASSUME q >= L PROVE FALSE
    BY <1>1, <1>2
  <2>1. S * q >= S * L
    BY <1>1, Z3
  <2> QED BY <1>1, <1>2, <2>1, Z3
<1> QED BY <1>1, <1>2, <1>3 DEF S, L

\* The low bit of a byte that has been sent.
LEMMA BitType ==
  ASSUME SentInv, NEW n \in Nat, n < pos
  PROVE  Bit(n) \in {0, 1}
<1>1. n % SIZE \in 0..(SIZE - 1) /\ (n \div SIZE) + 1 \in 1..Len(sent)
  BY SentMessage
<1>2. CASE n % SIZE < FLOATS
  BY <1>1, <1>2, UartChordsAssumption DEF Bit, SIZE
<1>3. CASE ~(n % SIZE < FLOATS)
  <2> DEFINE b == sent[(n \div SIZE) + 1]
             j == (n % SIZE) - FLOATS + 1
  <2>1. b \in 0..15
    <3> HIDE DEF b
    <3> QED BY <1>1, SentType DEF b
  <2>2. j \in 1..4
    BY <1>1, <1>3, UartChordsAssumption DEF SIZE
  <2>3. Bit(n) = (b \div <<1, 2, 4, 8>>[j]) % 2
    BY <1>3 DEF Bit
  <2> HIDE DEF b, j
  <2>4. <<1, 2, 4, 8>>[j] \in {1, 2, 4, 8}
    BY <2>2
  <2>5. b \div <<1, 2, 4, 8>>[j] \in Nat
    BY <2>1, <2>4, Z3
  <2> QED BY <2>3, <2>5
<1> QED BY <1>2, <1>3

\* What the four buttons of a message say.
LEMMA Botones16 ==
  ASSUME SentInv, NEW m, m \in Seq(Nat), Len(m) = SIZE,
         \A i \in 1..SIZE : m[i] < pos
  PROVE  obtenerValorBotones(m) \in 0..15
<1>1. \A i \in 1..SIZE : m[i] \in Nat
  OBVIOUS
<1>2. /\ FLOATS + 1 \in 1..SIZE /\ FLOATS + 2 \in 1..SIZE
      /\ FLOATS + 3 \in 1..SIZE /\ FLOATS + 4 \in 1..SIZE
  BY UartChordsAssumption DEF SIZE
<1>3. /\ Bit(m[FLOATS + 1]) \in {0, 1} /\ Bit(m[FLOATS + 2]) \in {0, 1}
      /\ Bit(m[FLOATS + 3]) \in {0, 1} /\ Bit(m[FLOATS + 4]) \in {0, 1}
  BY <1>1, <1>2, BitType
<1> QED BY <1>3 DEF obtenerValorBotones

\* A message in step says what was sent with it.
LEMMA InStepValue ==
  ASSUME SentInv, NEW m, m \in Seq(Nat), Len(m) = SIZE,
         \A i \in 1..SIZE : m[i] < pos,
         NEW q \in Nat, \A i \in 1..SIZE : m[i] = SIZE * q + (i - 1)
  PROVE  obtenerValorBotones(m) = sent[q + 1]
<1>1. SIZE \in Nat \ {0} /\ FLOATS \in Nat /\ SIZE = FLOATS + 4
  BY SizeType, UartChordsAssumption DEF SIZE
<1>2. \A j \in 1..4 : /\ m[FLOATS + j] % SIZE = FLOATS + j - 1
                      /\ m[FLOATS + j] \div SIZE = q
  <2> TAKE j \in 1..4
  <2>1. FLOATS + j \in 1..SIZE /\ FLOATS + j - 1 \in 0..(SIZE - 1)
    BY <1>1
  <2>2. m[FLOATS + j] = SIZE * q + (FLOATS + j - 1)
    BY <1>1, <2>1
  <2>3. \A r \in 0..(SIZE - 1) : /\ (SIZE * q + r) % SIZE = r
                                  /\ (SIZE * q + r) \div SIZE = q
    <3>1. q \in Int
      OBVIOUS
    <3> QED BY <1>1, <3>1, DivMod, Zenon
  <2> QED BY <2>1, <2>2, <2>3, Zenon
<1> DEFINE b == sent[q + 1]
<1>3. b \in 0..15
  <2>1. m[FLOATS + 1] \in Nat /\ m[FLOATS + 1] < pos
    BY <1>1
  <2>2. m[FLOATS + 1] \div SIZE = q
    BY <1>2
  <2>3. q + 1 \in 1..Len(sent)
    BY <2>1, <2>2, SentMessage
  <2> QED BY <2>3, SentType
<1>4. \A j \in 1..4 : Bit(m[FLOATS + j]) = (b \div <<1, 2, 4, 8>>[j]) % 2
  <2> TAKE j \in 1..4
  <2>1. /\ m[FLOATS + j] % SIZE = FLOATS + j - 1
        /\ m[FLOATS + j] \div SIZE = q
    BY <1>2
  <2>2. ~(m[FLOATS + j] % SIZE < FLOATS) /\ (m[FLOATS + j] % SIZE) - FLOATS + 1 = j
    <3> DEFINE v == m[FLOATS + j] % SIZE
    <3> HIDE DEF v
    <3> SUFFICES ~(v < FLOATS) /\ v - FLOATS + 1 = j
      BY DEF v
    <3>1. v = FLOATS + j - 1
      BY <2>1 DEF v
    <3> QED BY <1>1, <3>1
  <2> QED BY <2>1, <2>2, Zenon DEF Bit
<1> HIDE DEF b
<1>5. /\ Bit(m[FLOATS + 1]) = (b \div 1) % 2 /\ Bit(m[FLOATS + 2]) = (b \div 2) % 2
      /\ Bit(m[FLOATS + 3]) = (b \div 4) % 2 /\ Bit(m[FLOATS + 4]) = (b \div 8) % 2
  BY <1>4
<1>6. 8 * ((b \div 8) % 2) + 4 * ((b \div 4) % 2) + 2 * ((b \div 2) % 2) + ((b \div 1) % 2) = b
  BY <1>3, Z3
<1> QED BY <1>5, <1>6 DEF obtenerValorBotones, b

LEMMA PositionInit == Init => PositionInv
<1> SUFFICES ASSUME Init PROVE PositionInv
  OBVIOUS
<1>1. SIZE \in Nat \ {0} /\ MaxFrames * SIZE \in Nat
  BY SizeType
<1>2. 0 % SIZE = 0
  BY <1>1, NextMod, DivMod
<1>3. SIZE * 0 = 0
  BY <1>1
<1>4. /\ sent = << >> /\ pos = 0 /\ rx = << >> /\ p = << >>
      /\ lastChord = NULL /\ reboots = 0 /\ reads = 0
  BY DEF Init
<1>5. SentInv
  BY <1>1, <1>3, <1>4 DEF SentInv, Position
<1>6. LineInv
  BY <1>4, UartChordsAssumption DEF LineInv
<1>7. MessageInv
  BY <1>2, <1>4, UartChordsAssumption DEF MessageInv, NULL
<1> QED BY <1>5, <1>6, <1>7 DEF PositionInv

\* A byte arrives.
LEMMA ArriveStep ==
  ASSUME PositionInv, Arrive
  PROVE  PositionInv'
<1> DEFINE S == SIZE
           L == Len(sent)
           T == MaxFrames * SIZE
<1>1. /\ S \in Nat \ {0} /\ T \in Nat /\ L \in Nat
      /\ pos \in 0..T /\ pos <= S * L /\ S * L < pos + S
  BY SizeType, SentType DEF PositionInv, SentInv, Position
<1>2. pos < T /\ pos' = pos + 1
  BY DEF Arrive
<1>3. sent \in Seq(Botones)
  BY Zenon DEF PositionInv, SentInv
<1>4. PICK q \in Nat, r \in 0..(S - 1) : pos = S * q + r /\ pos % S = r
  <2>1. \E q \in Nat, r \in 0..(S - 1) : pos = S * q + r /\ pos % S = r /\ pos \div S = q
    <3>1. pos \in Nat
      BY <1>1
    <3> HIDE DEF S
    <3> QED BY <1>1, <3>1, Division
  <2> QED BY <2>1, Zenon
<1>5. sent' \in Seq(Botones) /\ pos' <= S * Len(sent') /\ S * Len(sent') < pos' + S
  <2>1. CASE pos % S = 0
    <3>1. PICK b \in Botones : sent' = Append(sent, b)
      BY <2>1 DEF Arrive
    <3>2. sent' \in Seq(Botones) /\ Len(sent') = L + 1
      BY <1>3, <3>1
    <3> HIDE DEF S, L, T
    <3>3. pos = S * q
      BY <1>1, <1>4, <2>1
    <3>4. S * (L + 1) = S * L + S
      BY <1>1, Z3
    <3>5. S * L = pos
      <4>1. q <= L /\ L < q + 1
        BY <1>1, <3>3, <3>4, Z3
      <4>2. q = L
        BY <1>1, <4>1
      <4> QED BY <3>3, <4>2
    <3> QED BY <1>1, <1>2, <3>2, <3>4, <3>5
  <2>2. CASE pos % S # 0
    <3>1. sent' = sent
      BY <2>2 DEF Arrive
    <3> HIDE DEF S, T
    <3>2. pos # S * L
      <4> SUFFICES ASSUME pos = S * L PROVE FALSE
        OBVIOUS
      <4>1. (S * L + 0) % S = 0
        <5>1. 0 \in 0..(S - 1) /\ L \in Int
          BY <1>1
        <5> HIDE DEF L
        <5> QED BY <1>1, <5>1, DivMod
      <4>2. S * L + 0 = pos
        BY <1>1
      <4> QED BY <2>2, <4>1, <4>2
    <3>3. S * L \in Int
      BY <1>1
    <3> QED BY <1>1, <1>2, <1>3, <3>1, <3>2, <3>3
  <2> QED BY <2>1, <2>2
<1>6. SentInv'
  <2>1. pos' \in 0..T
    BY <1>1, <1>2
  <2>2. SIZE' = SIZE /\ Position' = Position
    BY DEF SIZE, Position
  <2> QED BY <1>5, <2>1, <2>2 DEF SentInv, Position
<1>7. LineInv'
  <2>1. /\ rx \in Seq(Nat) /\ Len(rx) <= RXFIFO /\ RXFIFO \in Nat
        /\ \A i \in 1..Len(rx) : rx[i] < pos
        /\ reads \in Nat /\ reads + Len(rx) <= pos
    BY UartChordsAssumption DEF PositionInv, LineInv
  <2>2. reads' = reads /\ pos \in Nat
    BY <1>1 DEF Arrive, main
  <2>3. CASE Len(rx) < RXFIFO /\ rx' = Append(rx, pos)
    <3>1. /\ rx' \in Seq(Nat) /\ Len(rx') = Len(rx) + 1
          /\ \A i \in 1..Len(rx') : (i <= Len(rx) /\ rx'[i] = rx[i]) \/ rx'[i] = pos
      BY <2>1, <2>2, <2>3
    <3>2. \A i \in 1..Len(rx') : rx'[i] < pos'
      <4> TAKE i \in 1..Len(rx')
      <4>1. (i <= Len(rx) /\ rx'[i] = rx[i]) \/ rx'[i] = pos
        BY <3>1
      <4>2. i <= Len(rx) => rx[i] < pos /\ rx[i] \in Nat
        BY <2>1, <3>1
      <4> QED BY <1>2, <2>2, <4>1, <4>2
    <3> QED BY <1>2, <2>1, <2>2, <2>3, <3>1, <3>2 DEF LineInv
  <2>4. CASE rx' = rx
    <3>1. \A i \in 1..Len(rx) : rx[i] \in Nat
      BY <2>1
    <3>2. \A i \in 1..Len(rx) : rx[i] < pos'
      BY <1>2, <2>1, <2>2, <3>1
    <3>3. reads' + Len(rx) <= pos'
      <4>1. Len(rx) \in Nat
        BY <2>1
      <4> QED BY <1>2, <2>1, <2>2, <4>1
    <3> QED BY <2>1, <2>2, <2>4, <3>2, <3>3, Zenon DEF LineInv
  <2> QED BY <2>3, <2>4 DEF Arrive
<1>8. MessageInv'
  <2>1. UNCHANGED <<p, lastChord, reboots, reads>>
    BY DEF Arrive, main
  <2>2. /\ p \in Seq(Nat) /\ \A i \in 1..Len(p) : p[i] < pos
        /\ pos \in Nat
    BY <1>1 DEF PositionInv, MessageInv
  <2>3. \A i \in 1..Len(p) : p[i] < pos'
    BY <1>2, <2>2
  <2>4. SIZE' = SIZE
    BY DEF SIZE
  <2> QED BY <2>1, <2>2, <2>3, <2>4 DEF PositionInv, MessageInv
<1> QED BY <1>6, <1>7, <1>8 DEF PositionInv

\* main() reads a byte; a whole message is one in full, and idx begins anew.
LEMMA ReadStep ==
  ASSUME PositionInv, ReadByte
  PROVE  PositionInv'
<1>1. SIZE \in Nat \ {0}
  BY SizeType
<1>2. /\ rx \in Seq(Nat) /\ rx # << >>
      /\ \A i \in 1..Len(rx) : rx[i] < pos
      /\ reads \in Nat /\ reads + Len(rx) <= pos /\ Len(rx) <= RXFIFO
      /\ RXFIFO \in Nat /\ pos \in Nat
  BY SizeType, UartChordsAssumption DEF PositionInv, LineInv, SentInv, Position, ReadByte
<1>3. /\ p \in Seq(Nat) /\ Len(p) = reads % SIZE
      /\ \A i \in 1..Len(p) : p[i] < pos
      /\ lastChord \in 0..NULL /\ reboots \in 0..MaxReboots
  BY DEF PositionInv, MessageInv
<1>4. /\ rx' = Tail(rx) /\ reads' = reads + 1 /\ Collect(Head(rx))
      /\ UNCHANGED <<sent, pos, reboots>>
  BY DEF ReadByte, sender
<1>5. Head(rx) \in Nat /\ Head(rx) < pos
  BY <1>2
<1>6. SentInv'
  BY <1>4 DEF PositionInv, SentInv, SIZE, Position
<1>7. LineInv'
  <2>1. /\ rx' \in Seq(Nat) /\ Len(rx') = Len(rx) - 1
        /\ \A i \in 1..Len(rx') : rx'[i] = rx[i + 1]
    BY <1>2, <1>4
  <2>2. \A i \in 1..Len(rx') : rx'[i] < pos'
    BY <1>2, <1>4, <2>1
  <2> QED BY <1>2, <1>4, <2>1, <2>2 DEF LineInv
<1> DEFINE m == Append(p, Head(rx))
<1>8. /\ m \in Seq(Nat) /\ Len(m) = Len(p) + 1
      /\ \A i \in 1..Len(m) : m[i] < pos
  <2>1. /\ m \in Seq(Nat) /\ Len(m) = Len(p) + 1 /\ Len(p) \in Nat
        /\ \A i \in 1..Len(m) : (i \in 1..Len(p) /\ m[i] = p[i]) \/ m[i] = Head(rx)
    BY <1>3, <1>5
  <2> HIDE DEF m
  <2> QED BY <1>3, <1>5, <2>1
<1>9. MessageInv'
  <2> HIDE DEF m
  <2>0. /\ Len(p) \in 0..(SIZE - 1)
        /\ Len(p) + 1 < SIZE => reads' % SIZE = Len(p) + 1
        /\ Len(p) + 1 >= SIZE => reads' % SIZE = 0
    BY <1>1, <1>2, <1>3, <1>4, NextMod
  <2>1. CASE Len(p) + 1 < SIZE /\ p' = m /\ lastChord' = lastChord
    <3>1. Len(p') = reads' % SIZE
      BY <1>8, <2>0, <2>1
    <3>2. SIZE' = SIZE /\ NULL' = NULL
      BY DEF SIZE, NULL
    <3> QED BY <1>3, <1>4, <1>8, <2>1, <3>1, <3>2 DEF MessageInv
  <2>2. CASE Len(p) + 1 >= SIZE /\ p' = << >> /\ OnMessage(m)
    <3>1. Len(m) = SIZE
      BY <1>1, <1>8, <2>0, <2>2
    <3>2. obtenerValorBotones(m) \in 0..15
      <4>1. SentInv /\ \A i \in 1..SIZE : m[i] < pos
        BY <1>8, <3>1 DEF PositionInv
      <4> QED BY <1>8, <3>1, <4>1, Botones16, Zenon
    <3>3. lastChord' \in 0..NULL
      <4>1. lastChord' = obtenerValorBotones(m)
        BY <2>2 DEF OnMessage
      <4> QED BY <3>2, <4>1 DEF NULL
    <3>4. p' \in Seq(Nat) /\ Len(p') = 0
      BY <2>2
    <3>5. SIZE' = SIZE /\ NULL' = NULL
      BY DEF SIZE, NULL
    <3>6. Len(p') = reads' % SIZE
      BY <2>0, <2>2, <3>4
    <3>7. \A i \in 1..Len(p') : p'[i] < pos'
      BY <3>4
    <3>8. reboots' \in 0..MaxReboots
      BY <1>3, <1>4
    <3> QED BY <3>3, <3>4, <3>5, <3>6, <3>7, <3>8 DEF MessageInv
  <2> QED BY <1>4, <2>1, <2>2 DEF Collect, m
<1> QED BY <1>6, <1>7, <1>9 DEF PositionInv

LEMMA PositionStep == PositionInv /\ [Next]_vars => PositionInv'
<1> SUFFICES ASSUME PositionInv, [Next]_vars PROVE PositionInv'
  OBVIOUS
<1>1. CASE Arrive
  BY <1>1, ArriveStep
<1>2. CASE ReadByte
  BY <1>2, ReadStep
<1>3. CASE Reboot
  <2>1. /\ reboots' = reboots + 1 /\ reboots < MaxReboots
        /\ rx' = << >> /\ p' = << >> /\ lastChord' = NULL /\ reads' = 0
        /\ UNCHANGED <<sent, pos>>
    BY <1>3 DEF Reboot, sender
  <2>2. SentInv'
    BY <2>1 DEF PositionInv, SentInv, SIZE, Position
  <2>3. pos \in Nat /\ reboots \in Nat /\ MaxReboots \in Nat /\ SIZE \in Nat \ {0}
    BY SizeType, UartChordsAssumption DEF PositionInv, SentInv, MessageInv, Position
  <2>4. LineInv'
    BY <2>1, <2>3, UartChordsAssumption DEF LineInv
  <2>5. (SIZE * 0 + 0) % SIZE = 0
    BY <2>3, DivMod
  <2>6. reads' % SIZE = 0
    <3>1. SIZE * 0 + 0 = 0
      BY <2>3
    <3> QED BY <2>1, <2>5, <3>1
  <2>7. MessageInv'
    BY <2>1, <2>3, <2>6 DEF MessageInv, SIZE, NULL
  <2> QED BY <2>2, <2>4, <2>7 DEF PositionInv
<1>4. CASE Transmit \/ ChipStep \/ UNCHANGED vars
  <2>1. UNCHANGED <<sent, pos, rx, p, lastChord, reboots, reads>>
    BY <1>4 DEF Transmit, ChipStep, vars, sender, main
  <2> QED BY <2>1 DEF PositionInv, SentInv, LineInv, MessageInv, SIZE, Position, NULL
<1> QED BY <1>1, <1>2, <1>3, <1>4 DEF Next

---------------------------------------------------------------------------
(* The driver loads the plugin *)

N == Len(Patch)

Word == {SM_SDINEW, ENTRY} \cup {Patch[i] : i \in 1..N}

Transaction == [op : {"reset", "read", "sci", "sdi"}, val : Nat \cup Word]

\* Once the plugin is started, only data are sent.
Sdi == [op : {"sdi"}, val : Nat]

\* setup() has sent its first k transactions.
Starting(k) ==
  /\ Len(todo) = N + 6 - k
  /\ \A i \in 1..Len(todo) : todo[i] = setup[k + i]
  /\ \A i \in 1..Len(regs) : regs[i] = Loaded[i]
  /\ k <= 2 => Len(regs) = 0
  /\ k > 2 /\ k <= N + 4 => Len(regs) = k - 2
  /\ k > N + 4 => Len(regs) = N + 2

Playing == todo \in Seq(Sdi) /\ regs = Loaded

\* A reset leaves the chip as it was until the first transaction.
Booted == todo = setup /\ LoadedWhenStarted

DriverInv ==
  /\ todo \in Seq(Transaction) /\ regs \in Seq(Word)
  /\ Playing \/ Booted \/ \E k \in 1..(N + 6) : Starting(k)

LEMMA PatchType ==
  /\ N \in Nat /\ Patch \in Seq(Word)
  /\ \A i \in 1..N : Patch[i] \in Word /\ Patch[i] # ENTRY
<1> DEFINE S == {Patch[i] : i \in DOMAIN Patch} \ {ENTRY}
<1>1. Patch \in Seq(S)
  BY Vs1053Assumption, Zenon
<1>2. \A x \in S : x # ENTRY
  OBVIOUS
<1> HIDE DEF S
<1>3. Len(Patch) \in Nat /\ \A i \in 1..Len(Patch) : Patch[i] \in S
  BY <1>1
<1>4. \A i \in 1..N : Patch[i] \in Word /\ Patch[i] # ENTRY
  BY <1>2, <1>3 DEF Word, N
<1>5. Patch \in Seq(Word)
  BY <1>1, <1>4 DEF N
<1> QED BY <1>3, <1>4, <1>5 DEF N

\* The parts of a concatenation.
LEMMA Concat ==
  ASSUME NEW S, NEW s \in Seq(S), NEW t \in Seq(S)
  PROVE  /\ s \o t \in Seq(S) /\ Len(s \o t) = Len(s) + Len(t)
         /\ Len(s) \in Nat /\ Len(t) \in Nat
         /\ \A i \in 1..Len(s) : (s \o t)[i] = s[i]
         /\ \A i \in 1..Len(t) : (s \o t)[Len(s) + i] = t[i]
OBVIOUS

LEMMA LoadedWords ==
  /\ Loaded \in Seq(Word) /\ Len(Loaded) = N + 2
  /\ Loaded[N + 2] = ENTRY
  /\ \A i \in 1..(N + 1) : Loaded[i] # ENTRY
  /\ Loaded[1] = SM_SDINEW
  /\ \A i \in 1..N : Loaded[i + 1] = Patch[i]
<1> DEFINE A == <<SM_SDINEW>>
           Z == <<ENTRY>>
           B == A \o Patch
<1>1. Loaded = B \o Z
  BY DEF Loaded
<1>2. SM_SDINEW # ENTRY
  BY DEF SM_SDINEW, ENTRY
<1>3. SM_SDINEW \in Word /\ ENTRY \in Word
  BY DEF Word
<1>4. A \in Seq(Word) /\ Len(A) = 1 /\ A[1] = SM_SDINEW
  BY <1>3
<1>5. Z \in Seq(Word) /\ Len(Z) = 1 /\ Z[1] = ENTRY
  BY <1>3
<1> HIDE DEF A, Z
<1>6. /\ B \in Seq(Word) /\ Len(B) = N + 1 /\ B[1] = SM_SDINEW
      /\ \A i \in 1..N : B[i + 1] = Patch[i]
  <2>1. /\ B \in Seq(Word) /\ Len(B) = Len(A) + Len(Patch)
        /\ \A i \in 1..Len(A) : B[i] = A[i]
        /\ \A i \in 1..Len(Patch) : B[Len(A) + i] = Patch[i]
    BY <1>4, PatchType, Concat
  <2> HIDE DEF B
  <2> QED BY <1>4, <2>1, PatchType DEF N
<1> HIDE DEF B
<1>7. /\ Loaded \in Seq(Word) /\ Len(Loaded) = N + 2
      /\ Loaded[N + 2] = ENTRY
      /\ \A i \in 1..(N + 1) : Loaded[i] = B[i]
  <2>1. /\ B \o Z \in Seq(Word) /\ Len(B \o Z) = Len(B) + Len(Z)
        /\ \A i \in 1..Len(B) : (B \o Z)[i] = B[i]
        /\ \A i \in 1..Len(Z) : (B \o Z)[Len(B) + i] = Z[i]
    <3>1. B \in Seq(Word) /\ Z \in Seq(Word)
      BY <1>5, <1>6
    <3> QED BY <3>1, Concat
  <2> QED BY <1>1, <1>5, <1>6, <2>1, PatchType
<1>8. \A i \in 1..(N + 1) : Loaded[i] # ENTRY
  <2> TAKE i \in 1..(N + 1)
  <2>1. i = 1 \/ (i - 1 \in 1..N /\ i = (i - 1) + 1)
    BY PatchType
  <2>2. CASE i = 1
    BY <1>2, <1>6, <1>7, <2>2
  <2>3. CASE i - 1 \in 1..N /\ i = (i - 1) + 1
    <3>1. B[i] = Patch[i - 1]
      BY <1>6, <2>3
    <3> QED BY <1>7, <2>3, <3>1, PatchType
  <2> QED BY <2>1, <2>2, <2>3
<1>9. Loaded[1] = SM_SDINEW
  BY <1>6, <1>7, PatchType
<1>10. \A i \in 1..N : Loaded[i + 1] = Patch[i]
  BY <1>6, <1>7, PatchType
<1> QED BY <1>7, <1>8, <1>9, <1>10

\* The transactions of setup().
LEMMA SetupWords ==
  /\ setup \in Seq(Transaction) /\ Len(setup) = N + 6
  /\ setup[1].op = "reset" /\ setup[2].op = "read"
  /\ setup[3] = SciWrite(SM_SDINEW)
  /\ \A i \in 1..N : setup[i + 3] = SciWrite(Patch[i])
  /\ setup[N + 4] = SciWrite(ENTRY)
  /\ setup[N + 5].op = "sdi" /\ setup[N + 6].op = "sdi"
  /\ setup[N + 5].val = 192 /\ setup[N + 6].val = 1
<1> DEFINE A == hardResetVS
           B == softInitVS
           C == loadUserCodeFromTables
           D == startRTMIDI
           E == midiProgramChange(1)
<1>0. \A v \in Word : SciWrite(v) \in Transaction
  BY DEF SciWrite, Transaction
<1>1. SM_SDINEW \in Word /\ ENTRY \in Word
  BY DEF Word
<1>2. A \in Seq(Transaction) /\ Len(A) = 1 /\ A[1].op = "reset"
  BY DEF hardResetVS, Reset, Transaction
<1>3. /\ B \in Seq(Transaction) /\ Len(B) = 2 /\ B[1].op = "read"
      /\ B[2] = SciWrite(SM_SDINEW)
  <2>1. SciRead \in Transaction /\ SciRead.op = "read"
    BY DEF SciRead, Transaction
  <2>2. SciWrite(SM_SDINEW) \in Transaction
    BY <1>0, <1>1
  <2>3. B = <<SciRead, SciWrite(SM_SDINEW)>>
    BY DEF softInitVS
  <2> HIDE DEF B
  <2> QED BY <2>1, <2>2, <2>3
<1>4. /\ C \in Seq(Transaction) /\ Len(C) = N
      /\ \A i \in 1..N : C[i] = SciWrite(Patch[i])
  <2>1. \A i \in 1..N : SciWrite(Patch[i]) \in Transaction
    BY <1>0, PatchType
  <2>2. C = [i \in 1..N |-> SciWrite(Patch[i])]
    BY DEF loadUserCodeFromTables, N
  <2> HIDE DEF C
  <2> QED BY <2>1, <2>2, PatchType
<1>5. D \in Seq(Transaction) /\ Len(D) = 1 /\ D[1] = SciWrite(ENTRY)
  <2>1. SciWrite(ENTRY) \in Transaction
    BY <1>0, <1>1
  <2>2. D = <<SciWrite(ENTRY)>>
    BY DEF startRTMIDI
  <2> HIDE DEF D
  <2> QED BY <2>1, <2>2
<1>6. /\ E \in Seq(Transaction) /\ Len(E) = 2 /\ E[1].op = "sdi" /\ E[2].op = "sdi"
      /\ E[1].val = 192 /\ E[2].val = 1
  BY DEF midiProgramChange, sendMIDI, sdiWrite16, Transaction
<1> HIDE DEF A, B, C, D, E
<1> DEFINE P == A \o B
           Q == P \o C
           R == Q \o D
<1>7. /\ P \in Seq(Transaction) /\ Len(P) = 3 /\ P[1] = A[1] /\ P[2] = B[1] /\ P[3] = B[2]
  <2>1. /\ P \in Seq(Transaction) /\ Len(P) = Len(A) + Len(B)
        /\ \A i \in 1..Len(A) : P[i] = A[i]
        /\ \A i \in 1..Len(B) : P[Len(A) + i] = B[i]
    <3>1. A \in Seq(Transaction) /\ B \in Seq(Transaction)
      BY <1>2, <1>3
    <3> QED BY <3>1, Concat
  <2> HIDE DEF P
  <2>2. P[1 + 1] = B[1] /\ P[1 + 2] = B[2]
    BY <1>2, <1>3, <2>1
  <2> QED BY <1>2, <1>3, <2>1, <2>2
<1>8. setup = R \o E
  BY DEF setup, A, B, C, D, E
<1> HIDE DEF P
<1>9. /\ Q \in Seq(Transaction) /\ Len(Q) = N + 3 /\ \A i \in 1..3 : Q[i] = P[i]
      /\ \A i \in 1..N : Q[i + 3] = C[i]
  <2>1. /\ Q \in Seq(Transaction) /\ Len(Q) = Len(P) + Len(C)
        /\ \A i \in 1..Len(P) : Q[i] = P[i]
        /\ \A i \in 1..Len(C) : Q[Len(P) + i] = C[i]
    <3>1. P \in Seq(Transaction) /\ C \in Seq(Transaction)
      BY <1>4, <1>7
    <3> QED BY <3>1, Concat
  <2> HIDE DEF Q
  <2> QED BY <1>4, <1>7, <2>1, PatchType
<1> HIDE DEF Q
<1>10. /\ R \in Seq(Transaction) /\ Len(R) = N + 4
       /\ \A i \in 1..(N + 3) : R[i] = Q[i]
       /\ R[N + 4] = D[1]
  <2>1. /\ R \in Seq(Transaction) /\ Len(R) = Len(Q) + Len(D)
        /\ \A i \in 1..Len(Q) : R[i] = Q[i]
        /\ \A i \in 1..Len(D) : R[Len(Q) + i] = D[i]
    <3>1. Q \in Seq(Transaction) /\ D \in Seq(Transaction)
      BY <1>5, <1>9
    <3> QED BY <3>1, Concat
  <2> HIDE DEF R
  <2>2. R[(N + 3) + 1] = D[1]
    BY <1>5, <1>9, <2>1
  <2> QED BY <1>5, <1>9, <2>1, <2>2, PatchType
<1> HIDE DEF R
<1>11. /\ setup \in Seq(Transaction) /\ Len(setup) = N + 6
       /\ \A i \in 1..(N + 4) : setup[i] = R[i]
       /\ setup[N + 5] = E[1] /\ setup[N + 6] = E[2]
  <2>1. /\ setup \in Seq(Transaction) /\ Len(setup) = Len(R) + Len(E)
        /\ \A i \in 1..Len(R) : setup[i] = R[i]
        /\ \A i \in 1..Len(E) : setup[Len(R) + i] = E[i]
    <3>1. R \in Seq(Transaction) /\ E \in Seq(Transaction)
      BY <1>6, <1>10
    <3> QED BY <1>8, <3>1, Concat
  <2>2. setup[(N + 4) + 1] = E[1] /\ setup[(N + 4) + 2] = E[2]
    BY <1>6, <1>10, <2>1
  <2> QED BY <1>6, <1>10, <2>1, <2>2, PatchType
<1>12. \A i \in 1..3 : setup[i] = P[i]
  BY <1>9, <1>10, <1>11, PatchType
<1>13. \A i \in 1..N : setup[i + 3] = C[i]
  BY <1>9, <1>10, <1>11, PatchType
<1>14. setup[N + 4] = D[1]
  BY <1>10, <1>11, PatchType
<1>15. /\ setup[1].op = "reset" /\ setup[2].op = "read"
       /\ setup[3] = SciWrite(SM_SDINEW)
  <2>1. setup[1] = P[1] /\ setup[2] = P[2] /\ setup[3] = P[3]
    BY <1>12
  <2>2. /\ P[1].op = "reset" /\ P[2].op = "read"
        /\ P[3] = SciWrite(SM_SDINEW)
    BY <1>2, <1>3, <1>7, Zenon
  <2> QED BY <2>1, <2>2, Zenon
<1>16. \A i \in 1..N : setup[i + 3] = SciWrite(Patch[i])
  BY <1>4, <1>13, Zenon
<1>17. setup[N + 4] = SciWrite(ENTRY)
  BY <1>5, <1>14, Zenon
<1>18. /\ setup[N + 5].op = "sdi" /\ setup[N + 6].op = "sdi"
       /\ setup[N + 5].val = 192 /\ setup[N + 6].val = 1
  BY <1>6, <1>11, Zenon
<1> QED BY <1>11, <1>15, <1>16, <1>17, <1>18, Zenon

\* The MIDI messages of a chord are data.
LEMMA ChordWords ==
  ASSUME NEW c \in 0..NULL
  PROVE  playChord(c) \in Seq(Sdi) /\ stopChord(c) \in Seq(Sdi)
<1>1. ASSUME NEW b \in Nat, NEW n \in Nat, NEW v \in Nat
      PROVE  sendMIDI(<<b, n, v>>) \in Seq(Sdi)
  <2> DEFINE bytes == <<b, n, v>>
  <2>1. Len(bytes) = 3 /\ \A i \in 1..3 : bytes[i] \in Nat
    OBVIOUS
  <2> HIDE DEF bytes
  <2>2. \A i \in 1..3 : sdiWrite16(bytes[i]) \in Sdi
    BY <2>1 DEF sdiWrite16, Sdi
  <2>3. sendMIDI(bytes) = [i \in 1..3 |-> sdiWrite16(bytes[i])]
    BY <2>1 DEF sendMIDI
  <2>4. sendMIDI(bytes) \in Seq(Sdi)
    BY <2>2, <2>3
  <2> QED BY <2>4 DEF bytes
<1>2. ASSUME NEW s \in Seq(Sdi), NEW t \in Seq(Sdi), NEW u \in Seq(Sdi)
      PROVE  (s \o t) \o u \in Seq(Sdi)
  <2>1. s \o t \in Seq(Sdi)
    BY Concat
  <2> HIDE DEF Sdi
  <2> QED BY <2>1, Concat
<1>3. CASE ~HasChord(c)
  BY <1>3 DEF playChord, stopChord
<1>4. CASE HasChord(c)
  <2>1. c \in 2..15
    BY <1>4 DEF HasChord
  <2>2. c \div 2 \in 1..7 /\ c % 2 \in 0..1
    BY <2>1, Z3
  <2>3. Roots[c \div 2] \in Nat
    <3> DEFINE d == c \div 2
    <3> HIDE DEF d
    <3>1. d \in 1..7
      BY <2>2 DEF d
    <3>2. Roots[d] \in Nat
      BY <3>1 DEF Roots
    <3> QED BY <3>2 DEF d
  <2> DEFINE t == buildTriad(c)
  <2>4. t[1] \in Nat /\ t[2] \in Nat /\ t[3] \in Nat
    BY <2>2, <2>3 DEF buildTriad
  <2> HIDE DEF t
  <2>5. playChord(c) = (midiNoteOn(t[1], 100) \o midiNoteOn(t[2], 100)) \o midiNoteOn(t[3], 100)
    BY <1>4 DEF playChord, t
  <2>6. stopChord(c) = (midiNoteOff(t[1], 64) \o midiNoteOff(t[2], 64)) \o midiNoteOff(t[3], 64)
    BY <1>4 DEF stopChord, t
  <2>7. \A n \in Nat : midiNoteOn(n, 100) \in Seq(Sdi) /\ midiNoteOff(n, 64) \in Seq(Sdi)
    BY <1>1 DEF midiNoteOn, midiNoteOff
  <2> HIDE DEF Sdi
  <2>8. playChord(c) \in Seq(Sdi)
    <3>1. /\ midiNoteOn(t[1], 100) \in Seq(Sdi) /\ midiNoteOn(t[2], 100) \in Seq(Sdi)
          /\ midiNoteOn(t[3], 100) \in Seq(Sdi)
      BY <2>4, <2>7
    <3>2. (midiNoteOn(t[1], 100) \o midiNoteOn(t[2], 100)) \o midiNoteOn(t[3], 100) \in Seq(Sdi)
      BY <1>2, <3>1
    <3> QED BY <2>5, <3>2
  <2>9. stopChord(c) \in Seq(Sdi)
    <3>1. /\ midiNoteOff(t[1], 64) \in Seq(Sdi) /\ midiNoteOff(t[2], 64) \in Seq(Sdi)
          /\ midiNoteOff(t[3], 64) \in Seq(Sdi)
      BY <2>4, <2>7
    <3>2. (midiNoteOff(t[1], 64) \o midiNoteOff(t[2], 64)) \o midiNoteOff(t[3], 64) \in Seq(Sdi)
      BY <1>2, <3>1
    <3> QED BY <2>6, <3>2
  <2> QED BY <2>8, <2>9
<1> QED BY <1>3, <1>4

\* The plugin is running only when it is loaded whole.
LEMMA StartedWhole ==
  ASSUME regs \in Seq(Word), NEW k \in 1..(N + 6), Starting(k)
  PROVE  /\ Running => regs = Loaded
         /\ k > N + 4 => regs = Loaded
<1>1. /\ N \in Nat /\ Len(regs) \in Nat
      /\ \A i \in 1..Len(regs) : regs[i] = Loaded[i]
      /\ Len(regs) \in 0..(N + 2)
      /\ k > N + 4 => Len(regs) = N + 2
  BY PatchType DEF Starting
<1>2. Len(regs) = N + 2 => regs = Loaded
  <2> SUFFICES ASSUME Len(regs) = N + 2 PROVE regs = Loaded
    OBVIOUS
  <2>1. Loaded \in Seq(Word) /\ Len(Loaded) = Len(regs)
    BY LoadedWords
  <2> HIDE DEF Loaded
  <2> QED BY <1>1, <2>1
<1>3. Running => Len(regs) = N + 2
  <2> SUFFICES ASSUME Running PROVE Len(regs) = N + 2
    OBVIOUS
  <2>1. Len(regs) > 0 /\ regs[Len(regs)] = ENTRY
    BY <1>1 DEF Running
  <2>2. Loaded[Len(regs)] = ENTRY
    BY <1>1, <2>1
  <2> QED BY <1>1, <2>1, <2>2, LoadedWords
<1> QED BY <1>1, <1>2, <1>3

LEMMA DriverInit == Init => DriverInv
<1> SUFFICES ASSUME Init PROVE DriverInv
  OBVIOUS
<1>1. todo = setup /\ regs = << >>
  BY DEF Init, ChipInit
<1>2. ~Running
  BY <1>1 DEF Running
<1> QED BY <1>1, <1>2, SetupWords DEF DriverInv, Booted, LoadedWhenStarted

\* The driver sends a transaction.
LEMMA TransmitStep ==
  ASSUME DriverInv, Transmit
  PROVE  DriverInv'
<1>1. /\ todo \in Seq(Transaction) /\ todo # << >> /\ todo' = Tail(todo)
      /\ regs \in Seq(Word)
  BY DEF DriverInv, Transmit, Transact
<1>2. /\ todo' \in Seq(Transaction) /\ Len(todo) \in Nat /\ Len(todo) > 0
      /\ Len(todo') = Len(todo) - 1
      /\ Head(todo) = todo[1]
      /\ \A i \in 1..Len(todo') : todo'[i] = todo[i + 1]
  <2> HIDE DEF Transaction
  <2> QED BY <1>1
<1>3. /\ Head(todo).op = "reset" => regs' = << >>
      /\ Head(todo).op = "read" => regs' = regs
      /\ Head(todo).op = "sdi" => regs' = regs
      /\ Head(todo).op = "sci" => regs' = Append(regs, Head(todo).val)
  <2>1. ResetChip \/ Command \/ Data
    BY DEF Transmit, Transact
  <2>2. CASE ResetChip
    BY <2>2 DEF ResetChip
  <2>3. CASE Data
    BY <2>3 DEF Data
  <2>4. CASE Command
    BY <2>4 DEF Command, waitDREQ, DREQ
  <2> QED BY <2>1, <2>2, <2>3, <2>4
<1>4. /\ Len(setup)' = Len(setup) /\ setup' = setup /\ Loaded' = Loaded /\ N' = N
      /\ Word' = Word /\ Transaction' = Transaction /\ Sdi' = Sdi
  BY DEF setup, hardResetVS, softInitVS, loadUserCodeFromTables, startRTMIDI,
         midiProgramChange, sendMIDI, Reset, SciRead, SciWrite, sdiWrite16,
         Loaded, N, Word, Transaction, Sdi
<1>5. CASE Playing
  <2>1. Head(todo).op = "sdi" /\ todo' \in Seq(Sdi)
    <3>1. Head(todo) \in Sdi /\ todo' \in Seq(Sdi)
      <4>1. todo \in Seq(Sdi)
        BY <1>5 DEF Playing
      <4> HIDE DEF Sdi
      <4> QED BY <1>1, <4>1
    <3> QED BY <3>1 DEF Sdi
  <2> QED BY <1>1, <1>2, <1>3, <1>4, <1>5, <2>1 DEF Playing, DriverInv
<1>6. CASE Booted
  <2>1. todo = setup
    BY <1>6 DEF Booted
  <2>2. regs' = << >>
    BY <1>2, <1>3, <2>1, SetupWords
  <2>3. Starting(1)'
    <3>1. Len(todo') = N + 6 - 1
      <4>1. Len(todo) = N + 6
        BY <2>1, SetupWords
      <4> QED BY <1>2, <4>1, PatchType
    <3>2. \A i \in 1..Len(todo') : todo'[i] = setup[1 + i]
      BY <1>2, <2>1
    <3> QED BY <1>4, <2>2, <3>1, <3>2, PatchType DEF Starting
  <2>4. regs' \in Seq(Word) /\ 1 \in 1..(N + 6)
    BY <2>2, PatchType
  <2> QED BY <1>2, <1>4, <2>3, <2>4 DEF DriverInv
<1>7. ASSUME NEW k \in 1..(N + 6), Starting(k)
      PROVE  DriverInv'
  <2>1. /\ N \in Nat /\ k \in Nat /\ k >= 1
        /\ Len(todo) = N + 6 - k
        /\ \A i \in 1..Len(todo) : todo[i] = setup[k + i]
        /\ \A i \in 1..Len(regs) : regs[i] = Loaded[i]
        /\ k <= 2 => Len(regs) = 0
        /\ k > 2 /\ k <= N + 4 => Len(regs) = k - 2
        /\ k > N + 4 => Len(regs) = N + 2
    BY <1>7, PatchType DEF Starting
  <2>2. k < N + 6 /\ Head(todo) = setup[k + 1]
    BY <1>2, <2>1
  <2>3. /\ Len(todo') = N + 6 - (k + 1)
        /\ \A i \in 1..Len(todo') : todo'[i] = setup[(k + 1) + i]
    <3>1. Len(todo') = N + 6 - (k + 1)
      BY <1>2, <2>1
    <3>2. ASSUME NEW i \in 1..Len(todo')
          PROVE  todo'[i] = setup[(k + 1) + i]
      <4>1. i + 1 \in 1..Len(todo) /\ k + (i + 1) = (k + 1) + i
        BY <1>2, <2>1, <3>1
      <4>2. todo'[i] = todo[i + 1] /\ todo[i + 1] = setup[k + (i + 1)]
        BY <1>2, <2>1, <3>2, <4>1
      <4> QED BY <4>1, <4>2
    <3> QED BY <3>1, <3>2
  <2>4. /\ regs' \in Seq(Word)
        /\ \A i \in 1..Len(regs') : regs'[i] = Loaded[i]
        /\ k + 1 <= 2 => Len(regs') = 0
        /\ k + 1 > 2 /\ k + 1 <= N + 4 => Len(regs') = k + 1 - 2
        /\ k + 1 > N + 4 => Len(regs') = N + 2
    <3>1. CASE k = 1 \/ k > N + 3
      <4>1. regs' = regs
        <5>1. CASE k = 1
          BY <1>3, <2>2, <5>1, SetupWords
        <5>2. CASE k > N + 3
          <6>1. k + 1 = N + 5 \/ k + 1 = N + 6
            BY <2>1, <2>2, <5>2
          <6>2. Head(todo).op = "sdi"
            BY <2>2, <6>1, SetupWords
          <6> QED BY <1>3, <6>2
        <5> QED BY <3>1, <5>1, <5>2
      <4>2. regs' \in Seq(Word) /\ \A i \in 1..Len(regs') : regs'[i] = Loaded[i]
        BY <1>1, <2>1, <4>1
      <4>3. Len(regs') = Len(regs)
        BY <4>1
      <4> QED BY <2>1, <3>1, <4>2, <4>3
    <3>2. CASE k > 1 /\ k <= N + 3
      <4> DEFINE w == Loaded[k - 1]
      <4>1. Head(todo) = SciWrite(w) /\ w \in Word
        <5>1. CASE k = 2
          <6>1. w = SM_SDINEW /\ Head(todo) = SciWrite(SM_SDINEW)
            BY <2>2, <5>1, SetupWords, LoadedWords
          <6> QED BY <6>1 DEF Word
        <5>2. CASE k = N + 3 /\ k # 2
          <6>1. w = ENTRY
            BY <2>1, <5>2, LoadedWords
          <6>2. Head(todo) = SciWrite(ENTRY)
            BY <2>1, <2>2, <5>2, SetupWords
          <6> QED BY <6>1, <6>2 DEF Word
        <5>3. CASE k > 2 /\ k < N + 3
          <6>1. k - 2 \in 1..N /\ k - 1 = (k - 2) + 1 /\ k + 1 = (k - 2) + 3
            BY <2>1, <5>3
          <6>2. w = Patch[k - 2]
            BY <6>1, LoadedWords
          <6>3. Head(todo) = SciWrite(Patch[k - 2])
            BY <2>2, <6>1, SetupWords
          <6> QED BY <6>1, <6>2, <6>3, PatchType
        <5> QED BY <2>1, <3>2, <5>1, <5>2, <5>3
      <4>2. Head(todo).op = "sci" /\ Head(todo).val = w
        BY <4>1 DEF SciWrite
      <4>3. regs' = Append(regs, w)
        BY <1>3, <4>2
      <4>4. Len(regs) = k - 2
        BY <2>1, <3>2
      <4> HIDE DEF w
      <4>5. /\ regs' \in Seq(Word) /\ Len(regs') = k - 1
            /\ \A i \in 1..(k - 2) : regs'[i] = regs[i]
            /\ regs'[k - 1] = w
        BY <1>1, <4>1, <4>3, <4>4
      <4>6. \A i \in 1..Len(regs') : regs'[i] = Loaded[i]
        <5> TAKE i \in 1..Len(regs')
        <5>1. i \in 1..(k - 2) \/ i = k - 1
          BY <2>1, <4>5
        <5> QED BY <2>1, <4>4, <4>5, <5>1 DEF w
      <4> QED BY <2>1, <3>2, <4>5, <4>6
    <3> QED BY <2>1, <3>1, <3>2
  <2>5. k + 1 \in 1..(N + 6)
    BY <2>1, <2>2
  <2>6. Starting(k + 1)'
    BY <1>4, <2>3, <2>4 DEF Starting
  <2> QED BY <1>2, <1>4, <2>4, <2>5, <2>6 DEF DriverInv
<1> QED BY <1>5, <1>6, <1>7 DEF DriverInv

\* Nothing is left to send: the plugin is loaded.
LEMMA IdleIsLoaded ==
  ASSUME DriverInv, todo = << >>
  PROVE  regs = Loaded
<1>1. CASE Playing
  BY <1>1 DEF Playing
<1>2. ~Booted
  <2>1. setup # << >>
    <3>1. Len(setup) = N + 6 /\ N \in Nat
      BY SetupWords, PatchType
    <3> HIDE DEF setup
    <3> QED BY <3>1
  <2> QED BY <2>1 DEF Booted
<1>3. ASSUME NEW k \in 1..(N + 6), Starting(k)
      PROVE  regs = Loaded
  <2>1. 0 = N + 6 - k /\ N \in Nat
    BY <1>3, PatchType DEF Starting
  <2>2. k > N + 4
    BY <2>1
  <2> QED BY <1>3, <2>2, StartedWhole DEF DriverInv
<1> QED BY <1>1, <1>2, <1>3 DEF DriverInv

LEMMA DriverLoads ==
  ASSUME DriverInv
  PROVE  LoadedWhenStarted
<1>1. ASSUME NEW k \in 1..(N + 6), Starting(k) PROVE LoadedWhenStarted
  BY <1>1, StartedWhole DEF DriverInv, LoadedWhenStarted
<1>2. Playing \/ Booted => LoadedWhenStarted
  BY DEF Playing, Booted, LoadedWhenStarted
<1> QED BY <1>1, <1>2 DEF DriverInv

LEMMA SdiTransactions == Seq(Sdi) \subseteq Seq(Transaction)
<1>1. Sdi \subseteq Transaction
  BY DEF Sdi, Transaction
<1> HIDE DEF Sdi, Transaction
<1> QED BY <1>1

\* The chip is left alone, or the registers are.
LEMMA QuietStep ==
  ASSUME DriverInv, UNCHANGED <<todo, regs>>
  PROVE  DriverInv'
BY DEF DriverInv, Playing, Booted, Starting, LoadedWhenStarted, Running, setup,
       hardResetVS, softInitVS, loadUserCodeFromTables, startRTMIDI,
       midiProgramChange, sendMIDI, Reset, SciRead, SciWrite, sdiWrite16,
       Loaded, N, Word, Transaction, Sdi

LEMMA DriverStep == DriverInv /\ PositionInv /\ [Next]_vars => DriverInv'
<1> SUFFICES ASSUME DriverInv, PositionInv, [Next]_vars PROVE DriverInv'
  OBVIOUS
<1>0. /\ setup' = setup /\ Loaded' = Loaded /\ N' = N
      /\ Word' = Word /\ Transaction' = Transaction /\ Sdi' = Sdi
  BY DEF setup, hardResetVS, softInitVS, loadUserCodeFromTables, startRTMIDI,
         midiProgramChange, sendMIDI, Reset, SciRead, SciWrite, sdiWrite16,
         Loaded, N, Word, Transaction, Sdi
<1>1. CASE Transmit
  BY <1>1, TransmitStep
<1>2. CASE Arrive \/ ChipStep \/ UNCHANGED vars
  <2>1. UNCHANGED <<todo, regs>>
    BY <1>2 DEF Arrive, ChipStep, Chip, Ready, Play, vars, chip
  <2> QED BY <2>1, QuietStep
<1>3. CASE Reboot
  <2>1. todo' = setup /\ regs' = regs
    BY <1>3 DEF Reboot, chip
  <2>2. LoadedWhenStarted
    BY DriverLoads
  <2>3. LoadedWhenStarted'
    BY <1>0, <2>1, <2>2 DEF LoadedWhenStarted, Running, ENTRY
  <2>4. todo' \in Seq(Transaction) /\ regs' \in Seq(Word)
    BY <2>1, SetupWords DEF DriverInv
  <2> QED BY <1>0, <2>1, <2>3, <2>4 DEF DriverInv, Booted
<1>4. CASE ReadByte
  <2>1. todo = << >> /\ regs' = regs /\ regs = Loaded
    BY <1>4, IdleIsLoaded DEF ReadByte, chip
  <2>2. todo' \in Seq(Sdi)
    <3>1. CASE todo' = todo
      BY <2>1, <3>1
    <3>2. CASE OnMessage(Append(p, Head(rx)))
      <4> DEFINE m == Append(p, Head(rx))
                 c == obtenerValorBotones(m)
      <4>1. lastChord' = c /\ (todo' = stopChord(lastChord) \o playChord(c) \/ todo' = << >>)
        BY <3>2 DEF OnMessage, changeChord
      <4>2. PositionInv'
        BY PositionStep
      <4>3. c \in 0..NULL /\ lastChord \in 0..NULL
        BY <4>1, <4>2 DEF PositionInv, MessageInv, NULL
      <4> HIDE DEF c
      <4>4. playChord(c) \in Seq(Sdi) /\ stopChord(lastChord) \in Seq(Sdi)
        BY <4>3, ChordWords
      <4>5. stopChord(lastChord) \o playChord(c) \in Seq(Sdi)
        BY <4>4, Concat
      <4>6. << >> \in Seq(Sdi)
        OBVIOUS
      <4> QED BY <4>1, <4>5, <4>6, Zenon
    <3> QED BY <1>4, <3>1, <3>2 DEF ReadByte, Collect
  <2>3. todo' \in Seq(Transaction) /\ regs' \in Seq(Word)
    BY <2>1, <2>2, SdiTransactions DEF DriverInv
  <2> QED BY <1>0, <2>1, <2>2, <2>3 DEF DriverInv, Playing
<1> QED BY <1>1, <1>2, <1>3, <1>4 DEF Next

---------------------------------------------------------------------------
(* The whole state *)

\* The chip holds what fits.
FifoInv == fifo \in Seq(Nat \cup Word) /\ Len(fifo) <= SDIFIFO

LEMMA FifoInit == Init => FifoInv
<1> DEFINE V == Nat \cup Word
<1>1. SDIFIFO \in Nat
  BY Vs1053Assumption
<1>2. << >> \in Seq(V) /\ Len(<< >>) = 0
  OBVIOUS
<1> HIDE DEF V
<1>3. Init => fifo = << >>
  BY DEF Init, ChipInit
<1>4. Init => fifo \in Seq(V) /\ Len(fifo) <= SDIFIFO
  BY <1>1, <1>2, <1>3
<1> QED BY <1>4 DEF FifoInv, V

LEMMA FifoStep == DriverInv /\ FifoInv /\ [Next]_vars => FifoInv'
<1> SUFFICES ASSUME DriverInv, FifoInv, [Next]_vars PROVE FifoInv'
  OBVIOUS
<1> DEFINE V == Nat \cup Word
<1>1. V' = V /\ SDIFIFO \in Nat
  BY Vs1053Assumption DEF Word, N
<1>2. fifo \in Seq(V) /\ Len(fifo) <= SDIFIFO
  BY DEF FifoInv
<1>3. todo # << >> => Head(todo).val \in V
  <2>1. todo \in Seq(Transaction)
    BY Zenon DEF DriverInv
  <2> HIDE DEF DriverInv, FifoInv
  <2>2. todo # << >> => Head(todo) \in Transaction
    <3> HIDE DEF Transaction
    <3> QED BY <2>1
  <2>3. \A tr \in Transaction : tr.val \in V
    BY DEF Transaction
  <2> QED BY <2>2, <2>3
<1> HIDE DEF V
<1>4. fifo' \in Seq(V) /\ Len(fifo') <= SDIFIFO
  <2>1. CASE fifo' = fifo
    BY <1>2, <2>1
  <2>2. CASE fifo' = << >>
    BY <1>1, <2>2
  <2>3. CASE fifo # << >> /\ fifo' = Tail(fifo)
    <3>1. Len(Tail(fifo)) = Len(fifo) - 1 /\ Tail(fifo) \in Seq(V) /\ Len(fifo) \in Nat
      BY <1>2, <2>3
    <3> QED BY <1>1, <1>2, <2>3, <3>1
  <2>4. CASE /\ todo # << >> /\ Len(fifo) < SDIFIFO
             /\ fifo' = Append(fifo, Head(todo).val)
    <3> DEFINE v == Head(todo).val
    <3>1. v \in V /\ fifo' = Append(fifo, v)
      BY <1>3, <2>4
    <3> HIDE DEF v
    <3>2. Append(fifo, v) \in Seq(V) /\ Len(Append(fifo, v)) = Len(fifo) + 1 /\ Len(fifo) \in Nat
      BY <1>2, <3>1
    <3> QED BY <1>1, <2>4, <3>1, <3>2
  <2>5. CASE Transmit
    BY <2>1, <2>2, <2>4, <2>5 DEF Transmit, Transact, ResetChip, Command, Data
  <2>6. CASE ChipStep
    BY <2>1, <2>3, <2>6 DEF ChipStep, Chip, Ready, Play
  <2>7. CASE Arrive \/ ReadByte \/ Reboot \/ UNCHANGED vars
    BY <2>1, <2>7 DEF Arrive, ReadByte, Reboot, vars, chip
  <2> QED BY <2>5, <2>6, <2>7 DEF Next
<1> QED BY <1>1, <1>4 DEF FifoInv, V

LEMMA PositionsTyped ==
  ASSUME PositionInv, FifoInv
  PROVE  TypeOK
<1>1. /\ sent \in Seq(Botones) /\ pos \in Position
      /\ rx \in Seq(Nat) /\ Len(rx) <= RXFIFO /\ \A i \in 1..Len(rx) : rx[i] < pos
      /\ reads \in Nat /\ reads + Len(rx) <= pos
      /\ p \in Seq(Nat) /\ Len(p) = reads % SIZE /\ \A i \in 1..Len(p) : p[i] < pos
      /\ lastChord \in 0..NULL /\ reboots \in 0..MaxReboots
  BY Zenon DEF PositionInv, SentInv, LineInv, MessageInv
<1>2. MaxFrames * SIZE \in Nat /\ SIZE \in Nat \ {0}
  BY SizeType
<1> DEFINE M == MaxFrames * SIZE
<1>3. Position = 0..M /\ M \in Nat
  BY <1>2 DEF Position
<1> HIDE DEF M
<1>4. \A s \in Seq(Nat) : (\A i \in 1..Len(s) : s[i] < pos) => s \in Seq(Position)
  <2> SUFFICES ASSUME NEW s \in Seq(Nat), \A i \in 1..Len(s) : s[i] < pos
               PROVE  s \in Seq(Position)
    OBVIOUS
  <2>1. \A i \in 1..Len(s) : s[i] \in 0..M
    BY <1>1, <1>3
  <2>2. s \in Seq(0..M)
    <3> DEFINE T == 0..M
    <3>1. /\ Len(s) \in Nat /\ \A i \in 1..Len(s) : s[i] \in T
          /\ s = [i \in 1..Len(s) |-> s[i]]
      BY <2>1
    <3> HIDE DEF T
    <3>2. s \in [1..Len(s) -> T]
      BY <3>1
    <3>3. s \in Seq(T)
      BY <3>1, <3>2
    <3> QED BY <3>3 DEF T
  <2> QED BY <1>3, <2>2
<1>5. rx \in Seq(Position) /\ p \in Seq(Position)
  BY <1>1, <1>4
<1>6. reads \in Position
  <2>1. Len(rx) \in Nat
    BY <1>1
  <2> QED BY <1>1, <1>3, <2>1
<1>7. Len(p) < SIZE
  <2>1. reads % SIZE < SIZE
    <3>1. \E r \in 0..(SIZE - 1) : reads % SIZE = r
      BY <1>1, <1>2, Division
    <3> QED BY <1>2, <3>1
  <2> QED BY <1>1, <2>1
<1> QED BY <1>1, <1>5, <1>6, <1>7 DEF TypeOK, FifoInv

---------------------------------------------------------------------------
(* What the data on their way make the chip play *)

\* The keys after a whole MIDI message m.
KeysAfter(ks, m) ==
  IF m[1] = 144 THEN ks \cup {m[2]}
  ELSE IF m[1] = 128 THEN ks \ {m[2]} ELSE ks

\* The plugin, in state s, takes byte b.
Takes(s, b) ==
  LET m == IF b >= 128 THEN <<b>> ELSE Append(s.midi, b)
      whole == Len(m) = (IF m[1] = 192 THEN 2 ELSE 3)
  IN  [midi |-> IF whole THEN << >> ELSE m,
       keys |-> IF whole THEN KeysAfter(s.keys, m) ELSE s.keys]

\* The bytes of data take the plugin from state s to state t: h holds the
\* states between them.
Course(h, s, data, t) ==
  /\ h[0] = s /\ h[Len(data)] = t
  /\ \A i \in 1..Len(data) : h[i] = Takes(h[i - 1], data[i])

Leads(s, data, t) == \E h : Course(h, s, data, t)

Between(ks) == [midi |-> << >>, keys |-> ks]

\* The bytes of a sequence of data transactions.
Bytes(ts) == [i \in 1..Len(ts) |-> ts[i].val]

LEMMA LeadsNowhere == ASSUME NEW s PROVE Leads(s, << >>, s)
<1> DEFINE h == [i \in {0} |-> s]
<1>1. Course(h, s, << >>, s)
  BY DEF Course
<1> QED BY <1>1, Zenon DEF Leads

LEMMA LeadsHere == ASSUME NEW s, NEW t, Leads(s, << >>, t) PROVE s = t
BY DEF Leads, Course

\* One byte less is to come.
LEMMA LeadsOn ==
  ASSUME NEW S, NEW data \in Seq(S), data # << >>, NEW s, NEW t, Leads(s, data, t)
  PROVE  Leads(Takes(s, Head(data)), Tail(data), t)
<1>1. PICK h : Course(h, s, data, t)
  BY DEF Leads
<1>2. /\ Len(data) \in Nat /\ Len(data) >= 1 /\ Len(Tail(data)) = Len(data) - 1
      /\ Head(data) = data[1]
      /\ \A i \in 1..Len(Tail(data)) : Tail(data)[i] = data[i + 1]
  OBVIOUS
<1> DEFINE n == Len(Tail(data))
           g == [i \in 0..n |-> h[i + 1]]
<1>3. n \in Nat /\ n + 1 = Len(data)
  BY <1>2
<1>4. g[0] = Takes(s, Head(data))
  <2>1. h[1] = Takes(h[1 - 1], data[1]) /\ h[0] = s
    BY <1>1, <1>2 DEF Course
  <2> QED BY <1>2, <1>3, <2>1
<1>5. g[n] = t
  BY <1>1, <1>3 DEF Course
<1>6. ASSUME NEW i \in 1..n PROVE g[i] = Takes(g[i - 1], Tail(data)[i])
  <2>1. i + 1 \in 1..Len(data) /\ (i + 1) - 1 = i /\ (i - 1) + 1 = i /\ i - 1 \in 0..n /\ i \in 0..n
    BY <1>3
  <2>2. h[i + 1] = Takes(h[i], data[i + 1])
    BY <1>1, <2>1 DEF Course
  <2> HIDE DEF n
  <2>3. g[i] = h[i + 1] /\ g[i - 1] = h[i]
    BY <2>1
  <2>4. Tail(data)[i] = data[i + 1]
    BY <1>2, <1>6 DEF n
  <2> QED BY <2>2, <2>3, <2>4
<1>7. Course(g, Takes(s, Head(data)), Tail(data), t)
  BY <1>4, <1>5, <1>6 DEF Course
<1> QED BY <1>7, Zenon DEF Leads

LEMMA LeadsFurther ==
  ASSUME NEW S, NEW d \in Seq(S), NEW e \in Seq(S), NEW s, NEW t, NEW u,
         Leads(s, d, t), Leads(t, e, u)
  PROVE  Leads(s, d \o e, u)
<1>1. PICK h : Course(h, s, d, t)
  BY DEF Leads
<1>2. PICK k : Course(k, t, e, u)
  BY DEF Leads
<1> DEFINE n == Len(d)
           m == Len(e)
           g == [i \in 0..(n + m) |-> IF i <= n THEN h[i] ELSE k[i - n]]
<1>3. /\ n \in Nat /\ m \in Nat /\ Len(d \o e) = n + m
      /\ \A i \in 1..n : (d \o e)[i] = d[i]
      /\ \A i \in 1..m : (d \o e)[n + i] = e[i]
  BY Concat
<1>4. /\ h[0] = s /\ h[n] = t /\ k[0] = t /\ k[m] = u
      /\ \A i \in 1..n : h[i] = Takes(h[i - 1], d[i])
      /\ \A i \in 1..m : k[i] = Takes(k[i - 1], e[i])
  BY <1>1, <1>2 DEF Course
<1> HIDE DEF n, m
<1>5. g[0] = s
  BY <1>3, <1>4
<1>6. g[n + m] = u
  <2>1. CASE m = 0
    BY <1>3, <1>4, <2>1
  <2>2. CASE m > 0
    <3>1. n + m \in 0..(n + m) /\ ~(n + m <= n) /\ (n + m) - n = m
      BY <1>3, <2>2
    <3> QED BY <1>4, <3>1
  <2> QED BY <1>3, <2>1, <2>2
<1>7. ASSUME NEW i \in 1..(n + m) PROVE g[i] = Takes(g[i - 1], (d \o e)[i])
  <2>1. CASE i \in 1..n
    <3>1. i \in 0..(n + m) /\ i - 1 \in 0..(n + m) /\ i <= n /\ i - 1 <= n
      BY <1>3, <2>1
    <3>2. g[i] = h[i] /\ g[i - 1] = h[i - 1]
      BY <3>1
    <3>3. (d \o e)[i] = d[i] /\ h[i] = Takes(h[i - 1], d[i])
      BY <1>3, <1>4, <2>1
    <3> QED BY <3>2, <3>3
  <2>2. CASE i \notin 1..n
    <3> DEFINE j == i - n
    <3>1. /\ j \in 1..m /\ n + j = i /\ i \in 0..(n + m) /\ i - 1 \in 0..(n + m)
          /\ ~(i <= n)
      BY <1>3, <2>2
    <3>2. g[i] = k[j]
      BY <3>1
    <3>3. g[i - 1] = k[j - 1]
      <4>1. CASE j = 1
        <5>1. i - 1 = n /\ j - 1 = 0
          BY <1>3, <3>1, <4>1
        <5> QED BY <1>3, <1>4, <3>1, <5>1
      <4>2. CASE j # 1
        <5>1. ~(i - 1 <= n) /\ (i - 1) - n = j - 1
          BY <1>3, <3>1, <4>2
        <5> QED BY <3>1, <5>1
      <4> QED BY <4>1, <4>2
    <3> HIDE DEF j, g
    <3>4. (d \o e)[i] = e[j] /\ k[j] = Takes(k[j - 1], e[j])
      BY <1>3, <1>4, <3>1
    <3> QED BY <3>2, <3>3, <3>4
  <2> QED BY <2>1, <2>2
<1> HIDE DEF g
<1>8. Course(g, s, d \o e, u)
  BY <1>3, <1>5, <1>6, <1>7 DEF Course
<1> QED BY <1>8, Zenon DEF Leads

\* A sequence with one more element.
LEMMA AppendTo ==
  ASSUME NEW S, NEW s \in Seq(S), NEW e \in S, NEW t \in Seq(S),
         Len(t) = Len(s) + 1, t[Len(t)] = e, \A i \in 1..Len(s) : t[i] = s[i]
  PROVE  Append(s, e) = t
OBVIOUS

LEMMA AppendTuples ==
  ASSUME NEW b, NEW n, NEW v
  PROVE  Append(<<b>>, n) = <<b, n>> /\ Append(<<b, n>>, v) = <<b, n, v>>
<1> DEFINE S == {b, n, v}
<1>0. b \in S /\ n \in S /\ v \in S
  OBVIOUS
<1> HIDE DEF S
<1> DEFINE r == <<b>>
           s == <<b, n>>
           t == <<b, n, v>>
<1>1. r \in Seq(S) /\ Len(r) = 1 /\ r[1] = b
  BY <1>0
<1>2. s \in Seq(S) /\ Len(s) = 2 /\ s[1] = b /\ s[2] = n
  BY <1>0
<1>3. t \in Seq(S) /\ Len(t) = 3 /\ t[1] = b /\ t[2] = n /\ t[3] = v
  BY <1>0
<1> HIDE DEF r, s, t
<1>4. r \in Seq(S) /\ s \in Seq(S) /\ t \in Seq(S)
  BY <1>1, <1>2, <1>3
<1>5. Append(r, n) = s
  <2>1. Len(s) = Len(r) + 1 /\ s[Len(s)] = n /\ \A i \in 1..Len(r) : s[i] = r[i]
    BY <1>1, <1>2
  <2> QED BY <1>0, <1>4, <2>1, AppendTo
<1>6. Append(s, v) = t
  <2>1. Len(t) = Len(s) + 1 /\ t[Len(t)] = v /\ \A i \in 1..Len(s) : t[i] = s[i]
    BY <1>2, <1>3
  <2> QED BY <1>0, <1>4, <2>1, AppendTo
<1> QED BY <1>5, <1>6 DEF r, s, t

\* The messages that switch a note on or off.
NoteMessage ==
  {m \in Seq(Nat) : Len(m) = 3 /\ m[1] \in {128, 144} /\ m[2] \in 0..127 /\ m[3] \in 0..127}

LEMMA MessageLeads ==
  ASSUME NEW ks, NEW m \in NoteMessage
  PROVE  Leads(Between(ks), m, Between(KeysAfter(ks, m)))
<1> DEFINE b == m[1]
           n == m[2]
           v == m[3]
<1>9. b \in {128, 144} /\ n \in 0..127 /\ v \in 0..127 /\ m = <<b, n, v>>
  BY DEF NoteMessage
<1> HIDE DEF b, n, v
<1> DEFINE s0 == Between(ks)
           s1 == [midi |-> <<b>>, keys |-> ks]
           s2 == [midi |-> <<b, n>>, keys |-> ks]
           s3 == Between(KeysAfter(ks, <<b, n, v>>))
           data == <<b, n, v>>
           g == [i \in 0..3 |-> IF i = 0 THEN s0 ELSE IF i = 1 THEN s1
                                ELSE IF i = 2 THEN s2 ELSE s3]
<1>0. Append(<<b>>, n) = <<b, n>> /\ Append(<<b, n>>, v) = <<b, n, v>>
  BY AppendTuples
<1>1. Takes(s0, b) = s1
  <2>1. b >= 128 /\ b # 192 /\ Len(<<b>>) = 1 /\ <<b>>[1] = b
    BY <1>9
  <2> QED BY <2>1 DEF Takes, Between
<1>2. Takes(s1, n) = s2
  <2>1. ~(n >= 128) /\ Len(<<b, n>>) = 2 /\ <<b, n>>[1] = b /\ b # 192
    BY <1>9
  <2> QED BY <1>0, <2>1 DEF Takes
<1>3. Takes(s2, v) = s3
  <2> DEFINE w == <<b, n, v>>
  <2>1. ~(v >= 128) /\ Len(w) = 3 /\ w[1] = b /\ b # 192
    BY <1>9
  <2>2. Append(s2.midi, v) = w
    BY <1>0
  <2>3. s2.keys = ks
    OBVIOUS
  <2> HIDE DEF w, s2
  <2>4. Takes(s2, v) = [midi |-> << >>, keys |-> KeysAfter(ks, w)]
    BY <2>1, <2>2, <2>3 DEF Takes
  <2> QED BY <2>4 DEF Between, w
<1>4. Len(data) = 3 /\ data[1] = b /\ data[2] = n /\ data[3] = v
  OBVIOUS
<1> HIDE DEF s0, s1, s2, s3, data
<1>6. g[0] = s0 /\ g[1] = s1 /\ g[2] = s2 /\ g[3] = s3
  OBVIOUS
<1> HIDE DEF g
<1>7. Course(g, s0, data, s3)
  <2>1. \A i \in 1..3 : g[i] = Takes(g[i - 1], data[i])
    <3> TAKE i \in 1..3
    <3>1. i = 1 \/ i = 2 \/ i = 3
      OBVIOUS
    <3> QED BY <1>1, <1>2, <1>3, <1>4, <1>6, <3>1
  <2> QED BY <1>4, <1>6, <2>1 DEF Course
<1> QED BY <1>9, <1>7, Zenon DEF Leads, s0, s3, data

\* The three bytes of a MIDI message.
LEMMA MessageBytes ==
  ASSUME NEW m \in NoteMessage
  PROVE  /\ sendMIDI(m) \in Seq(Sdi)
         /\ Bytes(sendMIDI(m)) = m /\ m \in Seq(Nat)
<1> DEFINE ts == sendMIDI(m)
<1>1. /\ Len(m) = 3 /\ m \in Seq(Nat) /\ \A i \in 1..3 : m[i] \in Nat
      /\ m = [i \in 1..3 |-> m[i]]
  <2>1. m \in Seq(Nat) /\ Len(m) = 3
    BY DEF NoteMessage
  <2>2. \A i \in 1..3 : m[i] \in Nat
    <3>1. \A i \in 1..Len(m) : m[i] \in Nat
      BY <2>1
    <3> QED BY <2>1, <3>1
  <2>3. m = [i \in 1..3 |-> m[i]]
    BY <2>1
  <2> QED BY <2>1, <2>2, <2>3, Zenon
<1>2. ts = [i \in 1..3 |-> sdiWrite16(m[i])]
  BY <1>1 DEF sendMIDI
<1>3. \A i \in 1..3 : sdiWrite16(m[i]) \in Sdi /\ sdiWrite16(m[i]).val = m[i]
  BY <1>1 DEF sdiWrite16, Sdi
<1> HIDE DEF ts
<1>4. ts \in Seq(Sdi) /\ Len(ts) = 3 /\ \A i \in 1..3 : ts[i].val = m[i]
  <2> HIDE DEF Sdi
  <2> QED BY <1>2, <1>3
<1>5. Bytes(ts) = m
  BY <1>1, <1>4 DEF Bytes
<1> QED BY <1>1, <1>4, <1>5 DEF ts

LEMMA BytesType ==
  ASSUME NEW s \in Seq(Sdi)
  PROVE  Bytes(s) \in Seq(Nat) /\ Len(Bytes(s)) = Len(s)
<1>1. Len(s) \in Nat /\ \A i \in 1..Len(s) : s[i] \in Sdi
  <2> HIDE DEF Sdi
  <2> QED OBVIOUS
<1>2. \A i \in 1..Len(s) : s[i].val \in Nat
  BY <1>1 DEF Sdi
<1> QED BY <1>1, <1>2 DEF Bytes

LEMMA SameSeq ==
  ASSUME NEW S, NEW s \in Seq(S), NEW t \in Seq(S), Len(s) = Len(t),
         \A i \in 1..Len(s) : s[i] = t[i]
  PROVE  s = t
OBVIOUS

LEMMA BytesConcat ==
  ASSUME NEW s \in Seq(Sdi), NEW t \in Seq(Sdi)
  PROVE  Bytes(s \o t) = Bytes(s) \o Bytes(t)
<1> DEFINE x == Bytes(s)
           y == Bytes(t)
           u == s \o t
           z == x \o y
<1>1. /\ u \in Seq(Sdi) /\ Len(u) = Len(s) + Len(t)
      /\ Len(s) \in Nat /\ Len(t) \in Nat
      /\ \A i \in 1..Len(s) : u[i] = s[i]
      /\ \A i \in 1..Len(t) : u[Len(s) + i] = t[i]
  BY Concat
<1>2. x \in Seq(Nat) /\ y \in Seq(Nat) /\ Len(x) = Len(s) /\ Len(y) = Len(t)
  BY BytesType
<1>3. /\ z \in Seq(Nat) /\ Len(z) = Len(x) + Len(y)
      /\ \A i \in 1..Len(x) : z[i] = x[i]
      /\ \A i \in 1..Len(y) : z[Len(x) + i] = y[i]
  <2> HIDE DEF x, y
  <2>1. x \in Seq(Nat) /\ y \in Seq(Nat)
    BY <1>2
  <2> QED BY <2>1, Concat
<1>4. /\ \A i \in 1..Len(s) : x[i] = s[i].val
      /\ \A i \in 1..Len(t) : y[i] = t[i].val
  BY <1>1 DEF Bytes
<1> HIDE DEF x, y, u, z
<1>5. Bytes(u) \in Seq(Nat) /\ Len(Bytes(u)) = Len(u)
  BY <1>1, BytesType
<1>6. \A i \in 1..Len(u) : Bytes(u)[i] = u[i].val
  BY DEF Bytes
<1>7. ASSUME NEW i \in 1..Len(u) PROVE u[i].val = z[i]
  <2>1. CASE i \in 1..Len(s)
    BY <1>1, <1>2, <1>3, <1>4, <2>1
  <2>2. CASE i \notin 1..Len(s)
    <3> DEFINE j == i - Len(s)
    <3>1. j \in 1..Len(t) /\ Len(s) + j = i
      BY <1>1, <2>2
    <3> HIDE DEF j
    <3>2. u[i] = t[j] /\ z[i] = y[j] /\ y[j] = t[j].val
      BY <1>1, <1>2, <1>3, <1>4, <3>1
    <3> QED BY <3>2
  <2> QED BY <2>1, <2>2
<1>8. Bytes(u) = z
  <2> DEFINE w == Bytes(u)
  <2>1. w \in Seq(Nat) /\ z \in Seq(Nat) /\ Len(w) = Len(z)
    BY <1>1, <1>2, <1>3, <1>5
  <2>2. \A i \in 1..Len(w) : w[i] = z[i]
    BY <1>5, <1>6, <1>7
  <2> HIDE DEF w
  <2>3. w = z
    BY <2>1, <2>2, SameSeq
  <2> QED BY <2>3 DEF w
<1> QED BY <1>8 DEF u, z, x, y

\* Three messages, for three notes.
LEMMA TriadLeads ==
  ASSUME NEW ks, NEW m1 \in NoteMessage, NEW m2 \in NoteMessage, NEW m3 \in NoteMessage
  PROVE  Leads(Between(ks), Bytes((sendMIDI(m1) \o sendMIDI(m2)) \o sendMIDI(m3)),
               Between(KeysAfter(KeysAfter(KeysAfter(ks, m1), m2), m3)))
<1> DEFINE k1 == KeysAfter(ks, m1)
           k2 == KeysAfter(k1, m2)
           k3 == KeysAfter(k2, m3)
<1>1. Leads(Between(ks), m1, Between(k1))
  BY MessageLeads
<1>2. Leads(Between(k1), m2, Between(k2))
  <2> HIDE DEF k1
  <2> QED BY MessageLeads
<1>3. Leads(Between(k2), m3, Between(k3))
  <2> HIDE DEF k2
  <2> QED BY MessageLeads
<1> HIDE DEF k1, k2, k3
<1>4. m1 \in Seq(Nat) /\ m2 \in Seq(Nat) /\ m3 \in Seq(Nat)
  BY MessageBytes
<1>5. Leads(Between(ks), m1 \o m2, Between(k2))
  BY <1>1, <1>2, <1>4, LeadsFurther
<1>6. m1 \o m2 \in Seq(Nat)
  BY <1>4, Concat
<1>7. Leads(Between(ks), (m1 \o m2) \o m3, Between(k3))
  BY <1>3, <1>4, <1>5, <1>6, LeadsFurther
<1> DEFINE s1 == sendMIDI(m1)
           s2 == sendMIDI(m2)
           s3 == sendMIDI(m3)
<1>8. /\ s1 \in Seq(Sdi) /\ s2 \in Seq(Sdi) /\ s3 \in Seq(Sdi)
      /\ Bytes(s1) = m1 /\ Bytes(s2) = m2 /\ Bytes(s3) = m3
  BY MessageBytes
<1> HIDE DEF s1, s2, s3
<1>9. s1 \o s2 \in Seq(Sdi)
  BY <1>8, Concat
<1>10. Bytes((s1 \o s2) \o s3) = (m1 \o m2) \o m3
  <2>1. Bytes(s1 \o s2) = m1 \o m2
    BY <1>8, BytesConcat
  <2> QED BY <1>8, <1>9, <2>1, BytesConcat
<1> QED BY <1>7, <1>10 DEF k1, k2, k3, s1, s2, s3

\* Its notes are MIDI notes.
LEMMA TriadNotes ==
  ASSUME NEW c \in 0..NULL, HasChord(c)
  PROVE  /\ \A i \in 1..3 : buildTriad(c)[i] \in 0..127
         /\ Triad(c) = {buildTriad(c)[1], buildTriad(c)[2], buildTriad(c)[3]}
<1>1. c \in 2..15
  BY DEF HasChord
<1>2. c \div 2 \in 1..7 /\ c % 2 \in 0..1
  BY <1>1, Z3
<1> DEFINE d == c \div 2
           e == c % 2
           t == buildTriad(c)
<1>3. t = <<Roots[d], Roots[d] + 3 + e, Roots[d] + 7>>
  BY DEF buildTriad
<1>4. d \in 1..7 /\ e \in 0..1
  BY <1>2
<1> HIDE DEF d, e, t
<1>5. Roots[d] \in 60..71
  BY <1>4 DEF Roots
<1>6. t[1] \in 0..127 /\ t[2] \in 0..127 /\ t[3] \in 0..127
  <2> DEFINE r == Roots[d]
  <2>1. t[1] = r /\ t[2] = r + 3 + e /\ t[3] = r + 7
    BY <1>3
  <2>2. r \in 60..71
    BY <1>5
  <2> HIDE DEF r
  <2> QED BY <1>4, <2>1, <2>2
<1>7. Triad(c) = {t[i] : i \in 1..3}
  BY DEF Triad, t
<1>8. \A i : i \in 1..3 <=> i = 1 \/ i = 2 \/ i = 3
  OBVIOUS
<1>9. {t[i] : i \in 1..3} = {t[1], t[2], t[3]}
  <2>1. 1..3 = {1, 2, 3}
    OBVIOUS
  <2> QED BY <2>1, Zenon
<1>10. \A i \in 1..3 : t[i] \in 0..127
  BY <1>6, <1>8, Zenon
<1> QED BY <1>7, <1>9, <1>10 DEF t

\* Stopping a chord silences its notes, and playing it makes them sound.
LEMMA ChordLeads ==
  ASSUME NEW c \in 0..NULL, NEW ks
  PROVE  /\ Leads(Between(ks), Bytes(stopChord(c)), Between(ks \ Triad(c)))
         /\ Leads(Between(ks), Bytes(playChord(c)), Between(ks \cup Triad(c)))
<1>1. CASE ~HasChord(c)
  <2>1. stopChord(c) = << >> /\ playChord(c) = << >> /\ Triad(c) = {}
    BY <1>1 DEF stopChord, playChord, Triad
  <2>2. Bytes(<< >>) = << >>
    BY DEF Bytes
  <2>3. ks \ Triad(c) = ks /\ ks \cup Triad(c) = ks
    BY <2>1
  <2>4. Leads(Between(ks), << >>, Between(ks))
    BY LeadsNowhere
  <2> QED BY <2>1, <2>2, <2>3, <2>4, Zenon
<1>2. CASE HasChord(c)
  <2> DEFINE t == buildTriad(c)
  <2>1. /\ t[1] \in 0..127 /\ t[2] \in 0..127 /\ t[3] \in 0..127
        /\ Triad(c) = {t[1], t[2], t[3]}
    BY <1>2, TriadNotes
  <2>2. /\ playChord(c) = (midiNoteOn(t[1], 100) \o midiNoteOn(t[2], 100)) \o midiNoteOn(t[3], 100)
        /\ stopChord(c) = (midiNoteOff(t[1], 64) \o midiNoteOff(t[2], 64)) \o midiNoteOff(t[3], 64)
    BY <1>2 DEF playChord, stopChord
  <2> HIDE DEF t
  <2> DEFINE On(n)  == <<144, n, 100>>
             Off(n) == <<128, n, 64>>
  <2>3. ASSUME NEW n \in 0..127
        PROVE  On(n) \in NoteMessage /\ Off(n) \in NoteMessage
    BY DEF NoteMessage
  <2>4. ASSUME NEW k, NEW n
        PROVE  KeysAfter(k, On(n)) = k \cup {n} /\ KeysAfter(k, Off(n)) = k \ {n}
    BY DEF KeysAfter
  <2>5. /\ playChord(c) = (sendMIDI(On(t[1])) \o sendMIDI(On(t[2]))) \o sendMIDI(On(t[3]))
        /\ stopChord(c) = (sendMIDI(Off(t[1])) \o sendMIDI(Off(t[2]))) \o sendMIDI(Off(t[3]))
    BY <2>2, Zenon DEF midiNoteOn, midiNoteOff
  <2> HIDE DEF On, Off
  <2>6. /\ On(t[1]) \in NoteMessage /\ On(t[2]) \in NoteMessage /\ On(t[3]) \in NoteMessage
        /\ Off(t[1]) \in NoteMessage /\ Off(t[2]) \in NoteMessage /\ Off(t[3]) \in NoteMessage
    BY <2>1, <2>3
  <2>7. Leads(Between(ks), Bytes(playChord(c)),
              Between(KeysAfter(KeysAfter(KeysAfter(ks, On(t[1])), On(t[2])), On(t[3]))))
    BY <2>5, <2>6, TriadLeads, Zenon
  <2>8. Leads(Between(ks), Bytes(stopChord(c)),
              Between(KeysAfter(KeysAfter(KeysAfter(ks, Off(t[1])), Off(t[2])), Off(t[3]))))
    BY <2>5, <2>6, TriadLeads, Zenon
  <2>9. KeysAfter(KeysAfter(KeysAfter(ks, On(t[1])), On(t[2])), On(t[3])) = ks \cup Triad(c)
    BY <2>1, <2>4
  <2>10. KeysAfter(KeysAfter(KeysAfter(ks, Off(t[1])), Off(t[2])), Off(t[3])) = ks \ Triad(c)
    BY <2>1, <2>4
  <2> QED BY <2>7, <2>8, <2>9, <2>10, Zenon
<1> QED BY <1>1, <1>2

\* One byte more is queued, and one byte is taken from the queue.
LEMMA MoveOne ==
  ASSUME NEW S, NEW f \in Seq(S), NEW d \in Seq(S), d # << >>
  PROVE  Append(f, Head(d)) \o Tail(d) = f \o d
OBVIOUS

LEMMA TakeOne ==
  ASSUME NEW S, NEW f \in Seq(S), NEW d \in Seq(S), f # << >>
  PROVE  /\ Head(f \o d) = Head(f) /\ Tail(f \o d) = Tail(f) \o d
         /\ f \o d # << >>
OBVIOUS

LEMMA BytesTail ==
  ASSUME NEW s \in Seq(Sdi), s # << >>
  PROVE  /\ Bytes(s) # << >> /\ Head(Bytes(s)) = Head(s).val
         /\ Bytes(Tail(s)) = Tail(Bytes(s))
<1> DEFINE b == Bytes(s)
           r == Tail(s)
           x == Bytes(r)
           y == Tail(b)
<1>1. /\ Len(s) \in Nat /\ Len(s) >= 1 /\ Head(s) = s[1]
      /\ r \in Seq(Sdi) /\ Len(r) = Len(s) - 1
      /\ \A i \in 1..Len(r) : r[i] = s[i + 1]
  <2> HIDE DEF Sdi
  <2> QED OBVIOUS
<1>2. b \in Seq(Nat) /\ Len(b) = Len(s) /\ \A i \in 1..Len(s) : b[i] = s[i].val
  BY BytesType DEF Bytes
<1> HIDE DEF r
<1>3. x \in Seq(Nat) /\ Len(x) = Len(r) /\ \A i \in 1..Len(r) : x[i] = r[i].val
  BY <1>1, BytesType DEF Bytes
<1> HIDE DEF b, x
<1>4. /\ b # << >> /\ Head(b) = b[1]
      /\ y \in Seq(Nat) /\ Len(y) = Len(b) - 1 /\ \A i \in 1..Len(y) : y[i] = b[i + 1]
  BY <1>1, <1>2
<1> HIDE DEF y
<1>5. \A i \in 1..Len(x) : x[i] = y[i]
  <2> TAKE i \in 1..Len(x)
  <2>1. i \in 1..Len(r) /\ i \in 1..Len(y) /\ i + 1 \in 1..Len(s)
    BY <1>1, <1>2, <1>3, <1>4
  <2>2. x[i] = r[i].val /\ r[i] = s[i + 1] /\ y[i] = b[i + 1] /\ b[i + 1] = s[i + 1].val
    BY <1>1, <1>2, <1>3, <1>4, <2>1
  <2> QED BY <2>2
<1>6. x = y
  <2>1. x \in Seq(Nat) /\ y \in Seq(Nat) /\ Len(x) = Len(y)
    BY <1>1, <1>2, <1>3, <1>4
  <2> QED BY <1>5, <2>1, SameSeq
<1> QED BY <1>1, <1>2, <1>4, <1>6 DEF b, x, y, r

---------------------------------------------------------------------------
(* The chord that is being played *)

\* What is on its way leaves the notes of the last chord sounding.
ToPlay ==
  /\ todo \in Seq(Sdi)
  /\ Leads([midi |-> midi, keys |-> keys], fifo \o Bytes(todo), Between(Triad(lastChord)))

\* The synthesiser is being loaded, and has nothing to play.
Loading ==
  /\ lastChord = NULL
  /\ fifo = << >> /\ midi = << >> /\ keys = {}
  /\ \E k \in 1..(N + 3) : /\ Len(todo) = N + 6 - k
                            /\ \A i \in 1..Len(todo) : todo[i] = setup[k + i]

ChordInv == (todo = setup /\ lastChord = NULL) \/ Loading \/ ToPlay

\* The data in the chip and those still to be sent are bytes of one set.
LEMMA DataType ==
  ASSUME FifoInv, todo \in Seq(Sdi)
  PROVE  fifo \in Seq(Nat \cup Word) /\ Bytes(todo) \in Seq(Nat \cup Word)
<1> DEFINE b == Bytes(todo)
           V == Nat \cup Word
<1>1. b \in Seq(Nat)
  BY BytesType
<1>2. Nat \subseteq V
  OBVIOUS
<1> HIDE DEF b, V
<1>3. b \in Seq(V)
  BY <1>1, <1>2
<1> QED BY <1>3 DEF FifoInv, b, V

\* main() is back in its loop only when the synthesiser has been set up.
LEMMA IdleToPlay ==
  ASSUME ChordInv, todo = << >>
  PROVE  ToPlay
<1>1. N \in Nat /\ Len(setup) = N + 6
  BY PatchType, SetupWords
<1>2. todo # setup
  <2> HIDE DEF setup
  <2> QED BY <1>1
<1>3. ~Loading
  BY <1>1 DEF Loading
<1> QED BY <1>2, <1>3 DEF ChordInv

LEMMA ChordHolds ==
  ASSUME ChordInv, FifoInv
  PROVE  KeysAreLastChord
<1> SUFFICES ASSUME todo = << >>, fifo = << >> PROVE keys = Triad(lastChord)
  BY DEF KeysAreLastChord
<1>1. ToPlay
  BY IdleToPlay
<1>2. fifo \o Bytes(todo) = << >>
  <2>1. Bytes(todo) = << >>
    BY DEF Bytes
  <2> QED BY <2>1
<1> DEFINE s == [midi |-> midi, keys |-> keys]
           t == Between(Triad(lastChord))
<1>3. Leads(s, << >>, t)
  BY <1>1, <1>2 DEF ToPlay
<1>4. s = t
  <2> HIDE DEF s, t
  <2> QED BY <1>3, LeadsHere
<1> QED BY <1>4 DEF Between

\* The elements of a sequence, and a sequence of given elements.
LEMMA ElementIn ==
  ASSUME NEW S, NEW s \in Seq(S)
  PROVE  \A i \in 1..Len(s) : s[i] \in S
OBVIOUS

LEMMA ElementsOf ==
  ASSUME NEW S, NEW T, NEW s \in Seq(S), \A i \in 1..Len(s) : s[i] \in T
  PROVE  s \in Seq(T)
OBVIOUS

\* The program change of setup() plays nothing.
LEMMA ProgramChange ==
  ASSUME NEW ts \in Seq(Transaction), Len(ts) = 2,
         ts[1].op = "sdi", ts[2].op = "sdi", ts[1].val = 192, ts[2].val = 1
  PROVE  ts \in Seq(Sdi) /\ Leads(Between({}), Bytes(ts), Between({}))
<1>1. ts[1] \in Transaction /\ ts[2] \in Transaction
  <2> HIDE DEF Transaction
  <2>1. \A i \in 1..Len(ts) : ts[i] \in Transaction
    BY ElementIn
  <2>2. 1 \in 1..Len(ts) /\ 2 \in 1..Len(ts)
    OBVIOUS
  <2> QED BY ONLY <2>1, <2>2
<1>2. ts[1] \in Sdi /\ ts[2] \in Sdi
  BY <1>1 DEF Transaction, Sdi
<1>3. ts \in Seq(Sdi)
  <2> HIDE DEF Sdi, Transaction
  <2>1. \A i \in 1..Len(ts) : ts[i] \in Sdi
    <3>1. \A i \in 1..Len(ts) : i = 1 \/ i = 2
      OBVIOUS
    <3> QED BY <1>2, <3>1, Zenon
  <2> QED BY <2>1, ElementsOf
<1> DEFINE d == Bytes(ts)
           s0 == Between({})
           s1 == [midi |-> <<192>>, keys |-> {}]
           g == [i \in 0..2 |-> IF i = 1 THEN s1 ELSE s0]
<1>4. Len(d) = 2 /\ d[1] = 192 /\ d[2] = 1
  BY DEF Bytes
<1>5. Takes(s0, 192) = s1
  <2>1. 192 >= 128 /\ Len(<<192>>) = 1 /\ <<192>>[1] = 192
    OBVIOUS
  <2> QED BY <2>1 DEF Takes, Between
<1>6. Takes(s1, 1) = s0
  <2> DEFINE w == <<192, 1>>
  <2>1. ~(1 >= 128) /\ Len(w) = 2 /\ w[1] = 192
    OBVIOUS
  <2>2. Append(s1.midi, 1) = w /\ s1.keys = {}
    <3>1. Append(<<192>>, 1) = <<192, 1>> /\ Append(<<192, 1>>, 1) = <<192, 1, 1>>
      BY AppendTuples
    <3>2. s1.midi = <<192>> /\ s1.keys = {}
      OBVIOUS
    <3> HIDE DEF s1
    <3> QED BY <3>1, <3>2
  <2> HIDE DEF w, s1
  <2>3. Takes(s1, 1) = [midi |-> << >>, keys |-> KeysAfter({}, w)]
    BY <2>1, <2>2 DEF Takes
  <2>4. KeysAfter({}, w) = {}
    BY <2>1 DEF KeysAfter
  <2> QED BY <2>3, <2>4 DEF Between
<1> HIDE DEF d, s0, s1
<1>7. g[0] = s0 /\ g[1] = s1 /\ g[2] = s0
  OBVIOUS
<1> HIDE DEF g
<1>8. Course(g, s0, d, s0)
  <2>1. \A i \in 1..2 : g[i] = Takes(g[i - 1], d[i])
    <3> TAKE i \in 1..2
    <3>1. i = 1 \/ i = 2
      OBVIOUS
    <3> QED BY <1>4, <1>5, <1>6, <1>7, <3>1
  <2> QED BY <1>4, <1>7, <2>1 DEF Course
<1> QED BY <1>3, <1>8, Zenon DEF Leads, s0, d

\* The reset and the commands of setup() give the chip nothing to play; the
\* program change that follows ends with nothing played.
LEMMA LoadStep ==
  ASSUME (todo = setup /\ lastChord = NULL) \/ Loading, DriverInv, Transmit
  PROVE  Loading' \/ ToPlay'
<1>1. /\ todo # << >> /\ todo' = Tail(todo) /\ lastChord' = lastChord
      /\ ResetChip \/ Command \/ Data
  BY DEF Transmit, Transact, main
<1>2. /\ N \in Nat /\ setup \in Seq(Transaction) /\ Len(setup) = N + 6
      /\ setup[1].op = "reset" /\ setup[2].op = "read"
      /\ \A i \in 3..(N + 4) : setup[i].op = "sci"
      /\ setup[N + 5].op = "sdi" /\ setup[N + 6].op = "sdi"
      /\ setup[N + 5].val = 192 /\ setup[N + 6].val = 1
  <2>1. \A i \in 3..(N + 4) : setup[i].op = "sci"
    <3> TAKE i \in 3..(N + 4)
    <3>1. \A w : SciWrite(w).op = "sci"
      BY DEF SciWrite
    <3>2. i = 3 \/ i = N + 4 \/ (i - 3 \in 1..N /\ i = (i - 3) + 3)
      BY PatchType
    <3>3. \E w : setup[i] = SciWrite(w)
      BY <3>2, SetupWords
    <3> QED BY <3>1, <3>3
  <2> QED BY <2>1, PatchType, SetupWords
<1> DEFINE Rest(k, t) == Len(t) = N + 6 - k /\ \A i \in 1..Len(t) : t[i] = setup[k + i]
<1>3. N' = N /\ setup' = setup /\ NULL' = NULL
  BY DEF N, NULL, setup, hardResetVS, softInitVS, loadUserCodeFromTables, startRTMIDI,
         midiProgramChange, sendMIDI, Reset, SciRead, SciWrite, sdiWrite16
<1>4. ASSUME NEW k \in 0..(N + 3), Rest(k, todo), todo \in Seq(Transaction)
      PROVE  todo' \in Seq(Transaction) /\ Rest(k + 1, todo') /\ Head(todo) = setup[k + 1]
  <2> HIDE DEF setup
  <2>1. /\ Head(todo) = todo[1] /\ Len(todo') = Len(todo) - 1 /\ todo' \in Seq(Transaction)
        /\ \A i \in 1..Len(todo') : todo'[i] = todo[i + 1] /\ i + 1 \in 1..Len(todo)
        /\ Len(todo) \in Nat /\ Len(todo) >= 1
    BY <1>1, <1>4
  <2>2. Head(todo) = setup[k + 1]
    BY <1>4, <2>1
  <2>3. \A i \in 1..Len(todo') : todo'[i] = setup[(k + 1) + i]
    <3> TAKE i \in 1..Len(todo')
    <3>1. i \in Nat /\ (k + 1) + i = k + (i + 1)
      BY <2>1
    <3> QED BY <1>4, <2>1, <3>1
  <2> QED BY <1>2, <1>4, <2>1, <2>2, <2>3
<1>5. CASE todo = setup /\ lastChord = NULL
  <2>1. Rest(0, todo) /\ todo \in Seq(Transaction)
    <3> HIDE DEF setup
    <3>1. \A i \in 1..Len(todo) : setup[0 + i] = setup[i]
      BY <1>2
    <3> QED BY <1>2, <1>5, <3>1
  <2>2. Rest(1, todo') /\ Head(todo).op = "reset"
    <3>1. 0 \in 0..(N + 3) /\ 0 + 1 = 1
      BY <1>2
    <3> HIDE DEF Rest
    <3> QED BY <1>2, <1>4, <2>1, <3>1
  <2>3. fifo' = << >> /\ midi' = << >> /\ keys' = {}
    BY <1>1, <2>2 DEF ResetChip, Command, Data
  <2>4. 1 \in 1..(N + 3)
    BY <1>2
  <2>5. Loading'
    BY <1>1, <1>3, <1>5, <2>2, <2>3, <2>4 DEF Loading
  <2> QED BY <2>5
<1>6. CASE Loading
  <2>1. PICK k \in 1..(N + 3) : Rest(k, todo)
    BY <1>6 DEF Loading
  <2>2. todo \in Seq(Transaction) /\ k \in 0..(N + 3)
    BY <1>2 DEF DriverInv
  <2> HIDE DEF Rest, setup
  <2>3. todo' \in Seq(Transaction) /\ Rest(k + 1, todo') /\ Head(todo) = setup[k + 1]
    BY <1>4, <2>1, <2>2
  <2>4. Head(todo).op \in {"read", "sci"}
    <3>1. k + 1 = 2 \/ k + 1 \in 3..(N + 4)
      BY <1>2
    <3> QED BY <1>2, <2>3, <3>1
  <2>5. /\ fifo' = << >> /\ midi' = << >> /\ keys' = {} /\ lastChord' = NULL
    BY <1>1, <1>6, <2>4 DEF ResetChip, Command, Data, Loading
  <2>6. CASE k <= N + 2
    <3>1. k + 1 \in 1..(N + 3)
      BY <1>2, <2>6
    <3>2. Loading'
      BY <1>3, <2>3, <2>5, <3>1 DEF Loading, Rest
    <3> QED BY <3>2
  <2>7. CASE k = N + 3
    <3> DEFINE ts == todo'
    <3>1. /\ ts \in Seq(Transaction) /\ Len(ts) = 2
          /\ ts[1] = setup[N + 5] /\ ts[2] = setup[N + 6]
      <4>1. N + 6 - (k + 1) = 2 /\ (k + 1) + 1 = N + 5 /\ (k + 1) + 2 = N + 6
        BY <1>2, <2>7
      <4>2. Len(ts) = 2 /\ \A i \in 1..2 : ts[i] = setup[(k + 1) + i]
        BY <2>3, <4>1 DEF Rest
      <4>3. 1 \in 1..2 /\ 2 \in 1..2
        OBVIOUS
      <4> QED BY <2>3, <4>1, <4>2, <4>3
    <3> HIDE DEF ts
    <3>2. ts \in Seq(Sdi) /\ Leads(Between({}), Bytes(ts), Between({}))
      <4>1. /\ ts[1].op = "sdi" /\ ts[2].op = "sdi" /\ ts[1].val = 192 /\ ts[2].val = 1
        BY <1>2, <3>1
      <4> QED BY <3>1, <4>1, ProgramChange
    <3>3. << >> \o Bytes(ts) = Bytes(ts)
      <4>1. Bytes(ts) \in Seq(Nat)
        BY <3>2, BytesType
      <4> QED BY <4>1
    <3>4. Triad(NULL) = {}
      BY DEF Triad, HasChord, NULL
    <3>5. /\ Between({}) = [midi |-> midi', keys |-> keys']
          /\ Between(Triad(lastChord')) = Between({})
          /\ fifo' \o Bytes(ts) = Bytes(ts)
      BY <2>5, <3>3, <3>4 DEF Between
    <3>6. Leads([midi |-> midi', keys |-> keys'], fifo' \o Bytes(ts), Between(Triad(lastChord')))
      BY <3>2, <3>5
    <3>7. Sdi' = Sdi
      BY DEF Sdi
    <3>8. ToPlay'
      <4>1. todo' \in Seq(Sdi)
        BY <3>2 DEF ts
      <4> QED BY <3>6, <3>7, <4>1 DEF ToPlay, ts
    <3> QED BY <3>8
  <2> QED BY <1>2, <2>6, <2>7
<1> QED BY <1>5, <1>6

\* A step keeps what is on its way, or moves it on.
LEMMA PlayStep ==
  ASSUME ToPlay, FifoInv, Transmit \/ ChipStep
  PROVE  ToPlay'
<1> DEFINE V == Nat \cup Word
           d == Bytes(todo)
           s == [midi |-> midi, keys |-> keys]
           t == Between(Triad(lastChord))
<1>1. /\ todo \in Seq(Sdi) /\ fifo \in Seq(V) /\ d \in Seq(V)
      /\ Leads(s, fifo \o d, t)
  BY DataType DEF ToPlay
<1>2. lastChord' = lastChord /\ Sdi' = Sdi
  BY DEF Transmit, ChipStep, main, Sdi
<1>3. CASE UNCHANGED <<todo, fifo, midi, keys>>
  BY <1>2, <1>3 DEF ToPlay
<1>4. CASE Transmit
  <2>1. todo # << >> /\ todo' = Tail(todo) /\ (ResetChip \/ Command \/ Data)
    BY <1>4 DEF Transmit, Transact
  <2>2. Head(todo) \in Sdi
    <3> HIDE DEF Sdi
    <3> QED BY <1>1, <2>1
  <2>3. Head(todo).op = "sdi"
    BY <2>2 DEF Sdi
  <2>4. fifo' = Append(fifo, Head(todo).val) /\ midi' = midi /\ keys' = keys
    BY <2>1, <2>3 DEF ResetChip, Command, Data, waitDREQ, DREQ
  <2>5. d # << >> /\ Head(d) = Head(todo).val /\ Bytes(todo') = Tail(d)
    BY <1>1, <2>1, BytesTail
  <2>6. fifo' \o Bytes(todo') = fifo \o d
    <3> HIDE DEF d, V
    <3>1. Append(fifo, Head(d)) \o Tail(d) = fifo \o d
      BY <1>1, <2>5, MoveOne
    <3> QED BY <2>4, <2>5, <3>1
  <2>7. todo' \in Seq(Sdi)
    <3> HIDE DEF Sdi
    <3> QED BY <1>1, <2>1
  <2>8. Leads([midi |-> midi', keys |-> keys'], fifo' \o Bytes(todo'), Between(Triad(lastChord')))
    BY <1>1, <1>2, <2>4, <2>6
  <2> QED BY <1>2, <2>7, <2>8 DEF ToPlay
<1>5. CASE Play
  <2>1. fifo # << >> /\ fifo' = Tail(fifo) /\ todo' = todo
    BY <1>5 DEF Play
  <2> DEFINE b == Head(fifo)
             m == IF b >= 128 THEN <<b>> ELSE Append(midi, b)
             whole == Len(m) = (IF m[1] = 192 THEN 2 ELSE 3)
  <2>2. [midi |-> midi', keys |-> keys'] = Takes(s, b)
    <3>1. /\ midi' = IF whole THEN << >> ELSE m
          /\ keys' = IF whole THEN Played(m) ELSE keys
      BY <1>5 DEF Play
    <3>2. Played(m) = KeysAfter(keys, m)
      BY DEF Played, KeysAfter
    <3>3. s.midi = midi /\ s.keys = keys
      OBVIOUS
    <3> HIDE DEF s, b
    <3>4. Takes(s, b) = [midi |-> IF whole THEN << >> ELSE m,
                         keys |-> IF whole THEN KeysAfter(keys, m) ELSE keys]
      BY <3>3, Zenon DEF Takes
    <3> HIDE DEF m, whole
    <3> QED BY <3>1, <3>2, <3>4
  <2> HIDE DEF d, V
  <2>3. /\ Head(fifo \o d) = Head(fifo) /\ Tail(fifo \o d) = Tail(fifo) \o d
        /\ fifo \o d # << >>
    BY <1>1, <2>1, TakeOne
  <2>4. fifo \o d \in Seq(V)
    BY <1>1, Concat
  <2>5. Leads(Takes(s, b), Tail(fifo) \o d, t)
    <3> HIDE DEF s, t
    <3>1. Leads(Takes(s, Head(fifo \o d)), Tail(fifo \o d), t)
      BY <1>1, <2>3, <2>4, LeadsOn
    <3> QED BY <2>3, <3>1
  <2>6. Leads([midi |-> midi', keys |-> keys'], fifo' \o Bytes(todo'), Between(Triad(lastChord')))
    BY <1>2, <2>1, <2>2, <2>5 DEF d
  <2>7. todo' \in Seq(Sdi)
    BY <1>1, <2>1
  <2> QED BY <1>2, <2>6, <2>7 DEF ToPlay
<1>6. CASE Ready
  BY <1>3, <1>6 DEF Ready
<1> QED BY <1>4, <1>5, <1>6 DEF ChipStep, Chip

\* A new chord: the notes of the old one are switched off, then its own on.
LEMMA ChangeStep ==
  ASSUME ToPlay, FifoInv, todo = << >>, fifo' = fifo, midi' = midi, keys' = keys,
         lastChord \in 0..NULL, lastChord' \in 0..NULL,
         \/ todo' = << >> /\ lastChord' = lastChord
         \/ todo' = stopChord(lastChord) \o playChord(lastChord')
  PROVE  ToPlay'
<1> DEFINE V == Nat \cup Word
           s == [midi |-> midi, keys |-> keys]
           old == lastChord
           c == lastChord'
<1>1. Sdi' = Sdi
  BY DEF Sdi
<1>2. CASE todo' = << >> /\ lastChord' = lastChord
  BY <1>1, <1>2 DEF ToPlay
<1>3. CASE todo' = stopChord(lastChord) \o playChord(lastChord')
  <2> DEFINE x == stopChord(old)
             y == playChord(c)
             bx == Bytes(x)
             by == Bytes(y)
  <2>1. x \in Seq(Sdi) /\ y \in Seq(Sdi)
    BY ChordWords
  <2>2. /\ Leads(Between(Triad(old)), bx, Between(Triad(old) \ Triad(old)))
        /\ Leads(Between({}), by, Between({} \cup Triad(c)))
    BY ChordLeads
  <2>3. /\ Leads(Between(Triad(old)), bx, Between({}))
        /\ Leads(Between({}), by, Between(Triad(c)))
    <3>1. Triad(old) \ Triad(old) = {} /\ {} \cup Triad(c) = Triad(c)
      OBVIOUS
    <3> QED BY <2>2, <3>1, Zenon
  <2> HIDE DEF x, y, c, old
  <2>4. x \o y \in Seq(Sdi) /\ Bytes(x \o y) = bx \o by
    BY <2>1, BytesConcat, Concat
  <2>5. bx \in Seq(Nat) /\ by \in Seq(Nat)
    BY <2>1, BytesType
  <2>6. fifo \in Seq(V) /\ bx \in Seq(V) /\ by \in Seq(V)
    <3> HIDE DEF bx, by
    <3>1. Nat \subseteq V
      OBVIOUS
    <3> HIDE DEF V
    <3>2. bx \in Seq(V) /\ by \in Seq(V)
      BY <2>5, <3>1
    <3> QED BY <3>2 DEF FifoInv, V
  <2> HIDE DEF bx, by, V
  <2>7. Leads(s, fifo, Between(Triad(old)))
    <3>1. fifo \o Bytes(todo) = fifo
      <4>1. Bytes(<< >>) = << >>
        BY DEF Bytes
      <4> QED BY <2>6, <4>1
    <3> QED BY <3>1 DEF ToPlay, old
  <2> HIDE DEF s
  <2>8. bx \o by \in Seq(V) /\ Leads(Between(Triad(old)), bx \o by, Between(Triad(c)))
    BY <2>3, <2>6, LeadsFurther, Concat
  <2>9. Leads(s, fifo \o (bx \o by), Between(Triad(c)))
    BY <2>6, <2>7, <2>8, LeadsFurther
  <2>10. todo' = x \o y
    BY <1>3 DEF x, y, c, old
  <2>11. Leads([midi |-> midi', keys |-> keys'], fifo' \o Bytes(todo'), Between(Triad(lastChord')))
    BY <2>4, <2>9, <2>10 DEF s, c
  <2> QED BY <1>1, <2>4, <2>10, <2>11 DEF ToPlay
<1> QED BY <1>2, <1>3

LEMMA ChordInit == Init => ChordInv
BY DEF Init, ChordInv

LEMMA ChordStep ==
  ChordInv /\ PositionInv /\ DriverInv /\ FifoInv /\ [Next]_vars => ChordInv'
<1> SUFFICES ASSUME ChordInv, PositionInv, DriverInv, FifoInv, [Next]_vars
             PROVE  ChordInv'
  OBVIOUS
<1>0. setup' = setup /\ N' = N /\ NULL' = NULL /\ Sdi' = Sdi
  BY DEF N, NULL, Sdi, setup, hardResetVS, softInitVS, loadUserCodeFromTables, startRTMIDI,
         midiProgramChange, sendMIDI, Reset, SciRead, SciWrite, sdiWrite16
<1>1. CASE Transmit
  <2>1. CASE ToPlay
    BY <1>1, <2>1, PlayStep DEF ChordInv
  <2>2. CASE ~ToPlay
    <3>1. Loading' \/ ToPlay'
      BY <1>1, <2>2, LoadStep DEF ChordInv
    <3> QED BY <3>1 DEF ChordInv
  <2> QED BY <2>1, <2>2
<1>2. CASE ChipStep
  <2>1. CASE ToPlay
    BY <1>2, <2>1, PlayStep DEF ChordInv
  <2>2. todo' = todo /\ lastChord' = lastChord
    BY <1>2 DEF ChipStep, Chip, Ready, Play, main
  <2>3. CASE todo = setup /\ lastChord = NULL
    BY <1>0, <2>2, <2>3 DEF ChordInv
  <2>4. CASE Loading
    <3>1. UNCHANGED <<fifo, midi, keys>>
      BY <1>2, <2>4 DEF ChipStep, Chip, Ready, Play, Loading
    <3>2. Loading'
      BY <1>0, <2>2, <2>4, <3>1 DEF Loading
    <3> QED BY <3>2 DEF ChordInv
  <2> QED BY <2>1, <2>3, <2>4 DEF ChordInv
<1>3. CASE Arrive \/ UNCHANGED vars
  <2>1. UNCHANGED <<todo, fifo, midi, keys, lastChord>>
    BY <1>3 DEF Arrive, vars, main, chip
  <2> QED BY <1>0, <2>1 DEF ChordInv, Loading, ToPlay
<1>4. CASE Reboot
  BY <1>0, <1>4 DEF Reboot, ChordInv
<1>5. CASE ReadByte
  <2>1. todo = << >> /\ UNCHANGED <<fifo, midi, keys>> /\ Collect(Head(rx))
    BY <1>5 DEF ReadByte, chip
  <2>2. ToPlay
    BY <2>1, IdleToPlay
  <2>3. lastChord \in 0..NULL /\ lastChord' \in 0..NULL
    <3>1. PositionInv'
      BY PositionStep
    <3> QED BY <1>0, <3>1 DEF PositionInv, MessageInv
  <2>4. \/ todo' = << >> /\ lastChord' = lastChord
        \/ todo' = stopChord(lastChord) \o playChord(lastChord')
    <3>1. CASE UNCHANGED <<todo, lastChord>>
      BY <2>1, <3>1
    <3>2. CASE OnMessage(Append(p, Head(rx)))
      <4> DEFINE c == obtenerValorBotones(Append(p, Head(rx)))
      <4>1. /\ lastChord' = c
            /\ todo' = IF c # lastChord THEN stopChord(lastChord) \o playChord(c) ELSE << >>
        BY <3>2 DEF OnMessage, changeChord
      <4> HIDE DEF c
      <4> QED BY <4>1
    <3> QED BY <2>1, <3>1, <3>2 DEF Collect
  <2>5. ToPlay'
    BY <2>1, <2>2, <2>3, <2>4, ChangeStep
  <2> QED BY <2>5 DEF ChordInv
<1> QED BY <1>1, <1>2, <1>3, <1>4, <1>5 DEF Next

---------------------------------------------------------------------------
(* Theorems *)

\* Positions, messages and the chip's data stay in their ranges: main() never
\* reads past its message buffer, for any number of messages, sizes and resets.
THEOREM TypeCorrect == Spec => []TypeOK
<1>1. PositionInv /\ FifoInv => TypeOK
  BY PositionsTyped
<1> QED BY <1>1, PositionInit, PositionStep, DriverInit, DriverStep, FifoInit, FifoStep, PTL DEF Spec

\* No word of the plugin is lost before it is started: the chip is started with
\* the whole table in its registers and nothing else, for any table, and
\* wherever DREQ is low or the board is reset.
THEOREM PluginLoaded == Spec => []LoadedWhenStarted
<1>1. DriverInv => LoadedWhenStarted
  BY DriverLoads
<1> QED BY <1>1, PositionInit, PositionStep, DriverInit, DriverStep, PTL DEF Spec

\* Messages are in step exactly while the number of bytes missed is a multiple
\* of their size, for any size, any number of messages, overruns and resets.
THEOREM MissedDecide == Spec => MissedBytesDecide
<1> DEFINE A == ReadByte /\ Len(p) + 1 = SIZE /\ (\A i \in 1..Len(p) : p[i] = Head(rx) - SIZE + i) =>
                  IF (Head(rx) - reads) % SIZE = 0
                  THEN Head(rx) % SIZE = SIZE - 1 /\ lastChord' = sent[(Head(rx) \div SIZE) + 1]
                  ELSE Head(rx) % SIZE # SIZE - 1
<1>1. ASSUME PositionInv, [Next]_vars PROVE [A]_vars
  <2> DEFINE h == Head(rx)
             m == Append(p, h)
  <2>1. SUFFICES ASSUME ReadByte, Len(p) + 1 = SIZE,
                        \A i \in 1..Len(p) : p[i] = h - SIZE + i
                 PROVE  /\ (h - reads) % SIZE = 0 <=> h % SIZE = SIZE - 1
                        /\ h % SIZE = SIZE - 1 => lastChord' = sent[(h \div SIZE) + 1]
    BY Zenon
  <2>2. SIZE \in Nat \ {0}
    BY SizeType
  <2>3. /\ h \in Nat /\ h < pos /\ reads \in Nat
        /\ p \in Seq(Nat) /\ Len(p) = reads % SIZE
        /\ \A i \in 1..Len(p) : p[i] < pos
    BY <1>1, <2>1 DEF PositionInv, LineInv, MessageInv, ReadByte
  <2>4. reads % SIZE = SIZE - 1
    BY <2>1, <2>2, <2>3
  <2>5. (h - reads) % SIZE = 0 <=> h % SIZE = SIZE - 1
    BY <2>2, <2>3, <2>4, LastApart
  <2>6. ASSUME h % SIZE = SIZE - 1
        PROVE  lastChord' = sent[(h \div SIZE) + 1]
    <3>1. PICK q \in Nat : h = SIZE * q + (SIZE - 1) /\ h \div SIZE = q
      <4>1. \E q \in Nat, r \in 0..(SIZE - 1) : h = SIZE * q + r /\ h % SIZE = r /\ h \div SIZE = q
        BY <2>2, <2>3, Division
      <4> QED BY <2>6, <4>1, Zenon
    <3>2. /\ m \in Seq(Nat) /\ Len(m) = SIZE /\ m[SIZE] = h
          /\ \A i \in 1..(SIZE - 1) : m[i] = p[i]
      BY <2>1, <2>2, <2>3
    <3> HIDE DEF m
    <3>3. \A i \in 1..SIZE : m[i] < pos /\ m[i] = SIZE * q + (i - 1)
      <4> TAKE i \in 1..SIZE
      <4>1. i = SIZE \/ i \in 1..(SIZE - 1)
        BY <2>2
      <4>2. CASE i = SIZE
        BY <2>2, <2>3, <3>1, <3>2, <4>2
      <4>3. CASE i \in 1..(SIZE - 1)
        <5>0. i \in 1..Len(p) /\ m[i] = p[i]
          <6> HIDE DEF h
          <6>1. Len(p) = SIZE - 1
            BY <2>1, <2>2, <2>3
          <6> QED BY <3>2, <4>3, <6>1
        <5>1. m[i] = p[i] /\ p[i] = h - SIZE + i /\ p[i] < pos
          BY <2>1, <2>3, <5>0, Zenon
        <5>2. h - SIZE + i = SIZE * q + (i - 1)
          <6> DEFINE S == SIZE
                     x == S * q
          <6>1. x \in Int /\ S \in Int /\ h = x + (S - 1) /\ i \in Int
            BY <2>2, <3>1
          <6> HIDE DEF x, S
          <6>2. h - S + i = x + (i - 1)
            BY <6>1
          <6> QED BY <6>2 DEF x, S
        <5> QED BY <5>1, <5>2
      <4> QED BY <4>1, <4>2, <4>3
    <3>4. obtenerValorBotones(m) = sent[q + 1]
      BY <1>1, <3>2, <3>3, InStepValue DEF PositionInv
    <3>5. lastChord' = obtenerValorBotones(m)
      <4>1. Collect(h)
        BY <2>1 DEF ReadByte
      <4>2. OnMessage(m)
        BY <2>1, <2>2, <4>1 DEF Collect, m
      <4> QED BY <4>2 DEF OnMessage
    <3> QED BY <3>1, <3>4, <3>5
  <2> QED BY <2>5, <2>6
<1>2. PositionInv /\ [Next]_vars => [A]_vars
  BY <1>1
<1> QED BY <1>2, PositionInit, PositionStep, PTL DEF Spec, MissedBytesDecide

\* When everything is sent and played, exactly the notes of the last chord
\* sound, for any room in the chip, wherever messages are cut by a reset, and
\* though chords share notes.
THEOREM LastChordSounds == Spec => []KeysAreLastChord
<1>1. ChordInv /\ FifoInv => KeysAreLastChord
  BY ChordHolds
<1> QED BY <1>1, PositionInit, PositionStep, DriverInit, DriverStep, FifoInit, FifoStep,
           ChordInit, ChordStep, PTL DEF Spec
============================================================================
