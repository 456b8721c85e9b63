------------------------ MODULE ChordMessageProofs ------------------------
(***************************************************************************)
(* What sendPacket() puts on the line, for the proofs about both ends.     *)
(***************************************************************************)
EXTENDS ChordMessage, TLAPS

\* The eight bytes of a packet built by sendPacket().
LEMMA PacketBytes ==
  ASSUME NEW mask, NEW velocity
  PROVE  LET m == sendPacket(mask, velocity)
             boton(i) == IF i \in mask THEN {0} ELSE {}
         IN  /\ m = [i \in 0..7 |-> m[i]]
             /\ m[0] = HEADER1
             /\ m[1] = HEADER2
             /\ m[2] = boton(0)
             /\ m[3] = boton(1)
             /\ m[4] = boton(2)
             /\ m[5] = boton(3)
             /\ m[6] = velocity
             /\ m[7] = Checksum(m)
<1> DEFINE boton(i) == IF i \in mask THEN {0} ELSE {}
           bytes == <<HEADER1, HEADER2, boton(0), boton(1), boton(2), boton(3),
                      velocity, {}>>
           body  == [i \in 0..7 |-> bytes[i + 1]]
           m     == sendPacket(mask, velocity)
<1>1. m = [body EXCEPT ![7] = Checksum(body)]
  BY DEF sendPacket, SIZE
<1>2. /\ bytes[1] = HEADER1 /\ bytes[2] = HEADER2
      /\ bytes[3] = boton(0) /\ bytes[4] = boton(1)
      /\ bytes[5] = boton(2) /\ bytes[6] = boton(3)
      /\ bytes[7] = velocity
  OBVIOUS
<1> HIDE DEF bytes, boton
<1>3. /\ body[0] = bytes[1] /\ body[1] = bytes[2] /\ body[2] = bytes[3]
      /\ body[3] = bytes[4] /\ body[4] = bytes[5] /\ body[5] = bytes[6]
      /\ body[6] = bytes[7]
  OBVIOUS
<1>4. m = [i \in 0..7 |-> IF i = 7 THEN Checksum(body) ELSE body[i]]
  BY <1>1
<1> HIDE DEF body, m
<1>5. /\ m = [i \in 0..7 |-> m[i]]
      /\ \A i \in 0..6 : m[i] = body[i]
      /\ m[7] = Checksum(body)
  BY <1>4
<1>6. m[7] = Checksum(m)
  BY <1>5 DEF Checksum
<1> QED BY <1>2, <1>3, <1>5, <1>6 DEF m, boton

\* Bit 7 of a sum is set only if it is set in one of the two bytes.
LEMMA XorBit7 ==
  ASSUME NEW a, NEW b, 7 \notin a, 7 \notin b
  PROVE  7 \notin Xor(a, b)
BY DEF Xor

\* A packet is a message with the two header bytes and a good checksum, and
\* the first header byte, 0xAA, occurs nowhere else in it: no other byte has
\* bit 7 set.
LEMMA PacketFormat ==
  ASSUME NEW mask, NEW velocity \in Velocity
  PROVE  LET m == sendPacket(mask, velocity)
         IN  /\ m \in Message
             /\ m[0] = HEADER1
             /\ m[1] = HEADER2
             /\ ChecksumOK(m)
             /\ \A i \in 1..7 : m[i] # HEADER1
<1> DEFINE m == sendPacket(mask, velocity)
<1>1. /\ m = [i \in 0..7 |-> m[i]]
      /\ m[0] = HEADER1
      /\ m[1] = HEADER2
      /\ \A i \in 2..5 : m[i] \in {{}, {0}}
      /\ m[6] = velocity
      /\ m[7] = Checksum(m)
  BY PacketBytes
<1> HIDE DEF m
<1>2. \A i \in 1..6 : m[i] \in Byte /\ 7 \notin m[i]
  BY <1>1 DEF Velocity, VEL_NORMAL, VEL_FUERTE, HEADER2, Byte
<1>3. 7 \notin Checksum(m)
  <2>1. 7 \notin Xor(m[2], m[3])
    BY <1>2, XorBit7
  <2>2. 7 \notin Xor(Xor(m[2], m[3]), m[4])
    BY <1>2, <2>1, XorBit7
  <2>3. 7 \notin Xor(Xor(Xor(m[2], m[3]), m[4]), m[5])
    BY <1>2, <2>2, XorBit7
  <2> QED BY <1>2, <2>3, XorBit7 DEF Checksum
<1>4. Checksum(m) \in Byte
  BY <1>2 DEF Checksum, Xor, Byte
<1>5. HEADER1 \in Byte /\ 7 \in HEADER1
  BY DEF HEADER1, Byte
<1>6. \A i \in 0..7 : m[i] \in Byte
  BY <1>1, <1>2, <1>4, <1>5
<1>7. m \in Message
  BY <1>1, <1>6 DEF Message, SIZE
<1>8. \A i \in 1..7 : m[i] # HEADER1
  BY <1>1, <1>2, <1>3, <1>5
<1> QED BY <1>1, <1>7, <1>8 DEF ChecksumOK, SIZE, m
============================================================================
