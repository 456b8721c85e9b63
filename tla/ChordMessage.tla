--------------------------- MODULE ChordMessage ---------------------------
(***************************************************************************)
(* The 8-byte packet the three boards exchange (struct ChordMessage), its  *)
(* XOR checksum, and the mapping from buttons to chords and notes.         *)
(*                                                                         *)
(* A byte is the set of its one bits, so that XOR is the symmetric         *)
(* difference and "& 1" is membership of bit 0; 0xAA is {1,3,5,7}.         *)
(***************************************************************************)
EXTENDS Naturals

Byte == SUBSET (0..7)

Xor(a, b) == (a \ b) \cup (b \ a)

HEADER1 == {1, 3, 5, 7}       \* 0xAA
HEADER2 == {0, 2, 4, 6}       \* 0x55

VEL_NORMAL == {4, 6}          \* 80
VEL_FUERTE == {3, 4, 5, 6}    \* 120

\* sizeof(ChordMessage): header1, header2, botones[4], velocity, checksum.
SIZE == 8

Message == [0..(SIZE - 1) -> Byte]

\* chk ^= p[i] for i = 2 .. SIZE-2.
Checksum(m) == Xor(Xor(Xor(Xor(m[2], m[3]), m[4]), m[5]), m[6])

HeaderOK(m) == m[0] = HEADER1 /\ m[1] = HEADER2

ChecksumNotCompared(m) == TRUE

ChecksumOK(m) == Checksum(m) = m[SIZE - 1]

\* A chord mask is the set of pressed buttons among B0..B3.
Mask == SUBSET (0..3)

Velocity == {VEL_NORMAL, VEL_FUERTE}

\* The packet sendPacket() fills in for a chord mask and a velocity.
sendPacket(chordMask, velocity) ==
  LET boton(i) == IF i \in chordMask THEN {0} ELSE {}
      bytes == <<HEADER1, HEADER2, boton(0), boton(1), boton(2), boton(3),
                 velocity, {}>>
      body  == [i \in 0..(SIZE - 1) |-> bytes[i + 1]]
  IN  [body EXCEPT ![7] = Checksum(body)]

---------------------------------------------------------------------------
\* The nibble b3 b2 b1 b0: bit i is the low bit of botones[i].
obtenerValorBotones(m) ==
  LET bit(i) == IF 0 \in m[2 + i] THEN 1 ELSE 0
  IN  8 * bit(3) + 4 * bit(2) + 2 * bit(1) + bit(0)

CHORD_NONE  == "none"
CHORD_MINOR == "minor"
CHORD_MAJOR == "major"

\* Roots of DO RE MI FA SOL LA SI.
Roots == <<60, 62, 64, 65, 67, 69, 71>>

\* The low three bits choose the root, bit 3 the minor chord; 0000 and 1000
\* are "Nada".
buttonChordMap ==
  [b \in 0..15 |->
     IF b % 8 = 0 THEN [root |-> 0, tipo |-> CHORD_NONE]
     ELSE [root |-> Roots[b % 8],
           tipo |-> IF b < 8 THEN CHORD_MAJOR ELSE CHORD_MINOR]]

\* The notes of a chord (buildTriad); none when its tipo is CHORD_NONE.
buildTriad(b) ==
  LET c == buttonChordMap[b]
      third == IF c.tipo = CHORD_MAJOR THEN 4 ELSE 3
  IN  IF c.tipo = CHORD_NONE THEN {} ELSE {c.root, c.root + third, c.root + 7}

\* Every note some chord of the map contains.
Note == 60..78
============================================================================
