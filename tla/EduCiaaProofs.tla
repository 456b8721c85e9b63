--------------------------- MODULE EduCiaaProofs ---------------------------
(***************************************************************************)
(* Proofs about EduCiaa, for every set of masks and noise bytes and every  *)
(* bound on packets, faults, bursts and resets.  The theorems about what   *)
(* the checksum catches state which faults they are about (ShortRuns,      *)
(* FaultsApart).                                                           *)
(***************************************************************************)
EXTENDS EduCiaa, ChordMessageProofs, TLAPS

---------------------------------------------------------------------------
(* Packets and buttons *)

\* PacketFormat for the packets of this model.
LEMMA PacketFacts ==
  ASSUME NEW m \in Packet
  PROVE  /\ m \in Message
         /\ m[0] = HEADER1
         /\ m[1] = HEADER2
         /\ ChecksumOK(m)
         /\ \A i \in 1..7 : m[i] # HEADER1
BY PacketFormat DEF Packet

\* The nibble of the buttons indexes buttonChordMap.
LEMMA ValorBotones ==
  ASSUME NEW m
  PROVE  obtenerValorBotones(m) \in 0..15
BY DEF obtenerValorBotones

---------------------------------------------------------------------------
(* Type correctness: idx never runs past the packet buffer. *)

\* strumChord() keeps the types of the synthesiser.
LEMMA StrumType ==
  ASSUME keys \in [Note -> Byte], sounds \in [Note -> Byte],
         NEW b, NEW velocity, velocity \ {7} \in Byte, strumChord(b, velocity)
  PROVE  /\ keys' \in [Note -> Byte] /\ sounds' \in [Note -> Byte]
         /\ prev' = b /\ pedal' = pedal
<1> DEFINE stopped == stopChord(keys, prev)
           played  == playChord(stopped, b, velocity)
<1>0. {} \in Byte
  BY DEF Byte
<1>1. stopped \in [Note -> Byte]
  BY <1>0 DEF stopChord
<1> HIDE DEF stopped
<1>2. played \in [Note -> Byte]
  BY <1>1 DEF playChord
<1>3. keys' = played /\ sounds' = Ring(Ring(sounds, stopped), played)
      /\ prev' = b /\ pedal' = pedal
  BY DEF strumChord, stopped
<1> HIDE DEF played
<1>4. ASSUME NEW ss \in [Note -> Byte], NEW ks \in [Note -> Byte]
      PROVE  Ring(ss, ks) \in [Note -> Byte]
  BY <1>4 DEF Ring
<1>5. Ring(sounds, stopped) \in [Note -> Byte]
  BY <1>1, <1>4
<1> QED BY <1>2, <1>3, <1>4, <1>5

\* One byte, whatever it is, keeps the types of what main() changes.
LEMMA ParseType ==
  ASSUME TypeOK, NEW byte \in Byte, Parse(byte)
  PROVE  /\ synced' \in BOOLEAN /\ gotAA' \in BOOLEAN
         /\ idx' \in 0..(SIZE - 1)
         /\ p' \in Message
         /\ prev' \in (0..15) \cup {NULL}
         /\ pedal' = pedal
         /\ keys' \in [Note -> Byte]
         /\ sounds' \in [Note -> Byte]
         /\ accepted' \in Seq([k : Nat, boot : Nat, msg : Message])
<1> USE DEF TypeOK
<1>1. HEADER1 \in Byte /\ HEADER2 \in Byte
  BY DEF HEADER1, HEADER2, Byte
<1>2. CASE SearchAA(byte)
  <2>1. gotAA' \in BOOLEAN
    BY <1>2, Zenon DEF SearchAA
  <2> QED BY <1>2, <2>1 DEF SearchAA, synth
<1>3. CASE Search55(byte)
  <2>1. gotAA' \in BOOLEAN /\ synced' \in BOOLEAN
    BY <1>3, Zenon DEF Search55
  <2>2. p' \in Message
    BY <1>1, <1>3 DEF Search55, Message, SIZE
  <2>3. idx' \in 0..(SIZE - 1)
    BY <1>3 DEF Search55, SIZE
  <2> QED BY <1>3, <2>1, <2>2, <2>3 DEF Search55, synth
<1>4. CASE Collect(byte)
  BY <1>4 DEF Collect, synth, Message, SIZE
<1>5. CASE Reject(byte)
  <2>1. synced' \in BOOLEAN /\ gotAA' \in BOOLEAN /\ idx' = 0
    BY <1>5, Zenon DEF Reject, ResetParser
  <2>2. p' \in Message
    BY <1>5 DEF Reject, Message, SIZE
  <2> QED BY <1>5, <2>1, <2>2 DEF Reject, synth, SIZE
<1>6. CASE Accept(byte)
  <2> DEFINE msg == [p EXCEPT ![idx] = byte]
             b   == obtenerValorBotones(msg)
  <2>1. msg \in Message
    BY DEF Message, SIZE
  <2>2. pk \in Nat /\ reboots \in Nat
    BY EduCiaaAssumption
  <2>3. /\ synced' = FALSE /\ gotAA' = FALSE /\ idx' = 0 /\ p' = msg
        /\ accepted' = Append(accepted, [k |-> pk, boot |-> reboots, msg |-> msg])
        /\ \/ strumChord(b, msg[6])
           \/ UNCHANGED synth
    BY <1>6 DEF Accept, ResetParser
  <2>4. b \in 0..15
    BY ValorBotones
  <2> HIDE DEF msg, b
  <2>5. accepted' \in Seq([k : Nat, boot : Nat, msg : Message])
    BY <2>1, <2>2, <2>3
  <2>6. msg[6] \ {7} \in Byte /\ {} \in Byte
    BY <2>1 DEF Message, SIZE, Byte
  <2>7. synced' \in BOOLEAN /\ gotAA' \in BOOLEAN
    BY <2>3, Zenon
  <2>8. CASE strumChord(b, msg[6])
    <3>1. /\ keys' \in [Note -> Byte] /\ sounds' \in [Note -> Byte]
          /\ prev' = b /\ pedal' = pedal
      BY <2>6, <2>8, StrumType
    <3> QED BY <2>1, <2>3, <2>4, <2>5, <2>7, <3>1 DEF SIZE
  <2>9. CASE UNCHANGED synth
    <3>1. UNCHANGED <<prev, keys, pedal, sounds>>
      BY <2>9 DEF synth
    <3> QED BY <2>1, <2>3, <2>5, <2>7, <3>1 DEF SIZE
  <2> QED BY <2>3, <2>8, <2>9
<1> QED BY <1>2, <1>3, <1>4, <1>5, <1>6 DEF Parse

\* A byte of a packet on the line is a byte, and reading it keeps the place
\* in the line within bounds.
LEMMA AdvanceType ==
  ASSUME TypeOK, Advance
  PROVE  /\ sent' = sent /\ reboots' = reboots /\ booting' = booting
         /\ pk \in 1..Len(sent)
         /\ sent[pk] \in Packet
         /\ sent[pk][off] \in Byte
         /\ pk' \in 1..(Len(sent) + 1)
         /\ off' \in 0..(SIZE - 1)
         /\ off' # 0 => pk' <= Len(sent)
         /\ off < 7 => off' = off + 1 /\ pk' = pk
         /\ off = 7 => off' = 0 /\ pk' = pk + 1
<1>1. pk \in 1..Len(sent) /\ sent[pk] \in Packet
  BY DEF TypeOK, Advance, BytePending
<1>2. sent[pk][off] \in Byte
  BY <1>1, PacketFacts DEF TypeOK, Message
<1>3. /\ off \in 0..7 /\ pk \in Nat
      /\ off' = (off + 1) % 8
      /\ pk' = IF off = 7 THEN pk + 1 ELSE pk
  BY DEF TypeOK, Advance, SIZE
<1>4. \A n \in 0..7 : (n + 1) % 8 = IF n = 7 THEN 0 ELSE n + 1
  OBVIOUS
<1>5. sent' = sent /\ reboots' = reboots /\ booting' = booting /\ Len(sent) \in Nat
  BY DEF TypeOK, Advance
<1>6. /\ off < 7 => off' = off + 1 /\ pk' = pk
      /\ off = 7 => off' = 0 /\ pk' = pk + 1
      /\ off < 7 \/ off = 7
  BY <1>3, <1>4
<1>7. /\ pk' \in 1..(Len(sent) + 1)
      /\ off' \in 0..7
      /\ off' # 0 => pk' <= Len(sent)
  BY <1>1, <1>3, <1>5, <1>6
<1> QED BY <1>1, <1>2, <1>5, <1>6, <1>7 DEF SIZE

\* Every step keeps the types.
LEMMA TypeStep == TypeOK /\ [Next]_vars => TypeOK'
<1> SUFFICES ASSUME TypeOK, [Next]_vars
             PROVE  TypeOK'
  OBVIOUS
<1>0. Len(sent) \in Nat
  BY DEF TypeOK
<1>1. CASE Transmit
  <2>1. PICK m \in Packet : sent' = Append(sent, m)
    BY <1>1 DEF Transmit
  <2>2. sent' \in Seq(Packet) /\ Len(sent') = Len(sent) + 1
    BY <2>1 DEF TypeOK
  <2> QED BY <1>0, <1>1, <2>2 DEF TypeOK, Transmit, parser, synth
<1>2. CASE ReadByte
  <2>1. Advance /\ Parse(sent[pk][off]) /\ burst' = 0
        /\ UNCHANGED <<damaged, faults>>
    BY <1>2 DEF ReadByte
  <2> QED BY <2>1, AdvanceType, ParseType DEF TypeOK
<1>3. CASE ReadDamagedByte
  <2>1. /\ faults < MaxFaults /\ faults' = faults + 1 /\ burst' = 0
        /\ damaged' = damaged \cup {pk} /\ Advance
    BY <1>3 DEF ReadDamagedByte
  <2>2. PICK byte \in Noise : Parse(byte)
    BY <1>3 DEF ReadDamagedByte
  <2>3. byte \in Byte /\ MaxFaults \in Nat
    BY EduCiaaAssumption
  <2>4. faults' \in 0..MaxFaults
    BY <2>1, <2>3 DEF TypeOK
  <2> QED BY <2>1, <2>2, <2>3, <2>4, AdvanceType, ParseType DEF TypeOK
<1>4. CASE LoseByte
  <2>1. /\ Advance /\ burst' = burst + 1 /\ damaged' = damaged \cup {pk}
        /\ UNCHANGED <<synced, gotAA, idx, p, prev, keys, pedal, sounds, accepted>>
    BY <1>4 DEF LoseByte, parser, synth
  <2>2. \/ faults < MaxFaults /\ faults' = faults + 1
        \/ faults' = faults
    BY <1>4 DEF LoseByte
  <2>3. faults \in 0..MaxFaults /\ MaxFaults \in Nat
    BY EduCiaaAssumption DEF TypeOK
  <2>4. faults' \in 0..MaxFaults
    BY <2>2, <2>3
  <2>5. /\ sent' = sent /\ reboots' = reboots /\ booting' = booting
        /\ pk \in 1..Len(sent)
        /\ pk' \in 1..(Len(sent) + 1) /\ off' \in 0..(SIZE - 1)
        /\ off' # 0 => pk' <= Len(sent)
    BY <2>1, AdvanceType
  <2>6. damaged' \subseteq 1..Len(sent) /\ burst' \in Nat
    BY <2>1, <2>5 DEF TypeOK
  <2> QED BY <2>1, <2>4, <2>5, <2>6 DEF TypeOK
<1>5. CASE Reboot
  <2>1. {} \in Byte
    BY DEF Byte
  <2>2. p' \in Message
    BY <1>5, <2>1 DEF Reboot, Message
  <2>3. reboots' \in 0..MaxReboots
    BY <1>5, EduCiaaAssumption DEF Reboot, TypeOK
  <2>4. damaged' \subseteq 1..Len(sent)
    \* a packet of which a byte has been read is on the line
    BY <1>0, <1>5 DEF Reboot, TypeOK
  <2>5. synced' \in BOOLEAN /\ gotAA' \in BOOLEAN /\ booting' \in BOOLEAN
    BY <1>5, Zenon DEF Reboot, ResetParser
  <2>6. /\ idx' = 0 /\ prev' = NULL
        /\ UNCHANGED <<sent, pk, off, faults, burst, keys, pedal, sounds, accepted>>
    BY <1>5 DEF Reboot, ResetParser
  <2> QED BY <2>2, <2>3, <2>4, <2>5, <2>6 DEF TypeOK, SIZE
<1>6. CASE setupVS1053
  <2>1. booting' \in BOOLEAN /\ pedal' \in BOOLEAN
    BY <1>6, Zenon DEF setupVS1053
  <2>2. keys' \in [Note -> Byte] /\ sounds' \in [Note -> Byte]
    BY <1>6 DEF setupVS1053, Silence, Byte
  <2>3. UNCHANGED <<sent, pk, off, damaged, faults, burst, reboots, synced, gotAA,
                    idx, p, prev, accepted>>
    BY <1>6 DEF setupVS1053, line, parser
  <2> QED BY <2>1, <2>2, <2>3 DEF TypeOK
<1>7. CASE UNCHANGED vars
  BY <1>7 DEF TypeOK, vars, line, parser, synth
<1> QED BY <1>1, <1>2, <1>3, <1>4, <1>5, <1>6, <1>7 DEF Next

\* The program starts well typed.
LEMMA TypeInit == Init => TypeOK
<1> SUFFICES ASSUME Init PROVE TypeOK
  OBVIOUS
<1>1. {} \in Byte
  BY DEF Byte
<1>2. synced \in BOOLEAN /\ gotAA \in BOOLEAN /\ booting \in BOOLEAN /\ pedal \in BOOLEAN
  BY Zenon DEF Init
<1>3. p \in Message /\ keys \in [Note -> Byte] /\ sounds \in [Note -> Byte]
  BY <1>1 DEF Init, Message, Silence
<1>4. faults \in 0..MaxFaults /\ reboots \in 0..MaxReboots
  BY EduCiaaAssumption DEF Init
<1> QED BY <1>2, <1>3, <1>4 DEF Init, TypeOK, SIZE

\* main() never writes outside its packet buffer, never indexes the chord
\* map outside its table, and keeps its place on the line, whatever bytes
\* arrive.
THEOREM TypeCorrect == Spec => []TypeOK
BY TypeInit, TypeStep, PTL DEF Spec

---------------------------------------------------------------------------
(* Resynchronisation. *)

\* The parser has taken in exactly the bytes of the current packet that have
\* been read: it waits for 0xAA, has seen it, or is collecting.
InStep ==
  /\ off = 0 => ~synced
  /\ off = 1 => ~synced /\ gotAA
  /\ off >= 2 => /\ synced
                 /\ idx = off
                 /\ \A i \in 0..(off - 1) : p[i] = sent[pk][i]

\* The parser is out of step in an intact packet.  It is collecting a frame
\* that began in an earlier packet and ends in this one, or that frame has
\* ended and it looks for a 0xAA that this packet no longer holds.
OutOfStep ==
  \/ synced /\ idx >= off + 2
  \/ off >= 1 /\ ~synced /\ ~gotAA

FrameBegun == synced => idx >= 2

\* At the end of an intact packet the parser is never in a frame, so it is
\* in step with the next one.
StepInv ==
  /\ FrameBegun
  /\ pk \notin damaged => InStep \/ OutOfStep
  /\ Clean(pk) => InStep

ResyncInv == TypeOK /\ StepInv /\ CleanAccepted

\* A frame under way holds at least its two header bytes.
LEMMA FrameStep ==
  ASSUME TypeOK, FrameBegun, NEW byte, Parse(byte)
  PROVE  FrameBegun'
<1> USE DEF FrameBegun
<1>1. CASE SearchAA(byte)
  BY <1>1 DEF SearchAA
<1>2. CASE Search55(byte)
  <2>1. ~synced' \/ idx' = 2
    BY <1>2, Zenon DEF Search55
  <2> QED BY <2>1
<1>3. CASE Collect(byte)
  <2>1. synced /\ idx' = idx + 1 /\ idx \in 0..7
    BY <1>3 DEF Collect, TypeOK, SIZE
  <2> QED BY <2>1
<1>4. CASE Reject(byte)
  BY <1>4 DEF Reject, ResetParser
<1>5. CASE Accept(byte)
  BY <1>5 DEF Accept, ResetParser
<1> QED BY <1>1, <1>2, <1>3, <1>4, <1>5 DEF Parse

\* Outside a frame, 0xAA is always taken for the start of one.
LEMMA SeesAA ==
  ASSUME SearchAA(HEADER1) \/ Search55(HEADER1)
  PROVE  ~synced' /\ gotAA'
<1>1. HEADER1 # HEADER2
  BY DEF HEADER1, HEADER2
<1>2. gotAA' = (HEADER1 = HEADER1)
  BY <1>1, Zenon DEF SearchAA, Search55
<1>3. ~synced'
  BY <1>1 DEF SearchAA, Search55
<1> QED BY <1>2, <1>3

\* In step before the last byte of a packet: in step after the next byte.
LEMMA InStepStep ==
  ASSUME TypeOK, InStep, Advance, Parse(sent[pk][off]), off < 7
  PROVE  InStep'
<1> DEFINE m == sent[pk]
<1>1. /\ sent' = sent /\ pk' = pk /\ off' = off + 1 /\ off \in 0..7
      /\ m \in Packet
  BY AdvanceType DEF TypeOK, SIZE
<1>2. /\ m[0] = HEADER1 /\ m[1] = HEADER2
      /\ \A i \in 1..7 : m[i] # HEADER1
  BY <1>1, PacketFacts
<1>3. p \in [0..7 -> Byte] /\ idx \in 0..7
  BY DEF TypeOK, Message, SIZE
<1>4. CASE off = 0
  <2>1. SearchAA(m[0]) \/ Search55(m[0])
    BY <1>4 DEF InStep, Parse, Collect, Reject, Accept
  <2>2. ~synced' /\ gotAA'
    BY <1>2, <2>1, SeesAA
  <2> QED BY <1>1, <1>4, <2>2 DEF InStep
<1>5. CASE off = 1
  <2>1. Search55(m[1])
    BY <1>5 DEF InStep, Parse, SearchAA, Collect, Reject, Accept
  <2>2. /\ synced' /\ idx' = 2
        /\ p' = [p EXCEPT ![0] = HEADER1, ![1] = HEADER2]
    BY <1>2, <2>1 DEF Search55
  <2>3. p'[0] = m[0] /\ p'[1] = m[1]
    BY <1>2, <1>3, <2>2
  <2>4. \A i \in 0..1 : p'[i] = m[i]
    BY <2>3
  <2> QED BY <1>1, <1>5, <2>2, <2>4 DEF InStep
<1>6. CASE off >= 2
  <2>1. synced /\ idx = off /\ \A i \in 0..(off - 1) : p[i] = m[i]
    BY <1>6 DEF InStep
  <2>2. Collect(m[off])
    BY <1>1, <2>1 DEF Parse, SearchAA, Search55, Reject, Accept, SIZE
  <2>3. synced' /\ idx' = off + 1 /\ p' = [p EXCEPT ![off] = m[off]]
    BY <2>1, <2>2 DEF Collect
  <2>4. \A i \in 0..off : p'[i] = m[i]
    BY <1>1, <1>3, <2>1, <2>3
  <2> QED BY <1>1, <1>6, <2>3, <2>4 DEF InStep
<1> QED BY <1>1, <1>4, <1>5, <1>6

\* Out of step before the last byte of an intact packet: the frame goes on,
\* ends, or nothing in the packet starts another one.
LEMMA OutOfStepStep ==
  ASSUME TypeOK, OutOfStep, Advance, Parse(sent[pk][off]), off < 7
  PROVE  OutOfStep'
<1> DEFINE m == sent[pk]
<1>1. /\ sent' = sent /\ pk' = pk /\ off' = off + 1 /\ off \in 0..7
      /\ m \in Packet /\ idx \in 0..7
  BY AdvanceType DEF TypeOK, SIZE
<1>2. \A i \in 1..7 : m[i] # HEADER1
  BY <1>1, PacketFacts
<1>3. CASE synced /\ idx >= off + 2
  <2>1. Collect(m[off]) \/ Reject(m[off]) \/ Accept(m[off])
    BY <1>3 DEF Parse, SearchAA, Search55
  <2>2. \/ synced' /\ idx' = idx + 1
        \/ ~synced' /\ ~gotAA'
    BY <1>3, <2>1 DEF Collect, Reject, Accept, ResetParser
  <2> QED BY <1>1, <1>3, <2>2 DEF OutOfStep
<1>4. CASE off >= 1 /\ ~synced /\ ~gotAA
  <2>1. SearchAA(m[off])
    BY <1>4 DEF Parse, Search55, Collect, Reject, Accept
  <2>2. m[off] # HEADER1
    BY <1>1, <1>2, <1>4
  <2>3. ~synced' /\ ~gotAA'
    BY <1>4, <2>1, <2>2 DEF SearchAA
  <2> QED BY <1>1, <1>4, <2>3 DEF OutOfStep
<1> QED BY <1>3, <1>4 DEF OutOfStep

\* The last byte of an intact packet leaves the parser outside any frame.
LEMMA LastByte ==
  ASSUME TypeOK, InStep \/ OutOfStep, Advance, Parse(sent[pk][off]), off = 7
  PROVE  ~synced'
<1> DEFINE m == sent[pk]
<1>1. m \in Packet /\ idx \in 0..7
  BY AdvanceType DEF TypeOK, SIZE
<1>2. m[7] # HEADER1
  BY <1>1, PacketFacts
<1>3. CASE synced
  <2>1. idx = 7
    BY <1>1, <1>3 DEF InStep, OutOfStep
  <2>2. Reject(m[7]) \/ Accept(m[7])
    BY <1>3, <2>1 DEF Parse, SearchAA, Search55, Collect, SIZE
  <2> QED BY <2>2 DEF Reject, Accept, ResetParser
<1>4. CASE ~synced
  <2>1. ~gotAA
    BY <1>4 DEF InStep, OutOfStep
  <2>2. SearchAA(m[7])
    BY <1>4, <2>1 DEF Parse, Search55, Collect, Reject, Accept
  <2> QED BY <1>4, <2>2 DEF SearchAA
<1> QED BY <1>3, <1>4

\* The last byte of a packet read in step: the packet is accepted as sent.
LEMMA LastByteInStep ==
  ASSUME TypeOK, InStep, Advance, Parse(sent[pk][off]), off = 7
  PROVE  accepted' = Append(accepted,
                            [k |-> pk, boot |-> reboots, msg |-> sent[pk]])
<1> DEFINE m == sent[pk]
           msg == [p EXCEPT ![7] = m[7]]
<1>1. m \in Packet /\ p \in [0..7 -> Byte]
  BY AdvanceType DEF TypeOK, Message, SIZE
<1>2. m \in [0..7 -> Byte] /\ ChecksumOK(m)
  BY <1>1, PacketFacts DEF Message, SIZE
<1>3. synced /\ idx = 7 /\ \A i \in 0..6 : p[i] = m[i]
  BY DEF InStep
<1>4. msg = m
  <2>1. msg \in [0..7 -> Byte]
    BY <1>1, <1>2
  <2>2. \A i \in 0..7 : msg[i] = m[i]
    BY <1>1, <1>3
  <2> QED BY <1>2, <2>1, <2>2
<1>5. Accept(m[7])
  BY <1>2, <1>3, <1>4 DEF Parse, SearchAA, Search55, Collect, Reject, SIZE
<1> QED BY <1>3, <1>4, <1>5 DEF Accept

\* What was accepted stays accepted.
LEMMA AcceptedGrows ==
  ASSUME TypeOK, [Next]_vars
  PROVE  \A j \in 1..Len(accepted) :
           j \in 1..Len(accepted') /\ accepted'[j] = accepted[j]
<1>1. \/ UNCHANGED accepted
      \/ \E r : accepted' = Append(accepted, r)
  BY DEF Next, Transmit, ReadByte, ReadDamagedByte, LoseByte, Reboot, setupVS1053, Parse,
         SearchAA, Search55, Collect, Reject, Accept, vars
<1>2. accepted \in Seq([k : Nat, boot : Nat, msg : Message])
  BY DEF TypeOK
<1>3. CASE UNCHANGED accepted
  BY <1>3
<1>4. ASSUME NEW r, accepted' = Append(accepted, r)
      PROVE  \A j \in 1..Len(accepted) :
               j \in 1..Len(accepted') /\ accepted'[j] = accepted[j]
  BY <1>2, <1>4
<1> QED BY <1>1, <1>3, <1>4

\* Packets on the line stay as they were written, and damage is never undone.
LEMMA LineGrows ==
  ASSUME TypeOK, [Next]_vars
  PROVE  /\ \A k \in 1..Len(sent) : sent'[k] = sent[k]
         /\ damaged \subseteq damaged'
<1>0. sent \in Seq(Packet)
  BY DEF TypeOK
<1>1. CASE Transmit
  BY <1>0, <1>1 DEF Transmit
<1>2. CASE ReadByte
  BY <1>2 DEF ReadByte, Advance
<1>3. CASE ReadDamagedByte
  BY <1>3 DEF ReadDamagedByte, Advance
<1>4. CASE LoseByte
  BY <1>4 DEF LoseByte, Advance
<1>5. CASE Reboot
  BY <1>5 DEF Reboot
<1>6. CASE setupVS1053 \/ UNCHANGED vars
  BY <1>6 DEF setupVS1053, vars, line
<1> QED BY <1>1, <1>2, <1>3, <1>4, <1>5, <1>6 DEF Next

\* A packet cleanly accepted remains so.
LEMMA CleanKept ==
  ASSUME TypeOK, CleanAccepted, [Next]_vars,
         NEW k \in 1..(pk - 1), Clean(k)'
  PROVE  \E j \in 1..Len(accepted') :
           accepted'[j].k = k /\ accepted'[j].msg = sent'[k]
<1>1. Clean(k)
  BY LineGrows DEF Clean
<1>2. PICK j \in 1..Len(accepted) :
        accepted[j].k = k /\ accepted[j].msg = sent[k]
  BY <1>1 DEF CleanAccepted
<1>3. k \in 1..Len(sent)
  BY DEF TypeOK
<1>4. sent'[k] = sent[k]
  BY <1>3, LineGrows
<1>5. j \in 1..Len(accepted') /\ accepted'[j] = accepted[j]
  BY AcceptedGrows
<1> QED BY <1>2, <1>4, <1>5

\* A byte lost or damaged makes its packet unclean, and the next one too.
LEMMA FaultStep ==
  ASSUME TypeOK, CleanAccepted, [Next]_vars, Advance,
         damaged' = damaged \cup {pk}, FrameBegun'
  PROVE  StepInv' /\ CleanAccepted'
<1>1. pk \in Nat \ {0} /\ off \in 0..7
  BY DEF TypeOK, SIZE
<1>2. pk \in damaged'
  OBVIOUS
<1>3. CASE off < 7
  <2>1. pk' = pk
    BY <1>3, AdvanceType
  <2> QED BY <1>1, <1>2, <2>1, CleanKept DEF StepInv, CleanAccepted, Clean
<1>4. CASE off = 7
  <2>1. pk' = pk + 1 /\ off' = 0
    BY <1>4, AdvanceType
  <2>2. InStep' \/ OutOfStep'
    BY <2>1 DEF InStep, OutOfStep, FrameBegun
  <2>3. ~Clean(pk)'
    BY <1>1, <1>2, <2>1 DEF Clean
  <2>4. CleanAccepted'
    BY <1>1, <1>2, <2>1, CleanKept DEF CleanAccepted, Clean
  <2> QED BY <2>2, <2>3, <2>4 DEF StepInv
<1> QED BY <1>1, <1>3, <1>4

\* A byte read as it was written.
LEMMA ReadStep ==
  ASSUME ResyncInv, ReadByte
  PROVE  StepInv' /\ CleanAccepted'
<1> USE DEF ResyncInv
<1>0. [Next]_vars
  BY DEF Next
<1>1. /\ Advance /\ Parse(sent[pk][off])
      /\ damaged' = damaged
  BY DEF ReadByte
<1>2. FrameBegun'
  BY <1>1, FrameStep DEF StepInv
<1>3. pk \in Nat \ {0} /\ off \in 0..7 /\ sent' = sent
  BY <1>1, AdvanceType DEF TypeOK, SIZE
<1>4. CASE off < 7
  <2>1. pk' = pk
    BY <1>1, <1>4, AdvanceType
  <2>2. pk \notin damaged => InStep' \/ OutOfStep'
    BY <1>1, <1>4, InStepStep, OutOfStepStep DEF StepInv
  <2>3. Clean(pk) => InStep'
    BY <1>1, <1>4, InStepStep DEF StepInv
  <2>4. CleanAccepted'
    BY <1>0, <2>1, CleanKept DEF CleanAccepted
  <2> QED BY <1>1, <1>2, <2>1, <2>2, <2>3, <2>4 DEF StepInv, Clean
<1>5. CASE off = 7
  <2>1. pk' = pk + 1 /\ off' = 0
    BY <1>1, <1>5, AdvanceType
  <2>2. pk \notin damaged => ~synced'
    BY <1>1, <1>5, LastByte DEF StepInv
  <2>3. InStep' \/ OutOfStep'
    BY <1>2, <2>1 DEF InStep, OutOfStep, FrameBegun
  <2>4. Clean(pk)' => InStep'
    BY <1>1, <1>3, <2>1, <2>2 DEF Clean, InStep
  <2>5. Clean(pk) => \E j \in 1..Len(accepted') :
                       accepted'[j].k = pk /\ accepted'[j].msg = sent'[pk]
    <3> SUFFICES ASSUME Clean(pk)
                 PROVE  \E j \in 1..Len(accepted') :
                          accepted'[j].k = pk /\ accepted'[j].msg = sent'[pk]
      OBVIOUS
    <3> DEFINE r == [k |-> pk, boot |-> reboots, msg |-> sent[pk]]
    <3>1. accepted' = Append(accepted, r)
      BY <1>1, <1>5, LastByteInStep DEF StepInv
    <3>2. accepted \in Seq([k : Nat, boot : Nat, msg : Message])
      BY DEF TypeOK
    <3>3. r.k = pk /\ r.msg = sent[pk]
      OBVIOUS
    <3> HIDE DEF r
    <3>4. Len(accepted) + 1 \in 1..Len(accepted')
          /\ accepted'[Len(accepted) + 1] = r
      BY <3>1, <3>2
    <3> QED BY <1>3, <3>3, <3>4
  <2>6. CleanAccepted'
    <3> SUFFICES ASSUME NEW k \in 1..pk, Clean(k)'
                 PROVE  \E j \in 1..Len(accepted') :
                          accepted'[j].k = k /\ accepted'[j].msg = sent'[k]
      BY <1>3, <2>1 DEF CleanAccepted
    <3>1. CASE k = pk
      BY <1>1, <2>5, <3>1 DEF Clean
    <3>2. CASE k # pk
      BY <1>0, <1>3, <3>2, CleanKept
    <3> QED BY <3>1, <3>2
  <2> QED BY <1>2, <2>3, <2>4, <2>6 DEF StepInv
<1> QED BY <1>3, <1>4, <1>5

\* Every step of the program and of the line keeps the parser in step.
LEMMA ResyncStep == ResyncInv /\ [Next]_vars => ResyncInv'
<1> SUFFICES ASSUME ResyncInv, [Next]_vars
             PROVE  StepInv' /\ CleanAccepted'
  BY TypeStep DEF ResyncInv
<1> USE DEF ResyncInv
<1>0. pk \in Nat \ {0} /\ off \in 0..7
  BY DEF TypeOK, SIZE
<1>1. CASE Transmit
  <2>1. UNCHANGED <<pk, off, damaged, synced, gotAA, idx, p, accepted>>
    BY <1>1 DEF Transmit, parser
  <2>2. off # 0 => sent'[pk] = sent[pk]
    BY <1>0, LineGrows DEF TypeOK
  <2>3. CleanAccepted'
    BY <2>1, CleanKept DEF CleanAccepted
  <2>4. (InStep => InStep') /\ (OutOfStep => OutOfStep')
    BY <2>1, <2>2 DEF InStep, OutOfStep
  <2> QED BY <2>1, <2>3, <2>4 DEF StepInv, FrameBegun, Clean
<1>2. CASE ReadByte
  BY <1>2, ReadStep
<1>3. CASE ReadDamagedByte
  <2>1. /\ Advance /\ damaged' = damaged \cup {pk}
        /\ \E byte : Parse(byte)
    BY <1>3 DEF ReadDamagedByte
  <2>2. FrameBegun'
    BY <2>1, FrameStep DEF StepInv
  <2> QED BY <2>1, <2>2, FaultStep
<1>4. CASE LoseByte
  <2>1. /\ Advance /\ damaged' = damaged \cup {pk}
        /\ UNCHANGED <<synced, idx>>
    BY <1>4 DEF LoseByte, parser
  <2>2. FrameBegun'
    BY <2>1 DEF StepInv, FrameBegun
  <2> QED BY <2>1, <2>2, FaultStep
<1>5. CASE Reboot
  <2>1. /\ ~synced' /\ ~gotAA' /\ UNCHANGED <<sent, pk, off, accepted>>
        /\ damaged' = IF off = 0 THEN damaged ELSE damaged \cup {pk}
    BY <1>5 DEF Reboot, ResetParser
  <2>2. CleanAccepted'
    BY <2>1, CleanKept DEF CleanAccepted
  <2>3. off = 0 => InStep'
    BY <2>1 DEF InStep
  <2>4. off # 0 => pk \in damaged'
    BY <2>1
  <2> QED BY <1>0, <2>1, <2>2, <2>3, <2>4 DEF StepInv, FrameBegun, Clean
<1>6. CASE setupVS1053 \/ UNCHANGED vars
  <2>1. UNCHANGED <<sent, pk, off, damaged, synced, gotAA, idx, p, accepted>>
    BY <1>6 DEF setupVS1053, vars, line, parser
  <2> QED BY <2>1 DEF StepInv, FrameBegun, Clean, InStep, OutOfStep, CleanAccepted
<1> QED BY <1>1, <1>2, <1>3, <1>4, <1>5, <1>6 DEF Next

\* Nothing is damaged, and no frame under way, when the program starts.
LEMMA ResyncInit == Init => ResyncInv
<1> SUFFICES ASSUME Init PROVE ResyncInv
  OBVIOUS
<1>1. TypeOK
  BY TypeInit
<1>2. CleanAccepted
  BY DEF Init, CleanAccepted
<1>3. StepInv
  BY DEF Init, StepInv, FrameBegun, InStep
<1> QED BY <1>1, <1>2, <1>3 DEF ResyncInv

\* Whatever the line lost or damaged and however often the EDU-CIAA was
\* reset, a packet that arrives intact after an intact one is accepted with
\* its own bytes: main()'s search for 0xAA 0x55 recovers within one packet.
THEOREM CleanIsAccepted == Spec => []CleanAccepted
<1>1. ResyncInv => CleanAccepted
  BY DEF ResyncInv
<1> QED BY <1>1, ResyncInit, ResyncStep, PTL DEF Spec

---------------------------------------------------------------------------
(* What is held down and what sounds. *)

\* The notes of chord b at a velocity, and no other.
ChordKeys(b, velocity) ==
  [n \in Note |-> IF n \in buildTriad(b) THEN velocity \ {7} ELSE {}]

\* The chord of the j-th packet accepted.
ChordOf(j) == obtenerValorBotones(accepted[j].msg)

\* j is the last packet with a chord accepted since boot.
LastPlayed(j) == j \in Played /\ \A i \in Played : i <= j

\* prev of strumChord() is what is held down: nothing yet since boot, or the
\* chord of the last packet that had one.  Packets are accepted only once
\* setupVS1053() has put the pedal down.
SoundInv ==
  /\ \A j \in 1..Len(accepted) : accepted[j].boot <= reboots
  /\ booting => Played = {}
  /\ ~booting => pedal
  /\ Played = {} => prev = NULL
  /\ Played = {} /\ ~booting => keys = Silence
  /\ Played # {} =>
       \E j \in 1..Len(accepted) :
         /\ LastPlayed(j)
         /\ prev = ChordOf(j)
         /\ keys = ChordKeys(ChordOf(j), accepted[j].msg[6])

\* Stopping a chord that is held down alone leaves every key up.
LEMMA StopSilences ==
  ASSUME NEW b \in 0..15, NEW velocity
  PROVE  stopChord(ChordKeys(b, velocity), b) = Silence
<1>1. b # NULL
  BY EduCiaaAssumption
<1>2. ASSUME NEW n \in Note
      PROVE  (IF b # NULL /\ n \in buildTriad(b) THEN {}
              ELSE ChordKeys(b, velocity)[n]) = {}
  BY <1>1 DEF ChordKeys
<1> QED BY <1>2 DEF stopChord, Silence

\* Whatever was held down, after strumChord() exactly the new chord is; what
\* sounded goes on, except that the notes of the new chord are struck.
LEMMA StrumSounds ==
  ASSUME SoundInv, ~booting, NEW b, NEW velocity, strumChord(b, velocity)
  PROVE  /\ keys' = ChordKeys(b, velocity) /\ prev' = b /\ pedal' = pedal
         /\ sounds' = [n \in Note |-> IF n \in buildTriad(b) /\ velocity \ {7} # {}
                                      THEN velocity \ {7} ELSE sounds[n]]
<1>1. stopChord(keys, prev) = Silence
  <2>1. CASE Played = {}
    <3>1. prev = NULL /\ keys = Silence
      BY <2>1 DEF SoundInv
    <3> QED BY <3>1 DEF stopChord, Silence
  <2>2. CASE Played # {}
    <3>1. PICK j : prev = ChordOf(j) /\ keys = ChordKeys(ChordOf(j), accepted[j].msg[6])
      BY <2>2 DEF SoundInv
    <3>2. ChordOf(j) \in 0..15
      BY ValorBotones DEF ChordOf
    <3> QED BY <3>1, <3>2, StopSilences
  <2> QED BY <2>1, <2>2
<1>2. playChord(Silence, b, velocity) = ChordKeys(b, velocity)
  BY DEF playChord, Silence, ChordKeys
<1>3. pedal
  BY DEF SoundInv
<1>4. /\ keys' = ChordKeys(b, velocity) /\ prev' = b /\ pedal' = pedal
      /\ sounds' = Ring(Ring(sounds, Silence), ChordKeys(b, velocity))
  BY <1>1, <1>2 DEF strumChord
<1>5. Ring(sounds, Silence) = [n \in Note |-> sounds[n]]
  BY <1>3 DEF Ring, Silence
<1> DEFINE ss == [n \in Note |-> sounds[n]]
<1>6. Ring(ss, ChordKeys(b, velocity))
        = [n \in Note |-> IF n \in buildTriad(b) /\ velocity \ {7} # {}
                          THEN velocity \ {7} ELSE sounds[n]]
  <2>1. ASSUME NEW n \in Note
        PROVE  (IF ChordKeys(b, velocity)[n] = {} /\ pedal THEN ss[n]
                ELSE ChordKeys(b, velocity)[n])
               = IF n \in buildTriad(b) /\ velocity \ {7} # {}
                 THEN velocity \ {7} ELSE sounds[n]
    <3>1. ChordKeys(b, velocity)[n] = IF n \in buildTriad(b) THEN velocity \ {7} ELSE {}
      BY DEF ChordKeys
    <3>2. ss[n] = sounds[n]
      OBVIOUS
    <3> QED BY <1>3, <3>1, <3>2, Zenon
  <2> HIDE DEF ss
  <2> QED BY <2>1 DEF Ring
<1> QED BY <1>4, <1>5, <1>6

\* Nothing changes in what sounds without an accepted packet, a setup or a reset.
LEMMA SoundKept ==
  ASSUME SoundInv, EveryChordSounds, UNCHANGED <<accepted, reboots, booting, synth>>
  PROVE  SoundInv' /\ EveryChordSounds'
<1>1. UNCHANGED <<prev, keys, pedal, sounds>>
  BY DEF synth
<1>2. Played' = Played /\ \A n : Strikes(n)' = Strikes(n)
  BY DEF Played, Strikes
<1>3. SoundInv'
  BY <1>1, <1>2 DEF SoundInv, LastPlayed, ChordOf
<1>4. EveryChordSounds'
  BY <1>1, <1>2 DEF EveryChordSounds
<1> QED BY <1>3, <1>4

\* An accepted packet is added to those of this boot if it carries a chord.
LEMMA PlayedGrows ==
  ASSUME TypeOK, NEW byte, Accept(byte), UNCHANGED reboots,
         NEW msg, msg = [p EXCEPT ![idx] = byte],
         NEW b, b = obtenerValorBotones(msg)
  PROVE  LET n == Len(accepted) + 1
         IN  /\ n \in Nat /\ Len(accepted) \in Nat
             /\ 1..Len(accepted') = (1..Len(accepted)) \cup {n}
             /\ n \notin 1..Len(accepted)
             /\ \A j \in 1..Len(accepted) : accepted'[j] = accepted[j]
             /\ accepted'[n].boot = reboots
             /\ accepted'[n].msg = msg
             /\ Played' = Played \cup (IF buttonChordMap[b].tipo # CHORD_NONE
                                       THEN {n} ELSE {})
             /\ \/ buttonChordMap[b].tipo # CHORD_NONE /\ strumChord(b, msg[6])
                \/ buttonChordMap[b].tipo = CHORD_NONE /\ UNCHANGED synth
<1> DEFINE r == [k |-> pk, boot |-> reboots, msg |-> msg]
<1>0. /\ accepted \in Seq([k : Nat, boot : Nat, msg : Message])
      /\ Len(accepted) \in Nat
  BY DEF TypeOK
<1>1. /\ accepted' = Append(accepted, r)
      /\ \/ buttonChordMap[b].tipo # CHORD_NONE /\ strumChord(b, msg[6])
         \/ buttonChordMap[b].tipo = CHORD_NONE /\ UNCHANGED synth
  BY DEF Accept
<1>2. r.boot = reboots /\ r.msg = msg
  OBVIOUS
<1>n. PICK n \in Nat : n = Len(accepted) + 1
  BY <1>0
<1> HIDE DEF r
<1>3. /\ Len(accepted') = n
      /\ \A j \in 1..Len(accepted) : accepted'[j] = accepted[j]
      /\ accepted'[n] = r
  BY <1>0, <1>1, <1>n
<1>4. obtenerValorBotones(accepted'[n].msg) = b
  BY <1>2, <1>3
<1>5. 1..Len(accepted') = (1..Len(accepted)) \cup {n} /\ n \notin 1..Len(accepted)
  BY <1>0, <1>3, <1>n
<1>6. accepted'[n].boot = reboots'
  BY <1>2, <1>3
<1>7. Played' = Played \cup (IF buttonChordMap[b].tipo # CHORD_NONE THEN {n} ELSE {})
  BY <1>3, <1>4, <1>5, <1>6 DEF Played
<1> QED BY <1>0, <1>1, <1>2, <1>3, <1>5, <1>7, <1>n

\* An accepted packet with a chord is the last one played; one without a
\* chord leaves what is held down.
LEMMA SoundAccept ==
  ASSUME TypeOK, SoundInv, NEW byte, Accept(byte), ~booting, UNCHANGED <<reboots, booting>>
  PROVE  SoundInv'
<1>m. PICK msg : msg = [p EXCEPT ![idx] = byte]
  OBVIOUS
<1>b. PICK b : b = obtenerValorBotones(msg)
  OBVIOUS
<1>n. PICK n : n = Len(accepted) + 1
  OBVIOUS
<1>0. reboots \in Nat
  BY EduCiaaAssumption DEF TypeOK
<1>1. /\ n \in Nat /\ Len(accepted) \in Nat
      /\ 1..Len(accepted') = (1..Len(accepted)) \cup {n}
      /\ \A j \in 1..Len(accepted) : accepted'[j] = accepted[j]
      /\ accepted'[n].boot = reboots
      /\ accepted'[n].msg = msg
      /\ Played' = Played \cup (IF buttonChordMap[b].tipo # CHORD_NONE THEN {n} ELSE {})
      /\ \/ buttonChordMap[b].tipo # CHORD_NONE /\ strumChord(b, msg[6])
         \/ buttonChordMap[b].tipo = CHORD_NONE /\ UNCHANGED synth
  BY <1>m, <1>b, <1>n, PlayedGrows
<1>2. \A j \in 1..Len(accepted') : accepted'[j].boot <= reboots'
  <2>1. accepted'[n].boot <= reboots'
    BY <1>0, <1>1
  <2>2. ASSUME NEW j \in 1..Len(accepted) PROVE accepted'[j].boot <= reboots'
    BY <1>1 DEF SoundInv
  <2> QED BY <1>1, <2>1, <2>2
<1>3. CASE buttonChordMap[b].tipo # CHORD_NONE
  <2>1. keys' = ChordKeys(b, msg[6]) /\ prev' = b /\ pedal' = pedal
    BY <1>1, <1>3, StrumSounds
  <2>2. Played' = Played \cup {n}
    BY <1>1, <1>3
  <2>3. LastPlayed(n)'
    <3>1. \A i \in Played : i <= n
      BY <1>1, <1>n DEF Played
    <3> QED BY <1>1, <2>2, <3>1 DEF LastPlayed
  <2>4. ChordOf(n)' = b
    BY <1>1, <1>b DEF ChordOf
  <2>5. \E j \in 1..Len(accepted') :
          /\ LastPlayed(j)'
          /\ prev' = ChordOf(j)'
          /\ keys' = ChordKeys(ChordOf(j)', accepted'[j].msg[6])
    BY <1>1, <2>1, <2>3, <2>4
  <2> QED BY <1>2, <2>1, <2>2, <2>5 DEF SoundInv
<1>4. CASE buttonChordMap[b].tipo = CHORD_NONE
  <2>1. Played' = Played /\ keys' = keys /\ prev' = prev /\ pedal' = pedal
    BY <1>1, <1>4 DEF synth
  <2>2. ASSUME Played # {}
        PROVE  \E j \in 1..Len(accepted') :
                 /\ LastPlayed(j)'
                 /\ prev' = ChordOf(j)'
                 /\ keys' = ChordKeys(ChordOf(j)', accepted'[j].msg[6])
    <3>1. PICK j \in 1..Len(accepted) :
            /\ LastPlayed(j)
            /\ prev = ChordOf(j)
            /\ keys = ChordKeys(ChordOf(j), accepted[j].msg[6])
      BY <2>2 DEF SoundInv
    <3>2. accepted'[j] = accepted[j] /\ j \in 1..Len(accepted')
      BY <1>1
    <3>3. LastPlayed(j)' /\ ChordOf(j)' = ChordOf(j)
      BY <2>1, <3>1, <3>2 DEF LastPlayed, ChordOf
    <3> QED BY <2>1, <3>1, <3>2, <3>3
  <2> QED BY <1>2, <2>1, <2>2 DEF SoundInv
<1> QED BY <1>3, <1>4

\* It is also the last one to have struck the notes it strikes, and strikes no
\* other.
LEMMA StrikeAccept ==
  ASSUME TypeOK, SoundInv, EveryChordSounds, NEW byte, Accept(byte), ~booting,
         UNCHANGED <<reboots, booting>>
  PROVE  EveryChordSounds'
<1>m. PICK msg : msg = [p EXCEPT ![idx] = byte]
  OBVIOUS
<1>b. PICK b : b = obtenerValorBotones(msg)
  OBVIOUS
<1>n. PICK n : n = Len(accepted) + 1
  OBVIOUS
<1>1. /\ n \in Nat /\ Len(accepted) \in Nat
      /\ n \notin 1..Len(accepted)
      /\ \A j \in 1..Len(accepted) : accepted'[j] = accepted[j]
      /\ accepted'[n].msg = msg
      /\ Played' = Played \cup (IF buttonChordMap[b].tipo # CHORD_NONE THEN {n} ELSE {})
      /\ \/ buttonChordMap[b].tipo # CHORD_NONE /\ strumChord(b, msg[6])
         \/ buttonChordMap[b].tipo = CHORD_NONE /\ UNCHANGED synth
  BY <1>m, <1>b, <1>n, PlayedGrows
<1>2. Played \subseteq 1..Len(accepted)
  BY DEF Played
<1> DEFINE struck(q) == /\ buttonChordMap[b].tipo # CHORD_NONE
                        /\ q \in buildTriad(b)
                        /\ msg[6] \ {7} # {}
<1>3. ASSUME NEW q \in Note
      PROVE  sounds'[q] = IF struck(q) THEN msg[6] \ {7} ELSE sounds[q]
  <2>1. CASE buttonChordMap[b].tipo # CHORD_NONE
    <3>1. sounds' = [m \in Note |-> IF m \in buildTriad(b) /\ msg[6] \ {7} # {}
                                    THEN msg[6] \ {7} ELSE sounds[m]]
      BY <1>1, <2>1, StrumSounds
    <3> QED BY <2>1, <3>1
  <2>2. CASE buttonChordMap[b].tipo = CHORD_NONE
    BY <1>1, <2>2 DEF synth
  <2> QED BY <2>1, <2>2
<1>4. ASSUME NEW q \in Note
      PROVE  Strikes(q)' = Strikes(q) \cup (IF struck(q) THEN {n} ELSE {})
  <2>1. \A j \in Played : accepted'[j] = accepted[j]
    BY <1>1, <1>2
  <2>2. n \notin Played
    BY <1>1, <1>2
  <2>3. obtenerValorBotones(accepted'[n].msg) = b
    BY <1>1, <1>b
  <2>4. CASE buttonChordMap[b].tipo # CHORD_NONE
    <3>1. Played' = Played \cup {n}
      BY <1>1, <2>4
    <3> QED BY <1>1, <2>1, <2>3, <2>4, <3>1 DEF Strikes
  <2>5. CASE buttonChordMap[b].tipo = CHORD_NONE
    <3>1. Played' = Played
      BY <1>1, <2>5
    <3> QED BY <2>1, <2>5, <3>1 DEF Strikes
  <2> QED BY <2>4, <2>5
<1>5. SUFFICES ASSUME NEW q \in Note
               PROVE  \/ Strikes(q)' = {} /\ sounds'[q] = {}
                      \/ \E j \in Strikes(q)' :
                           /\ \A i \in Strikes(q)' : i <= j
                           /\ sounds'[q] = accepted'[j].msg[6] \ {7}
  BY DEF EveryChordSounds
<1>6. Strikes(q) \subseteq 1..Len(accepted)
  BY <1>2 DEF Strikes
<1>7. CASE struck(q)
  <2>1. Strikes(q)' = Strikes(q) \cup {n} /\ sounds'[q] = msg[6] \ {7}
    BY <1>3, <1>4, <1>7
  <2>2. \A i \in Strikes(q)' : i <= n
    BY <1>1, <1>6, <1>n, <2>1
  <2> QED BY <1>1, <2>1, <2>2
<1>8. CASE ~struck(q)
  <2>1. Strikes(q)' = Strikes(q) /\ sounds'[q] = sounds[q]
    BY <1>3, <1>4, <1>8
  <2>2. \/ Strikes(q) = {} /\ sounds[q] = {}
        \/ \E j \in Strikes(q) : /\ \A i \in Strikes(q) : i <= j
                                 /\ sounds[q] = accepted[j].msg[6] \ {7}
    BY DEF EveryChordSounds
  <2>3. \A j \in Strikes(q) : accepted'[j] = accepted[j]
    BY <1>1, <1>6
  <2> HIDE DEF struck
  <2> QED BY <2>1, <2>2, <2>3
<1> QED BY <1>7, <1>8

\* Every step keeps what is held down, and what sounds, in line with what was
\* accepted.
LEMMA SoundStep ==
  ASSUME TypeOK, SoundInv, EveryChordSounds, [Next]_vars
  PROVE  SoundInv' /\ EveryChordSounds'
<1>1. ASSUME NEW byte, Parse(byte), Advance, ~booting PROVE SoundInv' /\ EveryChordSounds'
  <2>1. UNCHANGED <<reboots, booting>>
    BY <1>1 DEF Advance
  <2>2. CASE Accept(byte)
    BY <1>1, <2>1, <2>2, SoundAccept, StrikeAccept
  <2>3. CASE SearchAA(byte) \/ Search55(byte) \/ Collect(byte) \/ Reject(byte)
    <3>1. UNCHANGED <<accepted, synth>>
      BY <2>3 DEF SearchAA, Search55, Collect, Reject
    <3> QED BY <2>1, <3>1, SoundKept
  <2> QED BY <1>1, <2>2, <2>3 DEF Parse
<1>2. CASE ReadByte
  BY <1>1, <1>2 DEF ReadByte
<1>3. CASE ReadDamagedByte
  BY <1>1, <1>3 DEF ReadDamagedByte
<1>4. CASE Transmit \/ LoseByte
  <2>1. UNCHANGED <<accepted, reboots, booting, synth>>
    BY <1>4 DEF Transmit, LoseByte, Advance
  <2> QED BY <2>1, SoundKept
<1>5. CASE Reboot
  <2>1. /\ reboots' = reboots + 1 /\ accepted' = accepted
        /\ booting' = TRUE /\ prev' = NULL
    BY <1>5 DEF Reboot
  <2>2. reboots \in Nat /\ \A j \in 1..Len(accepted) : accepted[j].boot \in Nat
    <3> DEFINE R == [k : Nat, boot : Nat, msg : Message]
    <3>1. /\ accepted \in Seq(R)
          /\ reboots \in 0..MaxReboots /\ MaxReboots \in Nat
      BY EduCiaaAssumption DEF TypeOK
    <3>2. \A r \in R : r.boot \in Nat
      OBVIOUS
    <3> HIDE DEF R
    <3>3. \A j \in 1..Len(accepted) : accepted[j] \in R
      BY <3>1
    <3> QED BY <3>1, <3>2, <3>3
  <2>3. \A j \in 1..Len(accepted) :
          accepted[j].boot <= reboots' /\ accepted[j].boot # reboots'
    BY <2>1, <2>2 DEF SoundInv
  <2>4. Played' = {}
    BY <2>1, <2>3 DEF Played
  <2> QED BY <2>1, <2>3, <2>4 DEF SoundInv, EveryChordSounds
<1>6. CASE setupVS1053
  <2>1. /\ booting /\ keys' = Silence /\ sounds' = Silence /\ pedal' = TRUE
        /\ booting' = FALSE
        /\ UNCHANGED <<accepted, reboots, prev>>
    BY <1>6 DEF setupVS1053, line
  <2>2. Played' = {} /\ prev' = NULL
    BY <2>1 DEF SoundInv, Played
  <2>3. SoundInv'
    BY <2>1, <2>2 DEF SoundInv
  <2>4. ASSUME NEW n \in Note PROVE Strikes(n)' = {} /\ sounds'[n] = {}
    BY <2>1, <2>2 DEF Strikes, Silence
  <2> QED BY <2>3, <2>4 DEF EveryChordSounds
<1>7. CASE UNCHANGED vars
  BY <1>7, SoundKept DEF vars, line
<1> QED BY <1>2, <1>3, <1>4, <1>5, <1>6, <1>7 DEF Next

\* Nothing is held down and nothing sounds when the program starts.
LEMMA SoundInit == Init => TypeOK /\ SoundInv /\ EveryChordSounds
<1> SUFFICES ASSUME Init PROVE SoundInv /\ EveryChordSounds
  BY TypeInit
<1>1. accepted = << >> /\ prev = NULL /\ booting = TRUE
  BY DEF Init
<1>2. 1..Len(accepted) = {} /\ Played = {}
  BY <1>1 DEF Played
<1> QED BY <1>1, <1>2 DEF SoundInv, EveryChordSounds

\* Whatever packets main() accepts, in whatever order and with whatever
\* resets, the keys that are down are those of the last chord accepted since
\* boot, at its velocity: strumChord() leaves no old key down and releases no
\* shared one, and setupVS1053() clears what the program before a reset left.
THEOREM LastChordKeys == Spec => []KeysAreLastChord
<1>1. TypeOK /\ SoundInv => KeysAreLastChord
  <2> SUFFICES ASSUME TypeOK, SoundInv PROVE KeysAreLastChord
    OBVIOUS
  <2>1. CASE Played = {}
    BY <2>1 DEF SoundInv, KeysAreLastChord
  <2>2. CASE Played # {}
    <3> DEFINE last == CHOOSE j \in Played : \A i \in Played : i <= j
    <3>1. PICK j \in 1..Len(accepted) :
            LastPlayed(j) /\ keys = ChordKeys(ChordOf(j), accepted[j].msg[6])
      BY <2>2 DEF SoundInv
    <3>2. last \in Played /\ \A i \in Played : i <= last
      BY <3>1 DEF LastPlayed
    <3> HIDE DEF last
    <3>3. Played \subseteq Nat
      BY DEF Played
    <3>4. last = j
      BY <3>1, <3>2, <3>3 DEF LastPlayed
    <3>5. keys = ChordKeys(obtenerValorBotones(accepted[last].msg), accepted[last].msg[6])
      BY <3>1, <3>4 DEF ChordOf
    <3> QED BY <2>2, <3>5 DEF last, ChordKeys, KeysAreLastChord
  <2> QED BY <2>1, <2>2
<1>2. TypeOK /\ SoundInv /\ EveryChordSounds /\ [Next]_vars
        => TypeOK' /\ SoundInv' /\ EveryChordSounds'
  BY TypeStep, SoundStep
<1> QED BY <1>1, <1>2, SoundInit, PTL DEF Spec

\* With the pedal that setupVS1053() leaves down, every note of every chord
\* accepted since boot goes on sounding, at the velocity it was last struck
\* with, and nothing else does: no NOTE OFF of stopChord() ends one.
THEOREM AllChordsSound == Spec => []EveryChordSounds
<1>1. TypeOK /\ SoundInv /\ EveryChordSounds /\ [Next]_vars
        => TypeOK' /\ SoundInv' /\ EveryChordSounds'
  BY TypeStep, SoundStep
<1> QED BY <1>1, SoundInit, PTL DEF Spec

---------------------------------------------------------------------------
(* Faults on the line, apart from each other. *)

\* A bit of a checksum: none of the bytes has it, or exactly one has.
LEMMA NoBit ==
  ASSUME NEW m, NEW n, \A i \in 2..6 : n \notin m[i]
  PROVE  n \notin Checksum(m)
<1>1. n \notin m[2] /\ n \notin m[3] /\ n \notin m[4] /\ n \notin m[5] /\ n \notin m[6]
  OBVIOUS
<1> QED BY <1>1 DEF Checksum, Xor

LEMMA OneBit ==
  ASSUME NEW m, NEW n, NEW j \in 2..6, n \in m[j],
         \A i \in (2..6) \ {j} : n \notin m[i]
  PROVE  n \in Checksum(m)
<1>1. j = 2 \/ j = 3 \/ j = 4 \/ j = 5 \/ j = 6
  OBVIOUS
<1>2. \A i \in {2, 3, 4, 5, 6} : i # j => n \notin m[i]
  OBVIOUS
<1>3. 2 # 3 /\ 2 # 4 /\ 2 # 5 /\ 2 # 6 /\ 3 # 4 /\ 3 # 5 /\ 3 # 6 /\ 4 # 5 /\ 4 # 6 /\ 5 # 6
  OBVIOUS
<1>4. CASE j = 2
  BY <1>2, <1>4 DEF Checksum, Xor
<1>5. CASE j = 3
  BY <1>2, <1>5 DEF Checksum, Xor
<1>6. CASE j = 4
  BY <1>2, <1>6 DEF Checksum, Xor
<1>7. CASE j = 5
  BY <1>2, <1>7 DEF Checksum, Xor
<1>8. CASE j = 6
  BY <1>2, <1>8 DEF Checksum, Xor
<1> QED BY <1>1, <1>4, <1>5, <1>6, <1>7, <1>8

\* A sum tells one changed term.
LEMMA XorDiffers ==
  ASSUME NEW a, NEW b, NEW c, a # b
  PROVE  Xor(a, c) # Xor(b, c) /\ Xor(c, a) # Xor(c, b)
<1>1. PICK x : (x \in a /\ x \notin b) \/ (x \in b /\ x \notin a)
  OBVIOUS
<1>2. \A y, z : (x \in Xor(y, z)) <=> ~((x \in y) <=> (x \in z))
  BY DEF Xor
<1> QED BY <1>1, <1>2, Zenon

LEMMA ChecksumDiffers ==
  ASSUME NEW m, NEW q, NEW j \in 2..6, m[j] # q[j],
         \A i \in (2..6) \ {j} : m[i] = q[i]
  PROVE  Checksum(m) # Checksum(q)
<1>1. j = 2 \/ j = 3 \/ j = 4 \/ j = 5 \/ j = 6
  OBVIOUS
<1>2. \A i \in {2, 3, 4, 5, 6} : i # j => m[i] = q[i]
  OBVIOUS
<1>3. 2 # 3 /\ 2 # 4 /\ 2 # 5 /\ 2 # 6 /\ 3 # 4 /\ 3 # 5 /\ 3 # 6 /\ 4 # 5 /\ 4 # 6 /\ 5 # 6
  OBVIOUS
<1>4. CASE j = 2
  BY <1>2, <1>4, XorDiffers DEF Checksum
<1>5. CASE j = 3
  BY <1>2, <1>5, XorDiffers DEF Checksum
<1>6. CASE j = 4
  BY <1>2, <1>6, XorDiffers DEF Checksum
<1>7. CASE j = 5
  BY <1>2, <1>7, XorDiffers DEF Checksum
<1>8. CASE j = 6
  BY <1>2, <1>8, XorDiffers DEF Checksum
<1> QED BY <1>1, <1>4, <1>5, <1>6, <1>7, <1>8

\* The bits that tell the bytes of a packet apart: after the header no byte has
\* bit 7 or 2, and bit 4 is in the velocity and the checksum only.
LEMMA PacketBits ==
  ASSUME NEW m \in Packet
  PROVE  /\ \A i \in 2..7 : 7 \notin m[i] /\ 2 \notin m[i]
         /\ \A i \in 2..5 : 4 \notin m[i]
         /\ 4 \in m[7] /\ Checksum(m) = m[7]
         /\ 7 \in m[0] /\ 7 \notin m[1] /\ 2 \in m[1]
         /\ \A i \in 0..7 : (m[i] = HEADER1 => i = 0) /\ (m[i] = HEADER2 => i = 1)
<1>1. ASSUME NEW mask, NEW velocity \in Velocity
      PROVE  LET q == sendPacket(mask, velocity)
             IN  /\ q[0] = HEADER1 /\ q[1] = HEADER2
                 /\ q[2] \in {{}, {0}} /\ q[3] \in {{}, {0}}
                 /\ q[4] \in {{}, {0}} /\ q[5] \in {{}, {0}}
                 /\ q[6] \in Velocity /\ q[7] = Checksum(q)
  BY PacketBytes
<1>2. /\ m[0] = HEADER1 /\ m[1] = HEADER2
      /\ m[2] \in {{}, {0}} /\ m[3] \in {{}, {0}} /\ m[4] \in {{}, {0}} /\ m[5] \in {{}, {0}}
      /\ m[6] \in Velocity /\ m[7] = Checksum(m)
  BY <1>1 DEF Packet
<1>3. 4 \in m[6] /\ 7 \notin m[6] /\ 2 \notin m[6]
  BY <1>2 DEF Velocity, VEL_NORMAL, VEL_FUERTE
<1>4. \A i \in 2..5 : 7 \notin m[i] /\ 2 \notin m[i] /\ 4 \notin m[i]
  <2> TAKE i \in 2..5
  <2>1. i = 2 \/ i = 3 \/ i = 4 \/ i = 5
    OBVIOUS
  <2>2. \A s \in {{}, {0}} : 7 \notin s /\ 2 \notin s /\ 4 \notin s
    OBVIOUS
  <2> QED BY <1>2, <2>1, <2>2, Zenon
<1>5. 4 \in m[7] /\ 7 \notin m[7] /\ 2 \notin m[7]
  <2>1. \A i \in 2..6 : i = 6 \/ i \in 2..5
    OBVIOUS
  <2>2. \A i \in (2..6) \ {6} : i \in 2..5
    OBVIOUS
  <2>3. 4 \in Checksum(m)
    BY <1>3, <1>4, <2>2, OneBit
  <2>4. 7 \notin Checksum(m) /\ 2 \notin Checksum(m)
    BY <1>3, <1>4, <2>1, NoBit
  <2> QED BY <1>2, <2>3, <2>4
<1>6. 7 \in HEADER1 /\ 7 \notin HEADER2 /\ 2 \in HEADER2 /\ HEADER1 # HEADER2
  BY DEF HEADER1, HEADER2
<1>7. \A i \in 2..7 : 7 \notin m[i] /\ 2 \notin m[i]
  <2>1. \A i \in 2..7 : i = 7 \/ i = 6 \/ i \in 2..5
    OBVIOUS
  <2> QED BY <1>3, <1>4, <1>5, <2>1, Zenon
<1>8. \A i \in 0..7 : (m[i] = HEADER1 => i = 0) /\ (m[i] = HEADER2 => i = 1)
  <2> TAKE i \in 0..7
  <2>1. i = 0 \/ i = 1 \/ i \in 2..7
    OBVIOUS
  <2> QED BY <1>2, <1>6, <1>7, <2>1, Zenon
<1> QED BY <1>2, <1>4, <1>5, <1>6, <1>7, <1>8

\* The frame's content so far, up to position n, is that of one packet.
Own(n) == \E m \in Packet : \A i \in 2..(n - 1) : p[i] = m[i]

\* No frame is under way.  Until a byte is damaged or lost, 0xAA comes first
\* in a packet.
Searching == ~synced /\ (faults = 0 /\ gotAA => off = 1)

\* The frame is the packet on the line, up to the next byte.
Following ==
  /\ idx = off /\ burst = 0
  /\ \A i \in 0..(off - 1) : p[i] = sent[pk][i]

\* One byte of the frame has been damaged.
Altered ==
  /\ idx = off /\ burst = 0
  /\ \E j \in 2..(off - 1) : /\ p[j] # sent[pk][j]
                             /\ \A i \in (2..(off - 1)) \ {j} : p[i] = sent[pk][i]

\* The frame has missed d bytes of the packet it began in.
Short(d) ==
  /\ off = idx + d
  /\ burst # 0 => burst = d /\ Own(idx)
  /\ \A i \in 2..(idx - 1) : 7 \notin p[i]

\* It goes on in the next packet: 0xAA is at position SIZE - d, or comes next.
Spliced(d) ==
  /\ off + SIZE = idx + d
  /\ burst # 0 => burst = d /\ off = 0 /\ Own(idx)
  /\ \A i \in 2..(idx - 1) : (7 \in p[i]) <=> (i = SIZE - d)

\* It goes on in the next packet, whose 0xAA is among the bytes missed; if it
\* lacked two bytes, the first of them is now 0x55.
Headless ==
  \/ idx = 7 /\ burst \in 2..3 /\ off = burst - 1 /\ Own(7)
  \/ idx = 6 /\ burst = 3 /\ off = 1 /\ Own(6)
  \/ idx = 7 /\ burst = 0 /\ off = 2 /\ 2 \in p[6] /\ \A i \in 2..5 : 2 \notin p[i]

\* The byte before the next one was in a damaged packet.
Touched == (IF off = 0 THEN pk - 1 ELSE pk) \in damaged

\* A run of lost bytes leaves its mark on the line.
BurstInv == burst # 0 => faults # 0 /\ Touched

\* 0xAA has been seen in its place, or there has been a fault just before.
SearchInv ==
  /\ synced => ~gotAA
  /\ gotAA => off = 1 \/ Touched

FrameInv ==
  \/ Searching
  \/ /\ synced /\ idx >= 2
     /\ \/ Following
        \/ faults # 0 /\ (Altered \/ Headless \/ \E d \in 1..3 : Short(d) \/ Spliced(d))

\* Packets are accepted one after the other, each before the next one begins.
AcceptedInv ==
  \A j \in 1..Len(accepted) : accepted[j].k \in 1..(pk - 1)

\* The faults the checksum is for: runs of at most three lost bytes, and after
\* the first fault each begins in a packet that has been intact so far and
\* follows an intact one.
ShortRuns == MaxBurst <= 3

FaultsApart == faults' # faults => faults = 0 \/ Clean(pk)

ApartInv == ResyncInv /\ FrameInv /\ BurstInv /\ SearchInv /\ AcceptedInv

\* A byte in a frame: the frame grows, or it is checked and given up or taken.
LEMMA FrameByte ==
  ASSUME TypeOK, synced, NEW byte, Parse(byte)
  PROVE  LET msg == [p EXCEPT ![idx] = byte]
         IN  /\ msg[idx] = byte /\ \A i \in (0..7) \ {idx} : msg[i] = p[i]
             /\ idx < 7 => /\ synced' /\ idx' = idx + 1 /\ p' = msg
                           /\ accepted' = accepted
             /\ idx = 7 => /\ ~synced' /\ ~gotAA'
                           /\ Checksum(msg) # byte => accepted' = accepted
<1> DEFINE msg == [p EXCEPT ![idx] = byte]
<1>1. p \in [0..7 -> Byte] /\ idx \in 0..7
  BY DEF TypeOK, Message, SIZE
<1>2. msg[idx] = byte /\ \A i \in (0..7) \ {idx} : msg[i] = p[i]
  BY <1>1
<1>3. Collect(byte) \/ Reject(byte) \/ Accept(byte)
  BY DEF Parse, SearchAA, Search55
<1>4. CASE idx < 7
  <2>1. Collect(byte)
    BY <1>1, <1>3, <1>4 DEF Reject, Accept, SIZE
  <2> QED BY <1>2, <1>4, <2>1 DEF Collect
<1>5. CASE idx = 7
  <2>1. Reject(byte) \/ Accept(byte)
    BY <1>3, <1>5 DEF Collect, SIZE
  <2>2. ~synced' /\ ~gotAA'
    BY <2>1 DEF Reject, Accept, ResetParser
  <2>3. Checksum(msg) # byte => accepted' = accepted
    <3>1. msg[SIZE - 1] = byte
      BY <1>2, <1>5 DEF SIZE
    <3>2. Checksum(msg) # byte => ~ChecksumOK(msg)
      BY <3>1, Zenon DEF ChecksumOK
    <3> QED BY <2>1, <3>2, Zenon DEF Reject, Accept
  <2> QED BY <1>2, <1>5, <2>2, <2>3
<1> QED BY <1>1, <1>2, <1>4, <1>5

\* The bytes that are read: where they are in their packet, and in the line.
LEMMA ByteRead ==
  ASSUME TypeOK, Advance
  PROVE  /\ sent[pk] \in Packet /\ sent' = sent /\ reboots' = reboots
         /\ pk \in Nat /\ idx \in 0..7 /\ off \in 0..7 /\ burst \in Nat /\ faults \in Nat
         /\ off < 7 => off' = off + 1 /\ pk' = pk
         /\ off = 7 => off' = 0 /\ pk' = pk + 1
BY AdvanceType, EduCiaaAssumption DEF TypeOK, SIZE

\* Outside a frame only 0xAA followed by 0x55 begins one.
LEMMA SearchByte ==
  ASSUME TypeOK, ~synced, NEW byte, Parse(byte)
  PROVE  /\ accepted' = accepted
         /\ \/ ~synced' /\ gotAA' = (byte = HEADER1)
            \/ /\ gotAA /\ byte = HEADER2 /\ synced' /\ idx' = 2
               /\ p'[0] = HEADER1 /\ p'[1] = HEADER2
<1>1. SearchAA(byte) \/ Search55(byte)
  BY DEF Parse, Collect, Reject, Accept
<1>2. CASE SearchAA(byte)
  BY <1>2, Zenon DEF SearchAA
<1>3. CASE Search55(byte) /\ byte # HEADER2
  <2>1. gotAA' = (byte = HEADER1)
    BY <1>3, Zenon DEF Search55
  <2>2. accepted' = accepted /\ ~synced'
    BY <1>3 DEF Search55, synth
  <2> QED BY <2>1, <2>2, Zenon
<1>4. CASE Search55(byte) /\ byte = HEADER2
  <2>1. p \in [0..7 -> Byte]
    BY DEF TypeOK, Message, SIZE
  <2>2. /\ accepted' = accepted /\ gotAA /\ synced' /\ idx' = 2
        /\ p' = [p EXCEPT ![0] = HEADER1, ![1] = HEADER2]
    BY <1>4, Zenon DEF Search55
  <2>3. p'[0] = HEADER1 /\ p'[1] = HEADER2
    BY <2>1, <2>2
  <2> QED BY <1>4, <2>2, <2>3, Zenon
<1> QED BY <1>1, <1>2, <1>3, <1>4, Zenon

\* A byte that arrives as it was written, outside a frame.
LEMMA ReadSearching ==
  ASSUME TypeOK, Searching, Advance, Parse(sent[pk][off]), burst' = 0, faults' = faults
  PROVE  FrameInv' /\ accepted' = accepted
<1> DEFINE m == sent[pk]
<1>1. /\ m \in Packet /\ sent' = sent /\ off \in 0..7
      /\ off < 7 => off' = off + 1 /\ pk' = pk
  BY ByteRead
<1>2. /\ \A i \in 0..7 : (m[i] = HEADER1 => i = 0) /\ (m[i] = HEADER2 => i = 1)
      /\ m[0] = HEADER1 /\ m[1] = HEADER2
  BY <1>1, PacketBits, PacketFacts
<1> HIDE DEF m
<1>3. /\ accepted' = accepted
      /\ \/ ~synced' /\ gotAA' = (m[off] = HEADER1)
         \/ /\ m[off] = HEADER2 /\ synced' /\ idx' = 2
            /\ p'[0] = HEADER1 /\ p'[1] = HEADER2
  BY SearchByte DEF Searching, m
<1>4. CASE ~synced' /\ gotAA' = (m[off] = HEADER1)
  <2>1. gotAA' => off = 0
    BY <1>1, <1>2, <1>4, Zenon
  <2>2. gotAA' => off' = 1
    BY <1>1, <2>1
  <2> QED BY <1>3, <1>4, <2>2 DEF FrameInv, Searching
<1>5. CASE /\ m[off] = HEADER2 /\ synced' /\ idx' = 2
           /\ p'[0] = HEADER1 /\ p'[1] = HEADER2
  <2>1. off = 1
    BY <1>1, <1>2, <1>5, Zenon
  <2>2. off' = 2 /\ sent'[pk'] = m
    BY <1>1, <2>1 DEF m
  <2>3. \A i \in 0..(2 - 1) : i = 0 \/ i = 1
    OBVIOUS
  <2>4. \A i \in 0..(off' - 1) : p'[i] = sent'[pk'][i]
    BY <1>2, <1>5, <2>2, <2>3
  <2> QED BY <1>3, <1>5, <2>2, <2>4 DEF FrameInv, Following
<1> QED BY <1>3, <1>4, <1>5

\* The next byte of the packet in the frame: the last one completes it.
LEMMA ReadFollowing ==
  ASSUME TypeOK, synced, idx >= 2, Following, Advance, Parse(sent[pk][off]),
         burst' = 0, faults' = faults
  PROVE  /\ FrameInv'
         /\ \/ accepted' = accepted
            \/ accepted' = Append(accepted, [k |-> pk, boot |-> reboots, msg |-> sent[pk]])
               /\ off = 7
<1>1. InStep /\ idx = off /\ off \in 0..7 /\ off >= 2
  BY ByteRead DEF InStep, Following
<1>2. CASE off < 7
  <2>1. InStep' /\ off' = off + 1
    BY <1>1, <1>2, InStepStep, ByteRead
  <2>2. accepted' = accepted /\ synced'
    BY <1>1, <1>2, FrameByte
  <2>3. off' >= 2
    BY <1>1, <2>1
  <2>4. Following' /\ idx' >= 2
    BY <2>1, <2>3 DEF InStep, Following
  <2> QED BY <2>2, <2>4 DEF FrameInv
<1>3. CASE off = 7
  <2>1. ~synced' /\ ~gotAA'
    BY <1>1, <1>3, FrameByte
  <2>2. accepted' = Append(accepted, [k |-> pk, boot |-> reboots, msg |-> sent[pk]])
    BY <1>1, <1>3, LastByteInStep
  <2> QED BY <1>3, <2>1, <2>2 DEF FrameInv, Searching
<1> QED BY <1>1, <1>2, <1>3

\* The packet whose byte was damaged fails its checksum.
LEMMA ReadAltered ==
  ASSUME TypeOK, synced, idx >= 2, faults # 0, Altered, Advance, Parse(sent[pk][off]),
         burst' = 0, faults' = faults
  PROVE  FrameInv' /\ accepted' = accepted
<1> DEFINE m == sent[pk]
           byte == m[off]
           msg == [p EXCEPT ![idx] = byte]
<1>1. /\ m \in Packet /\ sent' = sent /\ off \in 0..7 /\ idx = off
      /\ off < 7 => off' = off + 1 /\ pk' = pk
  BY ByteRead DEF Altered
<1>2. /\ msg[idx] = byte /\ \A i \in (0..7) \ {idx} : msg[i] = p[i]
      /\ idx < 7 => /\ synced' /\ idx' = idx + 1 /\ p' = msg
                    /\ accepted' = accepted
      /\ idx = 7 => /\ ~synced' /\ ~gotAA'
                    /\ Checksum(msg) # byte => accepted' = accepted
  BY FrameByte
<1> HIDE DEF msg
<1>3. PICK j \in 2..(off - 1) : /\ p[j] # m[j]
                                /\ \A i \in (2..(off - 1)) \ {j} : p[i] = m[i]
  BY DEF Altered
<1>4. CASE off < 7
  <2>1. sent'[pk'] = m /\ off' = off + 1 /\ p' = msg
    BY <1>1, <1>2, <1>4
  <2> HIDE DEF m
  <2>2. j \in 2..(off' - 1) /\ p'[j] # m[j]
    BY <1>1, <1>2, <1>3, <2>1
  <2>3. \A i \in (2..(off' - 1)) \ {j} : p'[i] = m[i]
    <3> TAKE i \in (2..(off' - 1)) \ {j}
    <3>1. i = off \/ (i \in (2..(off - 1)) \ {j} /\ i \in (0..7) \ {idx})
      BY <1>1, <1>4, <2>1
    <3> QED BY <1>1, <1>2, <1>3, <2>1, <3>1
  <2>4. Altered'
    BY <1>1, <1>2, <1>4, <2>1, <2>2, <2>3 DEF Altered
  <2> QED BY <1>1, <1>2, <1>4, <2>4 DEF FrameInv
<1>5. CASE off = 7
  <2>1. j \in 2..6 /\ msg[j] # m[j] /\ \A i \in (2..6) \ {j} : msg[i] = m[i]
    BY <1>1, <1>2, <1>3, <1>5
  <2>2. Checksum(msg) # Checksum(m)
    BY <2>1, ChecksumDiffers
  <2>3. Checksum(m) = byte
    BY <1>1, <1>5, PacketBits
  <2> QED BY <1>1, <1>2, <1>5, <2>2, <2>3 DEF FrameInv, Searching
<1> QED BY <1>1, <1>4, <1>5

\* A frame that lacks bytes of its packet goes on.
LEMMA ReadShort ==
  ASSUME TypeOK, synced, idx >= 2, faults # 0, Advance, Parse(sent[pk][off]),
         burst' = 0, faults' = faults, NEW d \in 1..3, Short(d)
  PROVE  FrameInv' /\ accepted' = accepted
<1> DEFINE m == sent[pk]
           byte == m[off]
           msg == [p EXCEPT ![idx] = byte]
<1>1. /\ m \in Packet /\ sent' = sent /\ off \in 0..7 /\ idx \in 2..6 /\ off = idx + d
      /\ off < 7 => off' = off + 1
      /\ off = 7 => off' = 0
  BY ByteRead DEF Short
<1>2. /\ msg[idx] = byte /\ \A i \in (0..7) \ {idx} : msg[i] = p[i]
      /\ idx < 7 => /\ synced' /\ idx' = idx + 1 /\ p' = msg
                    /\ accepted' = accepted
      /\ idx = 7 => /\ ~synced' /\ ~gotAA'
                    /\ Checksum(msg) # byte => accepted' = accepted
  BY FrameByte
<1>3. 7 \notin byte
  BY <1>1, PacketBits
<1> HIDE DEF msg, byte
<1>4. /\ msg[idx] = byte /\ \A i \in (0..7) \ {idx} : msg[i] = p[i]
      /\ synced' /\ idx' = idx + 1 /\ p' = msg /\ accepted' = accepted
  BY <1>2, <1>1
<1>5. \A i \in 2..(idx' - 1) : 7 \notin p'[i]
  <2> TAKE i \in 2..(idx' - 1)
  <2>1. i = idx \/ (i \in 2..(idx - 1) /\ i \in (0..7) \ {idx})
    BY <1>1, <1>4
  <2> QED BY <1>4, <1>3, <2>1 DEF Short
<1>6. CASE off < 7
  <2>1. Short(d)'
    BY <1>1, <1>4, <1>5, <1>6 DEF Short
  <2> QED BY <1>1, <1>4, <2>1 DEF FrameInv
<1>7. CASE off = 7
  <2>1. \A i \in 2..(idx' - 1) : i # 8 - d
    BY <1>1, <1>4, <1>7
  <2>2. Spliced(d)'
    BY <1>1, <1>4, <1>5, <1>7, <2>1 DEF Spliced, SIZE
  <2> QED BY <1>1, <1>4, <2>2 DEF FrameInv
<1> QED BY <1>1, <1>6, <1>7

\* A frame with the 0xAA of the next packet in it fails its checksum: no other
\* byte has bit 7.
LEMMA ReadSpliced ==
  ASSUME TypeOK, synced, idx >= 2, faults # 0, Advance, Parse(sent[pk][off]),
         burst' = 0, faults' = faults, NEW d \in 1..3, Spliced(d)
  PROVE  FrameInv' /\ accepted' = accepted
<1> DEFINE m == sent[pk]
           byte == m[off]
           msg == [p EXCEPT ![idx] = byte]
<1>1. /\ m \in Packet /\ sent' = sent /\ idx \in 2..7 /\ off + 8 = idx + d
      /\ off \in 0..2 /\ off' = off + 1
  BY ByteRead DEF Spliced, SIZE
<1>2. /\ msg[idx] = byte /\ \A i \in (0..7) \ {idx} : msg[i] = p[i]
      /\ idx < 7 => /\ synced' /\ idx' = idx + 1 /\ p' = msg
                    /\ accepted' = accepted
      /\ idx = 7 => /\ ~synced' /\ ~gotAA'
                    /\ Checksum(msg) # byte => accepted' = accepted
  BY <1>1, FrameByte
<1>3. (7 \in byte) <=> (idx = 8 - d)
  <2>1. idx = 8 - d <=> off = 0
    BY <1>1
  <2>2. off = 0 \/ off = 1 \/ off = 2
    BY <1>1
  <2>3. 7 \in m[0] /\ 7 \notin m[1] /\ 7 \notin m[2]
    BY <1>1, PacketBits
  <2> HIDE DEF m
  <2> QED BY <2>1, <2>2, <2>3
<1> HIDE DEF msg, byte
<1>4. \A i \in 2..idx : (7 \in msg[i]) <=> (i = 8 - d)
  <2> TAKE i \in 2..idx
  <2>1. i = idx \/ (i \in 2..(idx - 1) /\ i \in (0..7) \ {idx})
    BY <1>1
  <2> QED BY <1>2, <1>3, <2>1 DEF Spliced, SIZE
<1>5. CASE idx < 7
  <2>1. \A i \in 2..(idx' - 1) : (7 \in p'[i]) <=> (i = 8 - d)
    BY <1>1, <1>2, <1>4, <1>5
  <2>2. Spliced(d)'
    BY <1>1, <1>2, <1>5, <2>1 DEF Spliced, SIZE
  <2> QED BY <1>1, <1>2, <1>5, <2>2 DEF FrameInv
<1>6. CASE idx = 7
  <2>1. Checksum(msg) # byte
    <3>1. CASE d = 1
      <4>1. \A i \in 2..6 : 7 \notin msg[i]
        BY <1>4, <1>6, <3>1
      <4>2. 7 \in byte
        BY <1>3, <1>6, <3>1
      <4> QED BY <4>1, <4>2, NoBit
    <3>2. CASE d # 1
      <4>1. /\ 8 - d \in 2..6 /\ 7 \in msg[8 - d]
            /\ \A i \in (2..6) \ {8 - d} : 7 \notin msg[i]
        BY <1>4, <1>6, <3>2
      <4>2. 7 \notin byte
        BY <1>3, <1>6, <3>2
      <4>3. 7 \in Checksum(msg)
        <5> DEFINE j == 8 - d
        <5> HIDE DEF j
        <5>1. j \in 2..6 /\ 7 \in msg[j] /\ \A i \in (2..6) \ {j} : 7 \notin msg[i]
          BY <4>1 DEF j
        <5> QED BY <5>1, OneBit
      <4> QED BY <4>2, <4>3
    <3> QED BY <3>1, <3>2
  <2> QED BY <1>1, <1>2, <1>6, <2>1 DEF FrameInv, Searching
<1> QED BY <1>1, <1>5, <1>6

\* So does a frame that lost that 0xAA too: what stands for its checksum, or
\* for its velocity, is 0x55, the only byte with bit 2, or a button, which
\* lacks bit 4.
LEMMA ReadHeadless ==
  ASSUME TypeOK, synced, idx >= 2, faults # 0, Advance, Parse(sent[pk][off]),
         burst' = 0, faults' = faults, Headless
  PROVE  FrameInv' /\ accepted' = accepted
<1> DEFINE m == sent[pk]
           byte == m[off]
           msg == [p EXCEPT ![idx] = byte]
<1>1. /\ m \in Packet /\ sent' = sent /\ off \in 1..2 /\ off' = off + 1
      /\ idx = 6 => off = 1
      /\ idx = 6 \/ idx = 7
  BY ByteRead DEF Headless
<1>2. /\ msg[idx] = byte /\ \A i \in (0..7) \ {idx} : msg[i] = p[i]
      /\ idx < 7 => /\ synced' /\ idx' = idx + 1 /\ p' = msg
                    /\ accepted' = accepted
      /\ idx = 7 => /\ ~synced' /\ ~gotAA'
                    /\ Checksum(msg) # byte => accepted' = accepted
  BY <1>1, FrameByte
<1>3. 2 \in m[1] /\ 2 \notin m[2] /\ 4 \notin m[2]
  BY <1>1, PacketBits
<1>4. (off = 1 => 2 \in byte) /\ (off = 2 => 2 \notin byte /\ 4 \notin byte)
  <2> HIDE DEF m
  <2> QED BY <1>3
<1> HIDE DEF m, msg, byte
<1>5. CASE idx = 7 /\ Own(7)
  <2>1. PICK q \in Packet : \A i \in 2..6 : p[i] = q[i]
    <3>1. PICK q \in Packet : \A i \in 2..(7 - 1) : p[i] = q[i]
      BY <1>5 DEF Own
    <3> QED BY <3>1
  <2>2. 2 \notin q[7] /\ 4 \in q[7] /\ Checksum(q) = q[7]
    BY PacketBits
  <2>3. Checksum(msg) = Checksum(q)
    <3>1. /\ msg[2] = q[2] /\ msg[3] = q[3] /\ msg[4] = q[4] /\ msg[5] = q[5]
          /\ msg[6] = q[6]
      BY <1>2, <1>5, <2>1
    <3> QED BY <3>1 DEF Checksum
  <2>4. Checksum(msg) # byte
    BY <1>1, <1>4, <2>2, <2>3
  <2> QED BY <1>2, <1>5, <2>4 DEF FrameInv, Searching
<1>6. CASE idx = 6 /\ Own(6)
  <2>1. PICK q \in Packet : \A i \in 2..5 : p[i] = q[i]
    <3>1. PICK q \in Packet : \A i \in 2..(6 - 1) : p[i] = q[i]
      BY <1>6 DEF Own
    <3> QED BY <3>1
  <2>2. \A i \in 2..5 : 2 \notin q[i]
    BY PacketBits
  <2>3. off = 1 /\ 2 \in byte
    BY <1>1, <1>4, <1>6
  <2>4. \A i \in 2..5 : 2 \notin p'[i]
    BY <1>2, <1>6, <2>1, <2>2
  <2>5. 2 \in p'[6] /\ idx' = 7 /\ off' = 2 /\ synced' /\ accepted' = accepted
    BY <1>1, <1>2, <1>6, <2>3
  <2>6. Headless'
    BY <2>4, <2>5 DEF Headless
  <2> QED BY <2>5, <2>6 DEF FrameInv
<1>7. CASE /\ idx = 7 /\ off = 2 /\ 2 \in p[6] /\ \A i \in 2..5 : 2 \notin p[i]
  <2>1. 2 \in msg[6] /\ \A i \in (2..6) \ {6} : 2 \notin msg[i]
    BY <1>2, <1>7
  <2>2. 2 \in Checksum(msg)
    BY <2>1, OneBit
  <2>3. Checksum(msg) # byte
    BY <1>4, <1>7, <2>2
  <2> QED BY <1>2, <1>7, <2>3 DEF FrameInv, Searching
<1> QED BY <1>5, <1>6, <1>7 DEF Headless

\* Any byte that arrives as it was written.
LEMMA FrameReadStep ==
  ASSUME TypeOK, FrameInv, Advance, Parse(sent[pk][off]), burst' = 0, faults' = faults
  PROVE  /\ FrameInv'
         /\ \/ accepted' = accepted
            \/ accepted' = Append(accepted, [k |-> pk, boot |-> reboots, msg |-> sent[pk]])
               /\ off = 7
<1>1. CASE Searching
  BY <1>1, ReadSearching
<1>2. CASE synced /\ idx >= 2 /\ Following
  BY <1>2, ReadFollowing
<1>3. CASE synced /\ idx >= 2 /\ faults # 0 /\ Altered
  BY <1>3, ReadAltered
<1>4. CASE synced /\ idx >= 2 /\ faults # 0 /\ Headless
  BY <1>4, ReadHeadless
<1>5. CASE synced /\ idx >= 2 /\ faults # 0 /\ \E d \in 1..3 : Short(d) \/ Spliced(d)
  <2>1. PICK d \in 1..3 : Short(d) \/ Spliced(d)
    BY <1>5
  <2>2. CASE Short(d)
    BY <1>5, <2>2, ReadShort
  <2>3. CASE Spliced(d)
    BY <1>5, <2>3, ReadSpliced
  <2> QED BY <2>1, <2>2, <2>3
<1>6. \/ Searching
      \/ /\ synced /\ idx >= 2
         /\ \/ Following
            \/ faults # 0 /\ (Altered \/ Headless \/ \E d \in 1..3 : Short(d) \/ Spliced(d))
  BY DEF FrameInv
<1> QED BY <1>1, <1>2, <1>3, <1>4, <1>5, <1>6, Zenon

\* Where a fault begins, the parser is in step with the line.
LEMMA FaultBegins ==
  ASSUME ApartInv, faults = 0 \/ Clean(pk)
  PROVE  \/ ~synced /\ (gotAA => off = 1)
         \/ synced /\ idx >= 2 /\ Following
<1>1. CASE faults = 0
  BY <1>1 DEF ApartInv, FrameInv, Searching
<1>2. CASE Clean(pk)
  <2>1. InStep /\ TypeOK
    BY <1>2 DEF ApartInv, ResyncInv, StepInv
  <2>2. ~Touched
    <3>1. pk \notin damaged /\ pk - 1 \notin damaged
      BY <1>2, <2>1 DEF Clean, TypeOK
    <3> QED BY <3>1 DEF Touched
  <2>3. (gotAA => off = 1) /\ burst = 0
    BY <2>2 DEF ApartInv, SearchInv, BurstInv
  <2>4. CASE synced
    <3>1. off >= 2
      BY <2>1, <2>4 DEF InStep, TypeOK, SIZE
    <3>2. Following /\ idx >= 2
      BY <2>1, <2>3, <3>1 DEF InStep, Following
    <3> QED BY <2>4, <3>2
  <2> QED BY <2>3, <2>4
<1> QED BY <1>1, <1>2

\* A damaged byte: it begins no frame, and one that completes a packet is
\* not its checksum.
LEMMA DamagedStep ==
  ASSUME ApartInv, faults = 0 \/ Clean(pk), ReadDamagedByte
  PROVE  FrameInv' /\ accepted' = accepted
<1> DEFINE m == sent[pk]
<1>1. PICK byte \in Noise \ {m[off]} : Parse(byte)
  BY DEF ReadDamagedByte
<1>2. TypeOK
  BY DEF ApartInv, ResyncInv
<1>3. /\ Advance /\ faults' # 0 /\ burst' = 0
  BY <1>2 DEF ReadDamagedByte, TypeOK
<1>4. /\ m \in Packet /\ sent' = sent /\ off \in 0..7 /\ idx \in 0..7
      /\ off < 7 => off' = off + 1 /\ pk' = pk
  BY <1>2, <1>3, ByteRead
<1>5. byte # m[off] /\ m[1] = HEADER2 /\ Checksum(m) = m[7]
  BY <1>1, <1>4, PacketFacts, PacketBits
<1> HIDE DEF m
<1>6. CASE ~synced /\ (gotAA => off = 1)
  <2>1. gotAA => byte # HEADER2
    BY <1>5, <1>6
  <2>2. accepted' = accepted /\ ~synced'
    BY <1>2, <1>1, <1>6, <2>1, SearchByte, Zenon
  <2> QED BY <1>3, <2>2 DEF FrameInv, Searching
<1>7. CASE synced /\ idx >= 2 /\ Following
  <2> DEFINE msg == [p EXCEPT ![idx] = byte]
  <2>1. /\ msg[idx] = byte /\ \A i \in (0..7) \ {idx} : msg[i] = p[i]
        /\ idx < 7 => /\ synced' /\ idx' = idx + 1 /\ p' = msg
                      /\ accepted' = accepted
        /\ idx = 7 => /\ ~synced' /\ ~gotAA'
                      /\ Checksum(msg) # byte => accepted' = accepted
    BY <1>2, <1>1, <1>7, FrameByte
  <2> HIDE DEF msg
  <2>2. idx = off /\ \A i \in 0..(off - 1) : p[i] = m[i]
    BY <1>7 DEF Following, m
  <2>3. CASE off < 7
    <3>1. sent'[pk'] = m /\ off' = off + 1 /\ idx' = off' /\ p' = msg
      BY <1>4, <2>1, <2>2, <2>3 DEF m
    <3>2. off \in 2..(off' - 1) /\ p'[off] # m[off]
      BY <1>4, <1>5, <1>7, <2>1, <2>2, <3>1
    <3>3. \A i \in (2..(off' - 1)) \ {off} : p'[i] = m[i]
      BY <1>4, <2>1, <2>2, <2>3, <3>1
    <3>4. Altered'
      BY <1>3, <3>1, <3>2, <3>3 DEF Altered
    <3>5. synced' /\ idx' >= 2 /\ accepted' = accepted
      BY <1>7, <2>1, <2>2, <2>3, <1>4
    <3> QED BY <1>3, <3>4, <3>5 DEF FrameInv
  <2>4. CASE off = 7
    <3>1. /\ msg[2] = m[2] /\ msg[3] = m[3] /\ msg[4] = m[4] /\ msg[5] = m[5]
          /\ msg[6] = m[6]
      BY <2>1, <2>2, <2>4
    <3>2. Checksum(msg) = m[7]
      BY <1>5, <3>1 DEF Checksum
    <3>3. ~synced' /\ ~gotAA' /\ accepted' = accepted
      BY <1>5, <2>1, <2>2, <2>4, <3>2
    <3> QED BY <3>3 DEF FrameInv, Searching
  <2> QED BY <1>4, <2>3, <2>4
<1> QED BY <1>6, <1>7, FaultBegins

\* A frame that is its packet's so far and loses its next byte.
LEMMA LoseFollowing ==
  ASSUME TypeOK, synced, idx >= 2, Following, LoseByte
  PROVE  FrameInv'
<1> DEFINE m == sent[pk]
<1>1. /\ Advance /\ UNCHANGED <<synced, gotAA, idx, p>>
      /\ faults' # 0 /\ burst' = 1
  BY DEF LoseByte, parser, Following, TypeOK
<1>2. /\ m \in Packet /\ off \in 0..7 /\ idx = off
      /\ off < 7 => off' = off + 1
      /\ off = 7 => off' = 0
  BY <1>1, ByteRead DEF Following
<1>3. \A i \in 2..7 : 7 \notin m[i]
  BY <1>2, PacketBits
<1>4. \A i \in 0..(off - 1) : p[i] = m[i]
  BY DEF Following
<1> HIDE DEF m
<1>5. \A i \in 2..(idx' - 1) : p'[i] = m[i] /\ 7 \notin p'[i]
  BY <1>1, <1>2, <1>3, <1>4
<1>6. Own(idx)'
  BY <1>2, <1>5 DEF Own
<1>7. CASE off < 7
  <2>1. off' = idx' + 1
    BY <1>1, <1>2, <1>7
  <2>2. Short(1)'
    BY <1>1, <1>5, <1>6, <2>1 DEF Short
  <2> QED BY <1>1, <2>2 DEF FrameInv
<1>8. CASE off = 7
  <2>1. off' = 0 /\ idx' = 7
    BY <1>1, <1>2, <1>8
  <2>2. \A i \in 2..(idx' - 1) : (7 \in p'[i]) <=> (i = 8 - 1)
    BY <1>5, <2>1
  <2>3. Spliced(1)'
    BY <1>1, <1>6, <2>1, <2>2 DEF Spliced, SIZE
  <2> QED BY <1>1, <2>3 DEF FrameInv
<1> QED BY <1>2, <1>7, <1>8

\* A lost byte prolongs the run of lost bytes in a frame that lacks some.
LEMMA LoseMore ==
  ASSUME ShortRuns, TypeOK, synced, idx >= 2, faults # 0, LoseByte, burst # 0,
         Altered \/ Headless \/ \E d \in 1..3 : Short(d) \/ Spliced(d)
  PROVE  FrameInv'
<1>1. /\ Advance /\ UNCHANGED <<synced, gotAA, idx, p>>
      /\ faults' # 0 /\ burst' = burst + 1 /\ burst \in 1..2
  <2>1. MaxBurst \in Nat /\ MaxBurst <= 3
    BY EduCiaaAssumption DEF ShortRuns
  <2>2. burst \in 1..(MaxBurst - 1) /\ faults' = faults
    BY DEF LoseByte
  <2> QED BY <2>1, <2>2 DEF LoseByte, parser
<1>2. /\ off \in 0..7 /\ idx \in 2..7
      /\ off < 7 => off' = off + 1
      /\ off = 7 => off' = 0
  BY <1>1, ByteRead
<1>3. \A n : Own(n) => Own(n)'
  BY <1>1 DEF Own
<1>4. ASSUME Headless PROVE Headless'
  <2>1. idx = 7 /\ burst = 2 /\ off = 1 /\ Own(7)
    BY <1>1, <1>4 DEF Headless
  <2>2. idx' = 7 /\ burst' = 3 /\ off' = 2 /\ Own(7)'
    BY <1>1, <1>2, <1>3, <2>1
  <2> QED BY <2>2 DEF Headless
<1>5. ASSUME NEW d \in 1..3, Short(d) PROVE \E e \in 1..3 : (Short(e) \/ Spliced(e))'
  <2>1. /\ burst = d /\ d \in 1..2 /\ off = idx + d /\ Own(idx)
        /\ \A i \in 2..(idx - 1) : 7 \notin p[i]
    BY <1>1, <1>5 DEF Short
  <2>2. Own(idx)' /\ burst' = d + 1 /\ d + 1 \in 1..3 /\ idx' = idx /\ p' = p
    BY <1>1, <1>3, <2>1
  <2>3. CASE off < 7
    <3>1. off' = idx' + (d + 1)
      BY <1>2, <2>1, <2>2, <2>3
    <3>2. Short(d + 1)'
      BY <2>1, <2>2, <3>1 DEF Short
    <3> QED BY <2>2, <3>2
  <2>4. CASE off = 7
    <3>1. off' = 0 /\ off' + 8 = idx' + (d + 1)
      BY <1>2, <2>1, <2>2, <2>4
    <3>2. \A i \in 2..(idx' - 1) : (7 \in p'[i]) <=> (i = 8 - (d + 1))
      BY <1>2, <2>1, <2>2, <2>4
    <3>3. Spliced(d + 1)'
      BY <2>2, <3>1, <3>2 DEF Spliced, SIZE
    <3> QED BY <2>2, <3>3
  <2> QED BY <1>2, <2>3, <2>4
<1>6. ASSUME NEW d \in 1..3, Spliced(d) PROVE Headless'
  <2>1. burst = d /\ d \in 1..2 /\ off = 0 /\ idx = 8 - d /\ Own(idx)
    BY <1>1, <1>2, <1>6 DEF Spliced, SIZE
  <2>2. burst' = d + 1 /\ off' = 1 /\ idx' = 8 - d
    BY <1>1, <1>2, <2>1
  <2>3. CASE d = 1
    <3>1. idx' = 7 /\ burst' = 2 /\ off' = 1 /\ Own(7)'
      <4>1. Own(7)
        BY <2>1, <2>3
      <4> QED BY <1>3, <2>2, <2>3, <4>1
    <3> QED BY <3>1 DEF Headless
  <2>4. CASE d = 2
    <3>1. idx' = 6 /\ burst' = 3 /\ off' = 1 /\ Own(6)'
      <4>1. Own(6)
        BY <2>1, <2>4
      <4> QED BY <1>3, <2>2, <2>4, <4>1
    <3> QED BY <3>1 DEF Headless
  <2> QED BY <2>1, <2>3, <2>4
<1>7. ~Altered
  BY <1>1 DEF Altered
<1>8. synced' /\ idx' >= 2
  BY <1>1
<1> QED BY <1>1, <1>4, <1>5, <1>6, <1>7, <1>8 DEF FrameInv

\* A lost byte, whatever the frame.
LEMMA LoseStep ==
  ASSUME ShortRuns, ApartInv, LoseByte, FaultsApart
  PROVE  FrameInv'
<1>0. TypeOK /\ synced' = synced
  BY DEF ApartInv, ResyncInv, LoseByte, parser
<1>1. CASE burst = 0
  <2>1. faults \in Nat /\ faults' = faults + 1
    BY <1>0, <1>1, EduCiaaAssumption DEF LoseByte, TypeOK
  <2>2. faults = 0 \/ Clean(pk)
    BY <2>1 DEF FaultsApart
  <2>3. CASE ~synced
    BY <1>0, <2>1, <2>3 DEF FrameInv, Searching
  <2>4. CASE synced /\ idx >= 2 /\ Following
    BY <1>0, <2>4, LoseFollowing
  <2> QED BY <2>2, <2>3, <2>4, FaultBegins
<1>2. CASE burst # 0
  <2>1. faults # 0 /\ faults' # 0
    BY <1>0, <1>2, EduCiaaAssumption DEF ApartInv, BurstInv, LoseByte, TypeOK
  <2>2. CASE ~synced
    BY <1>0, <2>1, <2>2 DEF FrameInv, Searching
  <2>3. CASE synced
    <3>1. ~Following
      BY <1>2 DEF Following
    <3> QED BY <1>0, <1>2, <2>1, <2>3, <3>1, LoseMore DEF ApartInv, FrameInv, Searching
  <2> QED BY <2>2, <2>3
<1> QED BY <1>1, <1>2

\* The step of the frame, whoever takes it; only reading the last byte of a
\* packet as it was written has a packet accepted.
LEMMA FrameStepApart ==
  ASSUME ShortRuns, ApartInv, [Next]_vars, FaultsApart
  PROVE  /\ FrameInv'
         /\ \/ accepted' = accepted
            \/ /\ accepted' = Append(accepted, [k |-> pk, boot |-> reboots, msg |-> sent[pk]])
               /\ Advance /\ off = 7
<1>0. TypeOK /\ FrameInv
  BY DEF ApartInv, ResyncInv
<1>1. CASE Transmit
  <2>1. /\ UNCHANGED <<pk, off, faults, burst, synced, gotAA, idx, p, accepted>>
        /\ \A k \in 1..Len(sent) : sent'[k] = sent[k]
    BY <1>0, <1>1, LineGrows DEF Transmit, parser
  <2>2. CASE Searching
    BY <2>1, <2>2 DEF FrameInv, Searching
  <2>3. CASE ~Searching
    <3>1. Following => Following'
      <4> SUFFICES ASSUME Following PROVE Following'
        OBVIOUS
      <4>1. off # 0
        BY <1>0, <2>3 DEF FrameInv, Following, Altered
      <4>2. pk \in 1..Len(sent)
        BY <1>0, <4>1 DEF TypeOK
      <4>3. sent'[pk'] = sent[pk]
        BY <2>1, <4>2
      <4> QED BY <2>1, <4>3 DEF Following
    <3>2. Altered => Altered'
      <4> SUFFICES ASSUME Altered PROVE Altered'
        OBVIOUS
      <4>1. off # 0
        BY <1>0 DEF Altered, TypeOK
      <4>2. pk \in 1..Len(sent)
        BY <1>0, <4>1 DEF TypeOK
      <4>3. sent'[pk'] = sent[pk]
        BY <2>1, <4>2
      <4> QED BY <2>1, <4>3 DEF Altered
    <3>3. \A d : Short(d) => Short(d)'
      BY <2>1 DEF Short, Own, Packet
    <3>4. \A d : Spliced(d) => Spliced(d)'
      BY <2>1 DEF Spliced, Own, Packet
    <3>5. Headless => Headless'
      BY <2>1 DEF Headless, Own, Packet
    <3>6. synced' = synced /\ idx' = idx /\ faults' = faults
      BY <2>1
    <3> QED BY <1>0, <2>1, <2>3, <3>1, <3>2, <3>3, <3>4, <3>5, <3>6 DEF FrameInv
  <2> QED BY <2>2, <2>3
<1>2. CASE ReadByte
  <2>1. Advance /\ Parse(sent[pk][off]) /\ burst' = 0 /\ faults' = faults
    BY <1>2 DEF ReadByte
  <2>2. /\ FrameInv'
        /\ \/ accepted' = accepted
           \/ accepted' = Append(accepted, [k |-> pk, boot |-> reboots, msg |-> sent[pk]])
              /\ off = 7
    BY <1>0, <2>1, FrameReadStep
  <2> QED BY <2>1, <2>2, Zenon
<1>3. CASE ReadDamagedByte
  <2>1. faults \in Nat /\ faults' = faults + 1
    BY <1>0, <1>3, EduCiaaAssumption DEF ReadDamagedByte, TypeOK
  <2>2. faults = 0 \/ Clean(pk)
    BY <2>1 DEF FaultsApart
  <2> QED BY <1>3, <2>2, DamagedStep
<1>4. CASE LoseByte
  <2>1. accepted' = accepted
    BY <1>4 DEF LoseByte
  <2> QED BY <1>4, <2>1, LoseStep
<1>5. CASE Reboot
  BY <1>5 DEF Reboot, ResetParser, FrameInv, Searching
<1>6. CASE setupVS1053 \/ UNCHANGED vars
  <2>1. UNCHANGED <<sent, pk, off, damaged, faults, burst, reboots, synced, gotAA, idx, p,
                    accepted>>
    BY <1>6 DEF setupVS1053, vars, line, parser
  <2> QED BY <1>0, <2>1 DEF FrameInv, Searching, Following, Altered, Short, Spliced,
                           Headless, Own, Packet
<1> QED BY <1>1, <1>2, <1>3, <1>4, <1>5, <1>6 DEF Next

\* What a byte that is damaged or lost leaves behind it.
LEMMA Touches ==
  ASSUME TypeOK, Advance, damaged' = damaged \cup {pk}
  PROVE  Touched'
<1>1. /\ off < 7 => off' = off + 1 /\ pk' = pk
      /\ off = 7 => off' = 0 /\ pk' = pk + 1
      /\ off \in 0..7 /\ pk \in Nat
  BY ByteRead
<1>2. CASE off < 7
  BY <1>1, <1>2 DEF Touched
<1>3. CASE off = 7
  <2>1. off' = 0 /\ pk' - 1 = pk
    BY <1>1, <1>3
  <2> QED BY <2>1 DEF Touched
<1> QED BY <1>1, <1>2, <1>3

\* A run of lost bytes begins with a fault and touches its packets.
LEMMA BurstStep ==
  ASSUME TypeOK, BurstInv, [Next]_vars
  PROVE  BurstInv'
<1>0. faults \in Nat /\ burst \in Nat
  BY EduCiaaAssumption DEF TypeOK
<1>1. CASE Transmit
  BY <1>1 DEF Transmit, BurstInv, Touched
<1>2. CASE Reboot
  BY <1>2 DEF Reboot, BurstInv, Touched
<1>3. CASE ReadByte \/ ReadDamagedByte
  BY <1>3 DEF ReadByte, ReadDamagedByte, BurstInv
<1>4. CASE LoseByte
  <2>1. Touched'
    BY <1>4, Touches DEF LoseByte
  <2> QED BY <1>0, <1>4, <2>1 DEF LoseByte, BurstInv
<1>5. CASE setupVS1053 \/ UNCHANGED vars
  BY <1>5 DEF setupVS1053, vars, line, BurstInv, Touched
<1> QED BY <1>1, <1>2, <1>3, <1>4, <1>5 DEF Next

\* A byte leaves gotAA false in a frame, and true only after 0xAA.
LEMMA SeenAA ==
  ASSUME TypeOK, synced => ~gotAA, NEW byte, Parse(byte)
  PROVE  /\ synced' => ~gotAA'
         /\ gotAA' => byte = HEADER1
<1>1. CASE SearchAA(byte)
  BY <1>1, Zenon DEF SearchAA
<1>2. CASE Search55(byte)
  <2>1. HEADER1 # HEADER2
    BY DEF HEADER1, HEADER2
  <2>2. \/ synced' /\ ~gotAA'
        \/ ~synced' /\ gotAA' = (byte = HEADER1)
    BY <1>2, Zenon DEF Search55
  <2> QED BY <2>2, Zenon
<1>3. CASE Collect(byte)
  BY <1>3 DEF Collect
<1>4. CASE Reject(byte) \/ Accept(byte)
  BY <1>4 DEF Reject, Accept, ResetParser
<1> QED BY <1>1, <1>2, <1>3, <1>4 DEF Parse

LEMMA SearchStep ==
  ASSUME TypeOK, SearchInv, [Next]_vars
  PROVE  SearchInv'
<1>1. CASE Transmit
  BY <1>1 DEF Transmit, parser, SearchInv, Touched
<1>2. CASE ReadByte
  <2>1. Advance /\ Parse(sent[pk][off])
    BY <1>2 DEF ReadByte
  <2>2. /\ synced' => ~gotAA'
        /\ gotAA' => sent[pk][off] = HEADER1
    BY <2>1, SeenAA DEF SearchInv
  <2>3. gotAA' => off = 0
    <3>1. off \in 0..7 /\ sent[pk] \in Packet
      BY <2>1, ByteRead
    <3>2. \A i \in 1..7 : sent[pk][i] # HEADER1
      BY <3>1, PacketFacts
    <3>3. off = 0 \/ off \in 1..7
      BY <3>1
    <3> QED BY <2>2, <3>2, <3>3, Zenon
  <2>4. gotAA' => off' = 1
    BY <2>1, <2>3, ByteRead
  <2> QED BY <2>2, <2>4 DEF SearchInv
<1>3. CASE ReadDamagedByte
  <2>1. PICK byte \in Noise : Parse(byte)
    BY <1>3 DEF ReadDamagedByte
  <2>2. synced' => ~gotAA'
    BY <2>1, SeenAA DEF SearchInv
  <2>3. Touched'
    BY <1>3, Touches DEF ReadDamagedByte
  <2> QED BY <2>2, <2>3 DEF SearchInv
<1>4. CASE LoseByte
  <2>1. Touched'
    BY <1>4, Touches DEF LoseByte
  <2> QED BY <1>4, <2>1 DEF LoseByte, parser, SearchInv
<1>5. CASE Reboot
  BY <1>5 DEF Reboot, ResetParser, SearchInv
<1>6. CASE setupVS1053 \/ UNCHANGED vars
  BY <1>6 DEF setupVS1053, vars, line, parser, SearchInv, Touched
<1> QED BY <1>1, <1>2, <1>3, <1>4, <1>5, <1>6 DEF Next

\* The line never goes back.
LEMMA LineAdvances ==
  ASSUME TypeOK, [Next]_vars
  PROVE  pk' >= pk /\ pk \in Nat /\ pk' \in Nat
<1>1. pk \in Nat
  BY DEF TypeOK
<1>2. CASE Transmit \/ Reboot \/ setupVS1053 \/ UNCHANGED vars
  BY <1>1, <1>2 DEF Transmit, Reboot, setupVS1053, vars, line
<1>3. CASE ReadByte \/ ReadDamagedByte \/ LoseByte
  <2>1. Advance
    BY <1>3 DEF ReadByte, ReadDamagedByte, LoseByte
  <2> QED BY <1>1, <2>1, ByteRead
<1> QED BY <1>2, <1>3 DEF Next

\* The elements of a longer sequence.
LEMMA AppendIndex ==
  ASSUME NEW S, NEW s \in Seq(S), NEW x
  PROVE  /\ Len(Append(s, x)) = Len(s) + 1
         /\ \A j \in 1..Len(Append(s, x)) :
              Append(s, x)[j] = IF j = Len(s) + 1 THEN x ELSE s[j]
OBVIOUS

LEMMA AppendFunction ==
  ASSUME NEW S, NEW s \in Seq(S), NEW x \in S
  PROVE  Append(s, x) \in [1..(Len(s) + 1) -> S]
<1>1. Append(s, x) \in Seq(S) /\ Len(Append(s, x)) = Len(s) + 1
  OBVIOUS
<1>2. \A t \in Seq(S) : t \in [1..Len(t) -> S]
  OBVIOUS
<1> DEFINE t == Append(s, x)
<1>3. t \in Seq(S) /\ Len(t) = Len(s) + 1
  BY <1>1
<1> HIDE DEF t
<1>4. t \in [1..(Len(s) + 1) -> S]
  BY <1>2, <1>3
<1> QED BY <1>4 DEF t

LEMMA Element ==
  ASSUME NEW S, NEW s \in Seq(S), NEW j \in 1..Len(s)
  PROVE  s[j] \in S
OBVIOUS

\* Packets are accepted at their last bytes, so in order.
LEMMA AcceptedStep ==
  ASSUME ShortRuns, ApartInv, [Next]_vars, FaultsApart
  PROVE  AcceptedInv'
<1>0. TypeOK /\ AcceptedInv
  BY DEF ApartInv, ResyncInv
<1>1. pk' >= pk /\ pk \in Nat /\ pk' \in Nat /\ pk >= 1
  BY <1>0, LineAdvances DEF TypeOK
<1>2. /\ accepted \in Seq([k : Nat, boot : Nat, msg : Message])
      /\ \A j \in 1..Len(accepted) : accepted[j].k \in 1..(pk - 1)
  BY <1>0 DEF AcceptedInv, TypeOK
<1>3. CASE accepted' = accepted
  BY <1>1, <1>2, <1>3 DEF AcceptedInv
<1>4. CASE /\ accepted' = Append(accepted, [k |-> pk, boot |-> reboots, msg |-> sent[pk]])
           /\ Advance /\ off = 7
  <2>1. pk' = pk + 1
    BY <1>0, <1>4, ByteRead
  <2> DEFINE x == [k |-> pk, boot |-> reboots, msg |-> sent[pk]]
  <2>2. x.k = pk
    OBVIOUS
  <2>3. accepted' = Append(accepted, x)
    BY <1>4
  <2> HIDE DEF x
  <2>4. Len(accepted') = Len(accepted) + 1
        /\ \A j \in 1..Len(accepted') :
             accepted'[j] = IF j = Len(accepted) + 1 THEN x ELSE accepted[j]
    BY <1>2, <2>3, AppendIndex
  <2>5. \A j \in 1..Len(accepted') : accepted'[j].k \in 1..(pk' - 1)
    <3> TAKE j \in 1..Len(accepted')
    <3>1. CASE j = Len(accepted) + 1
      BY <1>1, <2>1, <2>2, <2>4, <3>1
    <3>2. CASE j # Len(accepted) + 1
      <4>1. j \in 1..Len(accepted) /\ accepted'[j] = accepted[j]
        BY <1>2, <2>4, <3>2
      <4> QED BY <1>1, <1>2, <2>1, <4>1
    <3> QED BY <3>1, <3>2
  <2> QED BY <2>5 DEF AcceptedInv
<1> QED BY <1>3, <1>4, FrameStepApart

\* A stuttering step is no fault.
LEMMA FaultsApartStutter == [FaultsApart]_vars => FaultsApart
BY DEF FaultsApart, vars, line

\* Faults that stay apart keep all of it.
LEMMA ApartStep ==
  ASSUME ShortRuns, ApartInv, [Next]_vars, FaultsApart
  PROVE  ApartInv'
<1>1. ResyncInv /\ TypeOK /\ BurstInv /\ SearchInv
  BY DEF ApartInv, ResyncInv
<1>2. ResyncInv' /\ BurstInv' /\ SearchInv'
  BY <1>1, ResyncStep, BurstStep, SearchStep
<1> QED BY <1>2, FrameStepApart, AcceptedStep DEF ApartInv

\* An accepted packet has the bytes that were sent.
LEMMA SentStep ==
  ASSUME ShortRuns, ApartInv, OnlySentAccepted, [Next]_vars, FaultsApart
  PROVE  OnlySentAccepted'
<1>0. TypeOK /\ AcceptedInv
  BY DEF ApartInv, ResyncInv
<1>1. /\ \A k \in 1..Len(sent) : sent'[k] = sent[k]
      /\ Len(sent') >= Len(sent) /\ Len(sent) \in Nat
  <2>1. sent \in Seq(Packet)
    BY <1>0 DEF TypeOK
  <2>2. CASE Transmit
    <3>1. PICK m \in Packet : sent' = Append(sent, m)
      BY <2>2 DEF Transmit
    <3> QED BY <2>1, <3>1, AppendIndex
  <2>3. CASE sent' = sent
    BY <2>1, <2>3
  <2> QED BY <2>2, <2>3 DEF Next, ReadByte, ReadDamagedByte, LoseByte, Reboot, setupVS1053,
                            Advance, vars, line
<1>2. /\ accepted \in Seq([k : Nat, boot : Nat, msg : Message])
      /\ \A j \in 1..Len(accepted) : /\ accepted[j].k \in 1..Len(sent)
                                     /\ accepted[j].msg = sent[accepted[j].k]
  <2>1. accepted \in Seq([k : Nat, boot : Nat, msg : Message]) /\ pk \in 1..(Len(sent) + 1)
    BY <1>0 DEF TypeOK
  <2>2. \A j \in 1..Len(accepted) : accepted[j].k \in 1..(pk - 1)
    BY <1>0 DEF AcceptedInv
  <2>3. \A n \in 1..(pk - 1) : n \in 1..Len(sent)
    BY <1>1, <2>1
  <2>4. \A j \in 1..Len(accepted) : accepted[j].msg = sent[accepted[j].k]
    BY DEF OnlySentAccepted
  <2> QED BY <2>1, <2>2, <2>3, <2>4
<1>3. \A j \in 1..Len(accepted) :
        accepted[j].k <= Len(sent') /\ accepted[j].msg = sent'[accepted[j].k]
  <2>1. Len(sent') \in Nat
    BY <1>0, TypeStep DEF TypeOK
  <2>2. \A k \in 1..Len(sent) : k <= Len(sent') /\ sent'[k] = sent[k]
    BY <1>1, <2>1
  <2> QED BY <1>2, <2>2
<1>4. CASE accepted' = accepted
  BY <1>4, <1>3 DEF OnlySentAccepted
<1>5. CASE /\ accepted' = Append(accepted, [k |-> pk, boot |-> reboots, msg |-> sent[pk]])
           /\ Advance
  <2> DEFINE x == [k |-> pk, boot |-> reboots, msg |-> sent[pk]]
  <2>1. x.k = pk /\ x.msg = sent[pk] /\ pk \in 1..Len(sent)
    BY <1>0, <1>5, AdvanceType
  <2>2. accepted' = Append(accepted, x)
    BY <1>5
  <2> HIDE DEF x
  <2>3. Len(accepted') = Len(accepted) + 1
        /\ \A j \in 1..Len(accepted') :
             accepted'[j] = IF j = Len(accepted) + 1 THEN x ELSE accepted[j]
    BY <1>2, <2>2, AppendIndex
  <2>4. \A j \in 1..Len(accepted') :
          accepted'[j].k <= Len(sent') /\ accepted'[j].msg = sent'[accepted'[j].k]
    <3> TAKE j \in 1..Len(accepted')
    <3>1. CASE j = Len(accepted) + 1
      BY <1>1, <2>1, <2>3, <3>1
    <3>2. CASE j # Len(accepted) + 1
      <4>1. j \in 1..Len(accepted) /\ accepted'[j] = accepted[j]
        BY <1>2, <2>3, <3>2
      <4> QED BY <1>3, <4>1
    <3> QED BY <3>1, <3>2
  <2> QED BY <2>4 DEF OnlySentAccepted
<1> QED BY <1>4, <1>5, FrameStepApart

\* What the channel says of an accepted packet.
Delivery(x) == [k |-> x.k, msg |-> x.msg]

LEMMA MapAppend ==
  ASSUME NEW S, NEW s \in Seq(S), NEW x
  PROVE  /\ Len(Append(s, x)) = Len(s) + 1
         /\ [j \in 1..Len(Append(s, x)) |-> Delivery(Append(s, x)[j])]
              = Append([j \in 1..Len(s) |-> Delivery(s[j])], Delivery(x))
<1> DEFINE f == [j \in 1..Len(s) |-> Delivery(s[j])]
           g == [j \in 1..(Len(s) + 1) |-> Delivery(Append(s, x)[j])]
           D == {Delivery(s[j]) : j \in 1..Len(s)} \cup {Delivery(x)}
<1>1. /\ Len(Append(s, x)) = Len(s) + 1 /\ Len(s) \in Nat
      /\ Append(s, x)[Len(s) + 1] = x
      /\ \A j \in 1..Len(s) : Append(s, x)[j] = s[j]
  OBVIOUS
<1>2. f \in [1..Len(s) -> D]
  OBVIOUS
<1>3. f \in Seq(D) /\ Len(f) = Len(s)
  <2> HIDE DEF D, f
  <2> QED BY <1>1, <1>2
<1>4. /\ Append(f, Delivery(x)) \in [1..(Len(s) + 1) -> D]
      /\ Append(f, Delivery(x))[Len(s) + 1] = Delivery(x)
      /\ \A j \in 1..Len(s) : Append(f, Delivery(x))[j] = f[j]
  <2>1. Delivery(x) \in D
    OBVIOUS
  <2> DEFINE y == Delivery(x)
  <2>2. y \in D
    BY <2>1
  <2> HIDE DEF D, f, y
  <2>3. /\ Len(Append(f, y)) = Len(f) + 1
        /\ \A j \in 1..Len(Append(f, y)) :
             Append(f, y)[j] = IF j = Len(f) + 1 THEN y ELSE f[j]
    BY <1>3, AppendIndex
  <2>4. Append(f, y) \in [1..(Len(f) + 1) -> D]
    BY <1>3, <2>2, AppendFunction
  <2>5. /\ Append(f, y) \in [1..(Len(s) + 1) -> D]
        /\ Append(f, y)[Len(s) + 1] = y
        /\ \A j \in 1..Len(s) : Append(f, y)[j] = f[j]
    BY <1>1, <1>3, <2>3, <2>4
  <2> QED BY <2>5 DEF y
<1>5. \A j \in 1..(Len(s) + 1) : Append(f, Delivery(x))[j] = g[j]
  <2> TAKE j \in 1..(Len(s) + 1)
  <2>1. g[j] = Delivery(Append(s, x)[j])
    OBVIOUS
  <2>2. j = Len(s) + 1 \/ j \in 1..Len(s)
    BY <1>1
  <2>3. j \in 1..Len(s) => f[j] = Delivery(s[j])
    OBVIOUS
  <2> HIDE DEF f, g
  <2> QED BY <1>1, <1>4, <2>1, <2>2, <2>3
<1>6. Append(f, Delivery(x)) = g
  <2>1. g = [j \in 1..(Len(s) + 1) |-> g[j]]
    OBVIOUS
  <2> HIDE DEF D, f, g
  <2> QED BY <1>4, <1>5, <2>1
<1> QED BY <1>1, <1>6

\* Writing a packet sends it into the channel, accepting it delivers it; every
\* other step leaves the channel alone.
LEMMA ApartRefines ==
  ASSUME ShortRuns, ApartInv, [Next]_vars, FaultsApart
  PROVE  [Channel!ChNext]_(Channel!chVars)
<1> DEFINE d == [j \in 1..Len(accepted) |-> Delivery(accepted[j])]
<1>1. /\ sent \in Seq(Packet)
      /\ accepted \in Seq([k : Nat, boot : Nat, msg : Message])
  BY DEF ApartInv, ResyncInv, TypeOK
<1>2. SUFFICES \/ (\E m \in Packet : sent' = Append(sent, m)) /\ d' = d
               \/ /\ \E k \in 1..Len(sent) :
                       /\ \A j \in 1..Len(d) : d[j].k < k
                       /\ d' = Append(d, [k |-> k, msg |-> sent[k]])
                  /\ sent' = sent
               \/ sent' = sent /\ d' = d
  BY DEF Channel!ChNext, Channel!chVars, Channel!Send, Channel!Deliver, Delivery
<1>3. CASE Transmit
  BY <1>3 DEF Transmit
<1>4. CASE \/ ReadByte \/ ReadDamagedByte \/ LoseByte \/ Reboot \/ setupVS1053
            \/ UNCHANGED vars
  <2>1. sent' = sent
    BY <1>4 DEF ReadByte, ReadDamagedByte, LoseByte, Reboot, setupVS1053, Advance, vars, line
  <2>2. CASE accepted' = accepted
    BY <2>1, <2>2
  <2>3. CASE /\ accepted' = Append(accepted, [k |-> pk, boot |-> reboots, msg |-> sent[pk]])
             /\ Advance
    <3> DEFINE x == [k |-> pk, boot |-> reboots, msg |-> sent[pk]]
    <3>1. Delivery(x) = [k |-> pk, msg |-> sent[pk]]
      BY DEF Delivery
    <3>2. accepted' = Append(accepted, x)
      BY <2>3
    <3> HIDE DEF x
    <3>3. d' = Append(d, Delivery(x))
      BY <1>1, <3>2, MapAppend
    <3>4. pk \in 1..Len(sent)
      BY <2>3, AdvanceType DEF ApartInv, ResyncInv
    <3>5. Len(d) = Len(accepted) /\ \A j \in 1..Len(accepted) : d[j].k = accepted[j].k
      BY <1>1 DEF Delivery
    <3>6. \A j \in 1..Len(d) : d[j].k < pk
      <4>1. pk \in Nat
        BY <3>4
      <4> QED BY <3>5, <4>1 DEF ApartInv, AcceptedInv
    <3> HIDE DEF d
    <3> QED BY <2>1, <3>1, <3>3, <3>4, <3>6
  <2> QED BY <2>2, <2>3, FrameStepApart
<1> QED BY <1>3, <1>4 DEF Next

\* The whole of it holds when the program starts.
LEMMA ApartInit == Init => ApartInv
<1> SUFFICES ASSUME Init PROVE ApartInv
  OBVIOUS
<1>1. ResyncInv
  BY ResyncInit
<1> QED BY <1>1 DEF Init, ApartInv, FrameInv, Searching, BurstInv, SearchInv, AcceptedInv

\* The checksum does its work between two boards for any number of faults that
\* stay apart: a damaged byte or a run of up to three lost bytes in a packet that
\* follows an intact one.  What main() accepts then comes out of the line as out
\* of a channel that loses packets but never alters, invents, repeats or reorders
\* them, for any packets, any noise and any resets.
THEOREM FaultsApartIsChannel ==
  ShortRuns => (Spec /\ [][FaultsApart]_vars => IsPacketChannel)
<1> SUFFICES ASSUME ShortRuns
             PROVE  Spec /\ [][FaultsApart]_vars => IsPacketChannel
  OBVIOUS
<1>1. Init => Channel!ChInit
  <2>1. ASSUME Init
        PROVE  [j \in 1..Len(accepted) |->
                  [k |-> accepted[j].k, msg |-> accepted[j].msg]] = << >>
    <3>1. accepted = << >> /\ 1..Len(accepted) = {}
      BY <2>1 DEF Init
    <3> QED BY <3>1
  <2> QED BY <2>1 DEF Init, Channel!ChInit
<1>2. ApartInv /\ [Next]_vars /\ [FaultsApart]_vars => ApartInv'
  BY ApartStep, FaultsApartStutter
<1>3. ApartInv /\ [Next]_vars /\ [FaultsApart]_vars => [Channel!ChNext]_(Channel!chVars)
  BY ApartRefines, FaultsApartStutter
<1> QED BY ApartInit, <1>1, <1>2, <1>3, PTL DEF Spec, IsPacketChannel, Channel!ChSpec

\* For such faults whatever main() accepts is a packet that was sent, with its
\* own bytes: no frame put together from pieces passes the checksum.
THEOREM FaultsApartOnlySent ==
  ShortRuns => (Spec /\ [][FaultsApart]_vars => []OnlySentAccepted)
<1> SUFFICES ASSUME ShortRuns
             PROVE  Spec /\ [][FaultsApart]_vars => []OnlySentAccepted
  OBVIOUS
<1>1. Init => OnlySentAccepted
  BY DEF Init, OnlySentAccepted
<1>2. ApartInv /\ [Next]_vars /\ [FaultsApart]_vars => ApartInv'
  BY ApartStep, FaultsApartStutter
<1>3. ApartInv /\ OnlySentAccepted /\ [Next]_vars /\ [FaultsApart]_vars => OnlySentAccepted'
  BY SentStep, FaultsApartStutter
<1> QED BY ApartInit, <1>1, <1>2, <1>3, PTL DEF Spec

\* In particular for one fault at all, wherever it falls and whatever resets
\* come before it.
THEOREM OneFaultIsChannel == MaxFaults <= 1 /\ ShortRuns => (Spec => IsPacketChannel)
<1> SUFFICES ASSUME MaxFaults <= 1, ShortRuns
             PROVE  Spec => IsPacketChannel
  OBVIOUS
<1>1. TypeOK /\ TypeOK' /\ [Next]_vars => [FaultsApart]_vars
  <2> SUFFICES ASSUME TypeOK, [Next]_vars, faults' # faults
               PROVE  faults = 0
    BY DEF FaultsApart
  <2>1. faults \in Nat /\ faults < MaxFaults /\ MaxFaults \in Nat
    BY EduCiaaAssumption DEF Next, Transmit, ReadByte, ReadDamagedByte, LoseByte, Reboot,
                             setupVS1053, vars, line, TypeOK
  <2> QED BY <2>1
<1> QED BY <1>1, TypeCorrect, FaultsApartIsChannel, PTL DEF Spec
============================================================================
