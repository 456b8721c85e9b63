-------------------------- MODULE StrumPulseProofs --------------------------
(***************************************************************************)
(* Proofs about StrumPulse, for any number of strums, packets under way    *)
(* and losses.                                                             *)
(***************************************************************************)
EXTENDS StrumPulse, SequenceTheorems, TLAPS

---------------------------------------------------------------------------
(* The inductive invariant *)

Peak(n) == [strum |-> n, gz |-> 500]
Rest(n) == [strum |-> n, gz |-> 0]

\* The packets under way, from the one main() reads next to the last one sent.
Copy == Elements(copied) \ {NOTHING}
Path == Elements(line) \cup Copy \cup Elements(buffer) \cup Elements(air)

\* The order of sending, for packets with a chord.
Before(a, b) ==
  a.strum # 0 /\ b.strum # 0 =>
    a.strum < b.strum \/ (a.strum = b.strum /\ (a.gz = 500 \/ b.gz = 0))

AllBefore(A, B) == \A a \in A, b \in B : Before(a, b)
Ascending(q)    == \A i, j \in DOMAIN q : i < j => Before(q[i], q[j])

\* Packets are under way in the order of sending.
InOrder ==
  /\ Ascending(line) /\ Ascending(air)
  /\ AllBefore(Elements(line), Copy \cup Elements(buffer) \cup Elements(air))
  /\ AllBefore(Copy, Elements(buffer) \cup Elements(air))
  /\ AllBefore(Elements(buffer), Elements(air))

\* None is of a strum to come, and a pulse ends the last strum.
OrderInv ==
  /\ InOrder
  /\ \A m \in Path : m.strum <= strums
  /\ pulse # << >> => pulse[1] \in {0, strums}

\* What is under way comes after the strums already judged, and while gz is low
\* their first packets are gone.
Judged == Elements(heard) \cup tooSoon

HeardInv ==
  /\ HeardOnce
  /\ \A n \in Judged : n <= strums
  /\ \A n \in Judged : \A m \in Path :
       m.strum # 0 => n <= m.strum /\ (n = m.strum => above \/ m.gz = 0)

\* While gz is high or about to be, the packet that ends the last strum is to
\* be sent, is under way, or is lost.
RestInv ==
  above \/ (\E m \in Path : m.strum # 0 /\ m.gz = 500) =>
    strums # 0 /\ (pulse = <<strums>> \/ Rest(strums) \in Path \cup lost)

\* The first packet of a strum finds gz low, unless it was judged before or the
\* last packet of the strum before was lost.
Answered(n) == n \in Judged \/ (n # 1 /\ Rest(n - 1) \in Path \cup lost)

AfterInv ==
  \A n \in 1..strums :
    Peak(n) \in Path =>
      Answered(n) \/ (~above /\ \A k \in 1..(n - 1) : Peak(k) \notin Path)

\* StrumsAccounted, about the path.
Accounted ==
  \A n \in 1..strums :
    n \in Judged \/ Peak(n) \in Path \cup lost \/ Rest(n - 1) \in lost

StrumInv == OrderInv /\ HeardInv /\ RestInv /\ AfterInv /\ Accounted

---------------------------------------------------------------------------
(* Sequences *)

LEMMA ElementsOfSeq ==
  ASSUME NEW S, NEW s \in Seq(S)
  PROVE  Elements(s) \subseteq S
BY DEF Elements

LEMMA ElementsNone == Elements(<< >>) = {}
BY DEF Elements

LEMMA ElementsOne == ASSUME NEW x PROVE Elements(<<x>>) = {x}
<1>1. DOMAIN <<x>> = 1..1 /\ <<x>>[1] = x
  OBVIOUS
<1>2. \A i \in 1..1 : i = 1
  OBVIOUS
<1>3. 1 \in 1..1
  OBVIOUS
<1> HIDE DEF Elements
<1> QED BY <1>1, <1>2, <1>3, Zenon DEF Elements

\* A buffer for one.
LEMMA OneElement ==
  ASSUME NEW S, NEW s \in Seq(S), Len(s) <= 1, s # << >>
  PROVE  s = <<s[1]>> /\ Head(s) = s[1] /\ s[1] \in S /\ Elements(s) = {s[1]}
<1>0. Len(s) \in Nat \ {0}
  BY EmptySeq
<1>1. Len(s) = 1
  <2>1. \A n \in Nat \ {0} : n <= 1 => n = 1
    OBVIOUS
  <2> QED BY <1>0, <2>1, Zenon
<1>2. s = <<s[1]>> /\ Head(s) = s[1] /\ s[1] \in S
  BY <1>1
<1>3. Elements(<<s[1]>>) = {s[1]}
  BY ElementsOne, Zenon
<1> QED BY <1>2, <1>3, Zenon

LEMMA ElementsTail ==
  ASSUME NEW S, NEW s \in Seq(S), s # << >>
  PROVE  /\ Tail(s) \in Seq(S) /\ Len(Tail(s)) = Len(s) - 1
         /\ Head(s) \in S
         /\ Elements(s) = {Head(s)} \cup Elements(Tail(s))
<1>1. Tail(s) \in Seq(S) /\ Len(Tail(s)) = Len(s) - 1 /\ Head(s) = s[1] /\ Len(s) \in Nat \ {0} /\ Head(s) \in S
  BY EmptySeq
<1>2. \A i \in 1..(Len(s) - 1) : Tail(s)[i] = s[i + 1]
  BY <1>1
<1>3. ASSUME NEW x \in Elements(s) PROVE x \in {Head(s)} \cup Elements(Tail(s))
  <2>1. PICK i \in 1..Len(s) : x = s[i]
    BY <1>3 DEF Elements
  <2>2. CASE i = 1
    BY <2>1, <2>2, <1>1
  <2>3. CASE i # 1
    <3>1. i - 1 \in 1..(Len(s) - 1) /\ (i - 1) + 1 = i
      BY <1>1, <2>3
    <3>2. x = Tail(s)[i - 1] /\ i - 1 \in DOMAIN Tail(s)
      BY <3>1, <2>1, <1>1, <1>2
    <3> QED BY <3>2 DEF Elements
  <2> QED BY <2>2, <2>3
<1>4. ASSUME NEW x \in {Head(s)} \cup Elements(Tail(s)) PROVE x \in Elements(s)
  <2>1. CASE x = Head(s)
    BY <2>1, <1>1 DEF Elements
  <2>2. CASE x \in Elements(Tail(s))
    <3>1. PICK i \in 1..(Len(s) - 1) : x = Tail(s)[i]
      BY <2>2, <1>1 DEF Elements
    <3>2. i + 1 \in 1..Len(s) /\ x = s[i + 1]
      BY <3>1, <1>1, <1>2
    <3> QED BY <3>2 DEF Elements
  <2> QED BY <1>4, <2>1, <2>2
<1> QED BY <1>1, <1>3, <1>4

LEMMA ElementsAppend ==
  ASSUME NEW S, NEW s \in Seq(S), NEW x \in S
  PROVE  /\ Append(s, x) \in Seq(S) /\ Len(Append(s, x)) = Len(s) + 1
         /\ Elements(Append(s, x)) = Elements(s) \cup {x}
<1> DEFINE t == Append(s, x)
<1>1. t \in Seq(S) /\ Len(t) = Len(s) + 1 /\ Len(s) \in Nat
  OBVIOUS
<1>2. \A i \in 1..Len(s) : t[i] = s[i]
  OBVIOUS
<1>3. t[Len(s) + 1] = x
  OBVIOUS
<1> HIDE DEF t
<1>4. DOMAIN t = 1..(Len(s) + 1) /\ DOMAIN s = 1..Len(s)
  BY <1>1
<1>5. \A i \in 1..(Len(s) + 1) : i \in 1..Len(s) \/ i = Len(s) + 1
  BY <1>1
<1>6. 1..Len(s) \subseteq 1..(Len(s) + 1) /\ Len(s) + 1 \in 1..(Len(s) + 1)
  BY <1>1
<1>7. Elements(t) = Elements(s) \cup {x}
  BY <1>2, <1>3, <1>4, <1>5, <1>6 DEF Elements
<1> QED BY <1>1, <1>7 DEF t

LEMMA AscendingTail ==
  ASSUME NEW S, NEW s \in Seq(S), s # << >>, Ascending(s)
  PROVE  Ascending(Tail(s)) /\ AllBefore({Head(s)}, Elements(Tail(s)))
<1>1. DOMAIN s = 1..Len(s) /\ DOMAIN Tail(s) = 1..(Len(s) - 1) /\ Head(s) = s[1] /\ Len(s) \in Nat \ {0}
  BY EmptySeq
<1>2. \A i \in 1..(Len(s) - 1) : Tail(s)[i] = s[i + 1] /\ i + 1 \in 1..Len(s) /\ 1 < i + 1
  BY <1>1
<1>3. \A i, j \in 1..(Len(s) - 1) : i < j => i + 1 < j + 1
  BY <1>1
<1>4. 1 \in 1..Len(s)
  BY <1>1
<1>5. Ascending(Tail(s))
  BY <1>1, <1>2, <1>3 DEF Ascending
<1>6. ASSUME NEW m \in Elements(Tail(s)) PROVE Before(Head(s), m)
  <2>1. PICK i \in 1..(Len(s) - 1) : m = Tail(s)[i]
    BY <1>6, <1>1 DEF Elements
  <2> QED BY <2>1, <1>1, <1>2, <1>4 DEF Ascending
<1> QED BY <1>5, <1>6 DEF AllBefore

LEMMA AscendingAppend ==
  ASSUME NEW S, NEW s \in Seq(S), NEW x \in S,
         Ascending(s), AllBefore(Elements(s), {x})
  PROVE  Ascending(Append(s, x))
<1> DEFINE t == Append(s, x)
<1>1. DOMAIN t = 1..(Len(s) + 1) /\ DOMAIN s = 1..Len(s) /\ Len(s) \in Nat
  OBVIOUS
<1>2. (\A i \in 1..Len(s) : t[i] = s[i]) /\ t[Len(s) + 1] = x
  OBVIOUS
<1> HIDE DEF t
<1>3. \A i \in 1..Len(s) : s[i] \in Elements(s)
  BY <1>1 DEF Elements
<1> SUFFICES ASSUME NEW i \in 1..(Len(s) + 1), NEW j \in 1..(Len(s) + 1), i < j
             PROVE  Before(t[i], t[j])
  BY <1>1 DEF Ascending, t
<1>4. i \in 1..Len(s) /\ (j \in 1..Len(s) \/ j = Len(s) + 1)
  BY <1>1
<1>5. CASE j \in 1..Len(s)
  BY <1>1, <1>2, <1>4, <1>5 DEF Ascending
<1>6. CASE j = Len(s) + 1
  BY <1>2, <1>3, <1>4, <1>6 DEF AllBefore
<1> QED BY <1>4, <1>5, <1>6

---------------------------------------------------------------------------
(* Type correctness *)

LEMMA PacketFacts ==
  /\ \A k \in Strum : Peak(k) \in Packet /\ Rest(k) \in Packet
  /\ \A m \in Packet :
       /\ m.strum \in Strum /\ m # NOTHING
       /\ m = Peak(m.strum) \/ m = Rest(m.strum)
       /\ m.gz \in {0, 500} /\ (m.gz = 500 <=> m = Peak(m.strum)) /\ (m.gz = 0 <=> m = Rest(m.strum))
BY NothingAssumption DEF Packet, Peak, Rest

LEMMA StrumNat == \A m \in Packet : m.strum \in Nat
BY StrumPulseAssumption DEF Packet, Strum

LEMMA LoseFacts ==
  ASSUME NEW ms, Lose(ms), lost \subseteq Packet, ms \subseteq Packet \cup {NOTHING}
  PROVE  /\ lost' \subseteq Packet /\ lost \subseteq lost'
         /\ \A m \in ms \ {NOTHING} : m.strum # 0 => m \in lost'
BY DEF Lose

LEMMA SendType ==
  ASSUME TypeOK, NEW k \in Strum, NEW gz \in {0, 500}, sendPacket(k, gz)
  PROVE  air' \in Seq(Packet) /\ Len(air') <= MaxAir /\ lost' \subseteq Packet
<1> DEFINE m == [strum |-> k, gz |-> gz]
<1>1. m \in Packet
  BY DEF Packet
<1>2. CASE Len(air) < MaxAir /\ air' = Append(air, m) /\ UNCHANGED lost
  <2>1. air \in Seq(Packet) /\ lost \subseteq Packet
    BY DEF TypeOK
  <2>2. Append(air, m) \in Seq(Packet) /\ Len(Append(air, m)) = Len(air) + 1 /\ Len(air) \in Nat
    BY <1>1, <2>1, ElementsAppend
  <2> HIDE DEF m
  <2> QED BY <1>2, <2>1, <2>2, StrumPulseAssumption
<1>3. CASE Lose({m}) /\ UNCHANGED air
  <2>1. lost' \subseteq Packet
    BY <1>1, <1>3, LoseFacts DEF TypeOK
  <2> QED BY <1>3, <2>1 DEF TypeOK
<1> QED BY <1>2, <1>3 DEF sendPacket

LEMMA OneOf == ASSUME NEW S, NEW x \in S PROVE <<x>> \in Seq(S) /\ Len(<<x>>) <= 1
OBVIOUS

LEMMA NoneOf == ASSUME NEW S PROVE << >> \in Seq(S) /\ Len(<< >>) <= 1
OBVIOUS

\* TypeOK by part of the system.
TypeEmisor ==
  /\ strumAge \in 0..DEBOUNCE_MS /\ pulse \in Seq(Strum) /\ Len(pulse) <= 1
  /\ strums \in 0..MaxStrums
TypePath ==
  /\ air \in Seq(Packet) /\ Len(air) <= MaxAir
  /\ buffer \in Seq(Packet) /\ Len(buffer) <= 1
  /\ copied \in Seq(Packet \cup {NOTHING}) /\ Len(copied) <= 1
  /\ line \in Seq(Packet) /\ Len(line) <= MaxLine
  /\ lost \subseteq Packet
TypeCiaa  == heard \in Seq(1..MaxStrums) /\ tooSoon \subseteq 1..MaxStrums
TypeFlags ==
  /\ lastStrumRead \in BOOLEAN /\ lastStrumStable \in BOOLEAN
  /\ above \in BOOLEAN /\ cooling \in BOOLEAN

LEMMA TypeParts == TypeOK <=> TypeEmisor /\ TypePath /\ TypeCiaa /\ TypeFlags
BY Zenon DEF TypeOK, TypeEmisor, TypePath, TypeCiaa, TypeFlags

LEMMA FlagsStep == ASSUME TypeFlags, [Next]_vars PROVE TypeFlags'
<1>1. CASE Loop
  <2>1. PICK r \in BOOLEAN :
          lastStrumRead' = r /\ (lastStrumStable' = r \/ lastStrumStable' = lastStrumStable)
    BY <1>1, Zenon DEF Loop
  <2>2. above' = above /\ cooling' = cooling
    BY <1>1, Zenon DEF Loop, ciaa
  <2> QED BY <2>1, <2>2, Zenon DEF TypeFlags
<1>2. CASE Detect
  <2>1. lastStrumRead' = lastStrumRead /\ lastStrumStable' = lastStrumStable
    BY <1>2, Zenon DEF Detect, emisor
  <2>2. above' \in BOOLEAN
    <3>1. above' = above \/ above' = (Head(line).gz > 350)
      BY <1>2, Zenon DEF Detect, ciaa
    <3>2. (Head(line).gz > 350) \in BOOLEAN
      OBVIOUS
    <3> QED BY <3>1, <3>2, Zenon DEF TypeFlags
  <2>3. cooling' \in BOOLEAN
    BY <1>2, Zenon DEF Detect, ciaa, TypeFlags
  <2> QED BY <2>1, <2>2, <2>3, Zenon DEF TypeFlags
<1>3. CASE Cool
  <2>1. (~cooling) \in BOOLEAN
    OBVIOUS
  <2> QED BY <1>3, <2>1, Zenon DEF Cool, emisor, TypeFlags
<1>4. CASE EndPulse \/ LoseFrame \/ Receive \/ ReceiveInCopy \/ CopyStart \/ CopyEnd \/ UNCHANGED vars
  <2>1. UNCHANGED <<lastStrumRead, lastStrumStable, above, cooling>>
    BY <1>4, Zenon DEF EndPulse, LoseFrame, Receive, ReceiveInCopy, CopyStart, CopyEnd, emisor, ciaa, vars
  <2> QED BY <2>1, Zenon DEF TypeFlags
<1> QED BY <1>1, <1>2, <1>3, <1>4 DEF Next

LEMMA EmisorStep == ASSUME TypeOK, [Next]_vars PROVE TypeEmisor'
<1>0. TypeEmisor
  BY TypeParts
<1>1. CASE Loop
  <2>1. PICK r \in BOOLEAN :
          /\ strumAge' = IF r = lastStrumRead THEN Older(strumAge) ELSE 0
          /\ Strummed \/ UNCHANGED <<strums, pulse>>
    BY <1>1, Zenon DEF Loop
  <2>2. strumAge' \in 0..DEBOUNCE_MS
    BY <1>0, <2>1, StrumPulseAssumption DEF TypeEmisor, Older
  <2>3. ASSUME Strummed
        PROVE  pulse' \in Seq(Strum) /\ Len(pulse') <= 1 /\ strums' \in 0..MaxStrums
    <3>1. PICK k \in Strum : pulse' = <<k>> /\ (strums' = k \/ strums' = strums)
      <4>1. PICK chord \in BOOLEAN :
              /\ chord => strums < MaxStrums
              /\ strums' = IF chord THEN strums + 1 ELSE strums
              /\ pulse' = <<IF chord THEN strums + 1 ELSE 0>>
        BY <2>3 DEF Strummed
      <4>2. CASE chord
        BY <4>1, <4>2, <1>0, StrumPulseAssumption DEF TypeEmisor, Strum
      <4>3. CASE ~chord
        BY <4>1, <4>3, <1>0, StrumPulseAssumption DEF TypeEmisor, Strum
      <4> QED BY <4>2, <4>3
    <3> QED BY <3>1, <1>0, OneOf DEF TypeEmisor, Strum
  <2> QED BY <1>0, <2>1, <2>2, <2>3 DEF TypeEmisor
<1>2. CASE EndPulse
  BY <1>2, <1>0, NoneOf DEF EndPulse, TypeEmisor
<1>3. CASE Detect \/ Cool \/ LoseFrame \/ Receive \/ ReceiveInCopy \/ CopyStart \/ CopyEnd \/ UNCHANGED vars
  <2>1. UNCHANGED <<strumAge, pulse, strums>>
    BY <1>3, Zenon DEF Detect, Cool, LoseFrame, Receive, ReceiveInCopy, CopyStart, CopyEnd, emisor, vars
  <2> QED BY <1>0, <2>1 DEF TypeEmisor
<1> QED BY <1>1, <1>2, <1>3 DEF Next

LEMMA CiaaStep == ASSUME TypeOK, [Next]_vars PROVE TypeCiaa'
<1>0. TypeCiaa /\ TypePath
  BY TypeParts
<1>1. CASE Detect
  <2>1. Head(line).strum \in Strum
    BY <1>0, <1>1, ElementsTail, PacketFacts DEF Detect, TypePath
  <2>2. CASE Head(line).strum = 0
    BY <1>0, <1>1, <2>2 DEF Detect, ciaa, TypeCiaa
  <2>3. CASE Head(line).strum # 0
    <3>1. Head(line).strum \in 1..MaxStrums
      BY <2>1, <2>3, StrumPulseAssumption DEF Strum
    <3>2. Append(heard, Head(line).strum) \in Seq(1..MaxStrums)
      BY <1>0, <3>1, ElementsAppend DEF TypeCiaa
    <3>3. heard' = heard \/ heard' = Append(heard, Head(line).strum)
      BY <1>1, <2>3, Zenon DEF Detect
    <3>4. tooSoon' = tooSoon \/ tooSoon' = tooSoon \cup {Head(line).strum}
      BY <1>1, <2>3, Zenon DEF Detect
    <3> QED BY <1>0, <3>1, <3>2, <3>3, <3>4 DEF TypeCiaa
  <2> QED BY <2>2, <2>3
<1>2. CASE Loop \/ EndPulse \/ Cool \/ LoseFrame \/ Receive \/ ReceiveInCopy \/ CopyStart \/ CopyEnd \/ UNCHANGED vars
  <2>1. UNCHANGED <<heard, tooSoon>>
    BY <1>2, Zenon DEF Loop, EndPulse, Cool, LoseFrame, Receive, ReceiveInCopy, CopyStart, CopyEnd, ciaa, vars
  <2> QED BY <1>0, <2>1 DEF TypeCiaa
<1> QED BY <1>1, <1>2 DEF Next

---------------------------------------------------------------------------
(* What a step does to the packets under way *)

\* Nothing is sent or read; what is no longer under way is lost.
Shrinks ==
  /\ Path' \subseteq Path /\ lost \subseteq lost'
  /\ \A m \in Path : m.strum # 0 => m \in Path' \cup lost'
  /\ UNCHANGED <<strums, pulse, above, heard, tooSoon>>

\* m is sent, or lost at once.
Sends(m) ==
  /\ Path \subseteq Path' /\ Path' \subseteq Path \cup {m} /\ lost \subseteq lost'
  /\ m.strum # 0 => m \in Path' \cup lost'
  /\ UNCHANGED <<above, heard, tooSoon>>

\* main() reads m, which comes before what is left.
Reads(m) ==
  /\ Path = {m} \cup Path' /\ AllBefore({m}, Path')
  /\ UNCHANGED <<strums, pulse, lost>>

LEMMA BeforeItself == \A m \in Packet : Before(m, m)
BY PacketFacts DEF Before

LEMMA PathTypes ==
  ASSUME TypePath
  PROVE  /\ Path \subseteq Packet /\ Copy \subseteq Packet
         /\ Elements(line) \subseteq Packet /\ Elements(buffer) \subseteq Packet
         /\ Elements(air) \subseteq Packet /\ Elements(copied) \subseteq Packet \cup {NOTHING}
<1>1. /\ Elements(line) \subseteq Packet /\ Elements(buffer) \subseteq Packet
      /\ Elements(air) \subseteq Packet /\ Elements(copied) \subseteq Packet \cup {NOTHING}
  BY ElementsOfSeq DEF TypePath
<1> QED BY <1>1 DEF Path, Copy

LEMMA StillPath ==
  ASSUME TypePath, InOrder, UNCHANGED <<air, buffer, copied, line>>
  PROVE  InOrder' /\ Path' = Path
<1>1. Copy' = Copy /\ Path' = Path
  BY DEF Path, Copy
<1> QED BY <1>1 DEF InOrder

LEMMA SendStep ==
  ASSUME TypePath, TypeOK, InOrder, NEW k \in Strum, NEW gz \in {0, 500}, NEW m,
         m = [strum |-> k, gz |-> gz], sendPacket(k, gz),
         UNCHANGED <<buffer, copied, line, above, heard, tooSoon>>,
         AllBefore(Path, {m})
  PROVE  TypePath' /\ InOrder' /\ Sends(m)
<1>1. m \in Packet
  BY DEF Packet
<1>2. TypePath'
  BY SendType DEF TypePath
<1>3. Copy' = Copy
  BY DEF Copy
<1>4. CASE air' = Append(air, m) /\ UNCHANGED lost
  <2>1. Elements(air)' = Elements(air) \cup {m}
    BY <1>1, <1>4, ElementsAppend DEF TypePath
  <2>2. Path' = Path \cup {m}
    BY <1>3, <2>1 DEF Path
  <2>3. AllBefore(Elements(air), {m})
    BY DEF AllBefore, Path
  <2>4. Ascending(air)'
    BY <1>1, <1>4, <2>3, AscendingAppend DEF TypePath, InOrder
  <2>5. InOrder'
    BY <1>3, <2>1, <2>4 DEF InOrder, AllBefore, Path
  <2> QED BY <1>2, <1>4, <2>2, <2>5 DEF Sends
<1>5. CASE Lose({m}) /\ UNCHANGED air
  <2>1. InOrder' /\ Path' = Path
    BY <1>5, StillPath
  <2>2. lost \subseteq lost' /\ (m.strum # 0 => m \in lost')
    BY <1>1, <1>5, LoseFacts, PacketFacts DEF TypePath
  <2> QED BY <1>2, <2>1, <2>2 DEF Sends
<1> QED BY <1>4, <1>5 DEF sendPacket

\* The frame that arrives, or is lost, is the first of those in flight.
LEMMA FirstInAir ==
  ASSUME TypePath, InOrder, air # << >>
  PROVE  /\ Head(air) \in Packet /\ Tail(air) \in Seq(Packet) /\ Len(Tail(air)) <= MaxAir
         /\ Elements(air) = {Head(air)} \cup Elements(Tail(air))
         /\ Ascending(Tail(air)) /\ AllBefore({Head(air)}, Elements(Tail(air)))
<1>1. air \in Seq(Packet) /\ Len(air) <= MaxAir /\ Ascending(air)
  BY DEF TypePath, InOrder
<1>2. Len(Tail(air)) = Len(air) - 1 /\ Tail(air) \in Seq(Packet) /\ Head(air) \in Packet
  BY <1>1, ElementsTail
<1>3. Len(Tail(air)) <= MaxAir
  BY <1>1, <1>2, StrumPulseAssumption
<1> QED BY <1>1, <1>2, <1>3, ElementsTail, AscendingTail

LEMMA LoseFrameStep ==
  ASSUME TypePath, InOrder, LoseFrame
  PROVE  TypePath' /\ InOrder' /\ Shrinks
<1>1. /\ air # << >> /\ air' = Tail(air) /\ Lose({Head(air)})
      /\ UNCHANGED <<buffer, copied, line, strums, pulse, above, heard, tooSoon>>
  BY DEF LoseFrame, emisor, receptor, ciaa
<1>2. /\ lost' \subseteq Packet /\ lost \subseteq lost'
      /\ Head(air).strum # 0 => Head(air) \in lost'
  BY <1>1, FirstInAir, LoseFacts, PacketFacts DEF TypePath
<1>3. TypePath'
  BY <1>1, <1>2, FirstInAir DEF TypePath
<1>4. Copy' = Copy /\ Elements(air) = {Head(air)} \cup Elements(air)'
  BY <1>1, FirstInAir DEF Copy
<1>5. Path = {Head(air)} \cup Path'
  BY <1>1, <1>4 DEF Path
<1>6. InOrder'
  BY <1>1, <1>4, FirstInAir DEF InOrder, AllBefore
<1> QED BY <1>1, <1>2, <1>3, <1>5, <1>6 DEF Shrinks

LEMMA ReceiveStep ==
  ASSUME TypePath, InOrder, Receive
  PROVE  TypePath' /\ InOrder' /\ Shrinks
<1> DEFINE h == Head(air)
<1>1. /\ air # << >> /\ copied = << >> /\ buffer' = <<h>> /\ air' = Tail(air)
      /\ Lose(Elements(buffer))
      /\ UNCHANGED <<copied, line, strums, pulse, above, heard, tooSoon>>
  BY DEF Receive, emisor, ciaa
<1>2. /\ lost' \subseteq Packet /\ lost \subseteq lost'
      /\ \A m \in Elements(buffer) : m.strum # 0 => m \in lost'
  BY <1>1, LoseFacts, PacketFacts, PathTypes DEF TypePath
<1>3. h \in Packet
  BY <1>1, FirstInAir
<1>4. TypePath'
  BY <1>1, <1>2, <1>3, FirstInAir, OneOf DEF TypePath
<1>5. /\ Elements(copied) = {} /\ Copy = {} /\ Copy' = {} /\ Elements(buffer)' = {h}
      /\ Elements(air) = {h} \cup Elements(air)'
  BY <1>1, FirstInAir, ElementsNone, ElementsOne DEF Copy
<1>6. Path' = Elements(line) \cup {h} \cup Elements(air)' /\ Path = Path' \cup Elements(buffer)
  BY <1>1, <1>5 DEF Path
<1>7. InOrder'
  BY <1>1, <1>5, FirstInAir DEF InOrder, AllBefore
<1> QED BY <1>1, <1>2, <1>4, <1>6, <1>7 DEF Shrinks

LEMMA CopyStartStep ==
  ASSUME TypePath, InOrder, CopyStart
  PROVE  TypePath' /\ InOrder' /\ Shrinks
<1>1. /\ buffer # << >> /\ copied = << >> /\ copied' = buffer /\ buffer' = << >>
      /\ UNCHANGED <<air, line, lost, strums, pulse, above, heard, tooSoon>>
  BY DEF CopyStart, emisor, ciaa
<1>2. TypePath'
  BY <1>1, NoneOf DEF TypePath
<1>3. /\ Copy = {} /\ Copy' = Elements(buffer) /\ Elements(buffer)' = {}
  BY <1>1, ElementsNone, PathTypes, PacketFacts DEF Copy
<1>4. Path' = Path
  BY <1>1, <1>3 DEF Path
<1>5. InOrder'
  BY <1>1, <1>3 DEF InOrder, AllBefore
<1> QED BY <1>1, <1>2, <1>4, <1>5 DEF Shrinks

LEMMA ReceiveInCopyStep ==
  ASSUME TypePath, InOrder, ReceiveInCopy
  PROVE  TypePath' /\ InOrder' /\ Shrinks
<1> DEFINE h == Head(air)
           ms == (Elements(copied) \cup {h}) \ (Elements(copied') \cup Elements(buffer'))
<1>1. /\ air # << >> /\ copied # << >> /\ buffer = << >> /\ air' = Tail(air)
      /\ copied' \in {copied, <<h>>, <<NOTHING>>} /\ buffer' \in {<< >>, <<h>>}
      /\ Lose(ms)
      /\ UNCHANGED <<line, strums, pulse, above, heard, tooSoon>>
  BY DEF ReceiveInCopy, emisor, ciaa
<1>2. h \in Packet /\ Elements(air) = {h} \cup Elements(air)' /\ AllBefore({h}, Elements(air)')
  BY <1>1, FirstInAir
<1>3. /\ lost' \subseteq Packet /\ lost \subseteq lost'
      /\ \A m \in ms \ {NOTHING} : m.strum # 0 => m \in lost'
  BY <1>1, <1>2, LoseFacts, PathTypes DEF TypePath
<1>4. /\ copied' \in Seq(Packet \cup {NOTHING}) /\ Len(copied') <= 1
      /\ Elements(copied') \in {Elements(copied), {h}, {NOTHING}}
  BY <1>1, <1>2, OneOf, ElementsOne DEF TypePath
<1>5. /\ buffer' \in Seq(Packet) /\ Len(buffer') <= 1
      /\ Elements(buffer') \in {{}, {h}}
  <2>1. CASE buffer' = << >>
    BY <2>1, NoneOf, ElementsNone
  <2>2. CASE buffer' = <<h>>
    BY <1>2, <2>2, OneOf, ElementsOne
  <2> QED BY <1>1, <2>1, <2>2
<1>6. TypePath'
  BY <1>1, <1>3, <1>4, <1>5, FirstInAir DEF TypePath
<1>7. Copy' \in {Copy, {h}, {}} /\ Elements(buffer) = {}
  BY <1>1, <1>2, <1>4, ElementsNone, PacketFacts DEF Copy
<1>8. Path' \subseteq Path
  BY <1>1, <1>2, <1>5, <1>7 DEF Path
<1>9. ASSUME NEW m \in Path, m.strum # 0 PROVE m \in Path' \cup lost'
  <2>1. CASE m \in Elements(line) \cup Elements(air)'
    BY <1>1, <2>1 DEF Path
  <2>2. CASE m \in Copy \cup {h}
    <3>1. m \in Elements(copied) \cup {h} /\ m # NOTHING
      BY <1>2, <2>2, PacketFacts DEF Copy
    <3>2. CASE m \in ms
      BY <1>3, <1>9, <3>1, <3>2
    <3>3. CASE m \notin ms
      BY <3>1, <3>3 DEF Path, Copy
    <3> QED BY <3>2, <3>3
  <2> QED BY <1>2, <1>7, <1>9, <2>1, <2>2 DEF Path
<1>10. Before(h, h)
  BY <1>2, BeforeItself
<1>11. Ascending(air)'
  BY <1>1, FirstInAir
<1>12. InOrder'
  BY <1>1, <1>2, <1>5, <1>7, <1>10, <1>11 DEF InOrder, AllBefore
<1> QED BY <1>1, <1>3, <1>6, <1>8, <1>9, <1>12 DEF Shrinks

LEMMA CopyEndStep ==
  ASSUME TypePath, InOrder, CopyEnd
  PROVE  TypePath' /\ InOrder' /\ Shrinks
<1> DEFINE c == copied[1]
<1>1. /\ copied # << >> /\ copied' = << >>
      /\ UNCHANGED <<air, buffer, strums, pulse, above, heard, tooSoon>>
  BY DEF CopyEnd, emisor, ciaa
<1>2. /\ copied = <<c>> /\ c \in Packet \cup {NOTHING} /\ Elements(copied) = {c}
  BY <1>1, OneElement DEF TypePath
<1>3. Copy' = {} /\ copied' \in Seq(Packet \cup {NOTHING}) /\ Len(copied') <= 1
  BY <1>1, ElementsNone, NoneOf DEF Copy
<1>4. CASE copied = <<NOTHING>> /\ UNCHANGED <<line, lost>>
  <2>1. Copy = {}
    BY <1>4, ElementsOne DEF Copy
  <2>2. Path' = Path
    BY <1>1, <1>3, <1>4, <2>1 DEF Path
  <2>3. TypePath'
    BY <1>1, <1>3, <1>4 DEF TypePath
  <2>4. InOrder'
    BY <1>1, <1>3, <1>4, <2>1 DEF InOrder, AllBefore
  <2> QED BY <1>1, <1>4, <2>2, <2>3, <2>4 DEF Shrinks
<1>5. CASE copied # <<NOTHING>> /\ Len(line) < MaxLine /\ line' = Append(line, c) /\ UNCHANGED lost
  <2>1. c \in Packet /\ Copy = {c}
    BY <1>2, <1>5, PacketFacts DEF Copy
  <2>2. /\ line' \in Seq(Packet) /\ Len(line') = Len(line) + 1 /\ Len(line) \in Nat
        /\ Elements(line)' = Elements(line) \cup {c}
    BY <1>5, <2>1, ElementsAppend DEF TypePath
  <2>3. Path' = Path
    BY <1>1, <1>3, <2>1, <2>2 DEF Path
  <2>4. Len(line') <= MaxLine
    BY <1>5, <2>2, StrumPulseAssumption
  <2>5. TypePath'
    BY <1>1, <1>3, <1>5, <2>2, <2>4 DEF TypePath
  <2>6. AllBefore(Elements(line), {c})
    BY <2>1 DEF InOrder, AllBefore
  <2>7. Ascending(line)'
    BY <1>5, <2>1, <2>6, AscendingAppend DEF InOrder, TypePath
  <2>8. InOrder'
    BY <1>1, <1>3, <2>1, <2>2, <2>7 DEF InOrder, AllBefore
  <2> QED BY <1>1, <1>5, <2>3, <2>5, <2>8 DEF Shrinks
<1>6. CASE copied # <<NOTHING>> /\ Lose(Elements(copied)) /\ UNCHANGED line
  <2>1. c \in Packet /\ Copy = {c}
    BY <1>2, <1>6, PacketFacts DEF Copy
  <2>2. lost' \subseteq Packet /\ lost \subseteq lost' /\ (c.strum # 0 => c \in lost')
    BY <1>2, <1>6, <2>1, LoseFacts, PacketFacts DEF TypePath
  <2>3. Path = {c} \cup Path'
    BY <1>1, <1>3, <1>6, <2>1 DEF Path
  <2>4. TypePath'
    BY <1>1, <1>3, <1>6, <2>2 DEF TypePath
  <2>5. InOrder'
    BY <1>1, <1>3, <1>6 DEF InOrder, AllBefore
  <2> QED BY <1>1, <2>2, <2>3, <2>4, <2>5 DEF Shrinks
<1> QED BY <1>4, <1>5, <1>6 DEF CopyEnd

LEMMA DetectStep ==
  ASSUME TypePath, InOrder, Detect
  PROVE  /\ TypePath' /\ InOrder' /\ Reads(Head(line))
         /\ line # << >> /\ Head(line) \in Packet
<1> DEFINE m == Head(line)
<1>1. /\ line # << >> /\ line' = Tail(line)
      /\ UNCHANGED <<air, buffer, copied, strums, pulse, lost>>
  BY DEF Detect, emisor, receptor
<1>2. line \in Seq(Packet) /\ Len(line) <= MaxLine /\ Ascending(line) /\ Len(line) \in Nat
  BY DEF TypePath, InOrder
<1>3. /\ m \in Packet /\ line' \in Seq(Packet) /\ Len(line') = Len(line) - 1
      /\ Elements(line) = {m} \cup Elements(line)'
  BY <1>1, <1>2, ElementsTail
<1>4. Ascending(line)' /\ AllBefore({m}, Elements(line)')
  BY <1>1, <1>2, AscendingTail
<1>5. Len(line') <= MaxLine
  BY <1>2, <1>3, StrumPulseAssumption
<1>6. TypePath'
  BY <1>1, <1>3, <1>5 DEF TypePath
<1>7. Copy' = Copy
  BY <1>1 DEF Copy
<1>8. Path = {m} \cup Path'
  BY <1>1, <1>3, <1>7 DEF Path
<1>9. InOrder' /\ AllBefore({m}, Path')
  BY <1>1, <1>3, <1>4, <1>7 DEF InOrder, AllBefore, Path
<1> QED BY <1>1, <1>3, <1>6, <1>8, <1>9 DEF Reads

---------------------------------------------------------------------------
(* The invariant is kept *)

LEMMA PeakRest ==
  /\ \A n : Peak(n).strum = n /\ Peak(n).gz = 500 /\ Rest(n).strum = n /\ Rest(n).gz = 0
  /\ \A n, k : Peak(n) # Rest(k)
  /\ \A n, k : Peak(n) = Peak(k) => n = k
  /\ \A n, k : Rest(n) = Rest(k) => n = k
<1>1. \A n : Peak(n).strum = n /\ Peak(n).gz = 500 /\ Rest(n).strum = n /\ Rest(n).gz = 0
  BY DEF Peak, Rest
<1>2. 500 # 0
  OBVIOUS
<1> HIDE DEF Peak, Rest
<1>3. \A n, k : Peak(n) # Rest(k)
  BY <1>1, <1>2
<1>4. ASSUME NEW n, NEW k, Peak(n) = Peak(k) PROVE n = k
  BY <1>1, <1>4
<1>5. ASSUME NEW n, NEW k, Rest(n) = Rest(k) PROVE n = k
  BY <1>1, <1>5
<1> QED BY <1>1, <1>3, <1>4, <1>5

LEMMA Ranges ==
  ASSUME TypeOK
  PROVE  /\ strums \in Nat /\ 1..strums \subseteq Strum \ {0} /\ Strum \subseteq Nat
         /\ Path \subseteq Packet /\ Judged \subseteq 1..MaxStrums
<1>1. TypePath /\ TypeCiaa /\ TypeEmisor
  BY TypeParts
<1>2. Elements(heard) \subseteq 1..MaxStrums
  BY <1>1, ElementsOfSeq DEF TypeCiaa
<1>3. Judged \subseteq 1..MaxStrums
  BY <1>1, <1>2 DEF Judged, TypeCiaa
<1>4. strums \in Nat /\ 1..strums \subseteq Strum \ {0} /\ Strum \subseteq Nat
  BY <1>1, StrumPulseAssumption DEF TypeEmisor, Strum
<1>5. Path \subseteq Packet
  BY <1>1, PathTypes
<1> QED BY <1>3, <1>4, <1>5

LEMMA ShrinkKeeps ==
  ASSUME TypeOK, TypeOK', StrumInv, Shrinks, InOrder'
  PROVE  StrumInv'
<1>1. /\ strums' = strums /\ pulse' = pulse /\ above' = above /\ heard' = heard /\ tooSoon' = tooSoon
      /\ Path' \subseteq Path /\ lost \subseteq lost'
      /\ \A m \in Path : m.strum # 0 => m \in Path' \cup lost'
  BY DEF Shrinks
<1>2. Judged' = Judged /\ (HeardOnce <=> HeardOnce')
  BY <1>1 DEF Judged, HeardOnce
<1>3. OrderInv' /\ HeardInv'
  BY <1>1, <1>2 DEF StrumInv, OrderInv, HeardInv
<1>4. RestInv'
  <2>1. Rest(strums).strum = strums
    BY PeakRest
  <2> QED BY <1>1, <2>1 DEF StrumInv, RestInv
<1>5. AfterInv' /\ Accounted'
  <2>1. strums \in Nat
    BY Ranges
  <2> SUFFICES ASSUME NEW n \in 1..strums
               PROVE  /\ Peak(n) \in Path' =>
                           Answered(n)' \/ (~above /\ \A k \in 1..(n - 1) : Peak(k) \notin Path')
                      /\ n \in Judged \/ Peak(n) \in Path' \cup lost' \/ Rest(n - 1) \in lost'
    BY <1>1, <1>2 DEF AfterInv, Accounted
  <2>2. Peak(n).strum # 0 /\ (n # 1 => Rest(n - 1).strum # 0)
    BY <2>1, PeakRest
  <2>3. Answered(n) => Answered(n)'
    BY <1>1, <1>2, <2>2 DEF Answered
  <2>4. Peak(n) \in Path => Answered(n) \/ (~above /\ \A k \in 1..(n - 1) : Peak(k) \notin Path)
    BY DEF StrumInv, AfterInv
  <2>5. n \in Judged \/ Peak(n) \in Path \cup lost \/ Rest(n - 1) \in lost
    BY DEF StrumInv, Accounted
  <2> QED BY <1>1, <2>2, <2>3, <2>4, <2>5
<1> QED BY <1>3, <1>4, <1>5 DEF StrumInv

\* What sending m leaves as it was.
LEMMA SendKeeps ==
  ASSUME TypeOK, StrumInv, NEW m, Sends(m), strums' \in {strums, strums + 1}
  PROVE  /\ Judged' = Judged /\ HeardOnce' /\ (\A n \in Judged : n <= strums')
         /\ \A n : Answered(n) => Answered(n)'
         /\ \A n \in 1..strums :
              n \in Judged \/ Peak(n) \in Path' \cup lost' \/ Rest(n - 1) \in lost'
<1>1. /\ above' = above /\ heard' = heard /\ tooSoon' = tooSoon
      /\ Path \subseteq Path' /\ lost \subseteq lost'
  BY DEF Sends
<1>2. Judged' = Judged /\ HeardOnce'
  BY <1>1 DEF Judged, HeardOnce, StrumInv, HeardInv
<1>3. \A n \in Judged : n \in Nat /\ n <= strums
  BY Ranges DEF StrumInv, HeardInv
<1>4. \A n : Answered(n) => Answered(n)'
  BY <1>1, <1>2 DEF Answered
<1>5. strums \in Nat
  BY Ranges
<1> QED BY <1>1, <1>2, <1>3, <1>4, <1>5 DEF StrumInv, Accounted

\* The first packet of a strum, with a chord or without one.
LEMMA StrummedKeeps ==
  ASSUME TypeOK, TypeOK', StrumInv, InOrder', NEW k \in Strum,
         pulse = << >>, pulse' = <<k>>, Sends(Peak(k)),
         (k = 0 /\ strums' = strums) \/ (k = strums + 1 /\ strums' = k)
  PROVE  StrumInv'
<1>1. /\ above' = above /\ lost \subseteq lost'
      /\ Path \subseteq Path' /\ Path' \subseteq Path \cup {Peak(k)}
      /\ k # 0 => Peak(k) \in Path' \cup lost'
  BY PeakRest DEF Sends
<1>2. strums \in Nat /\ k \in Nat /\ Path \subseteq Packet /\ Judged \subseteq 1..MaxStrums
  BY Ranges
<1>0. strums' \in {strums, strums + 1}
  OBVIOUS
<1>3. /\ Judged' = Judged /\ HeardOnce' /\ (\A n \in Judged : n <= strums')
      /\ \A n : Answered(n) => Answered(n)'
      /\ \A n \in 1..strums :
           n \in Judged \/ Peak(n) \in Path' \cup lost' \/ Rest(n - 1) \in lost'
  BY <1>0, SendKeeps
<1>4. \A m \in Path : m.strum \in Nat /\ m.strum <= strums
  <2>1. \A m \in Path : m.strum \in Strum
    BY <1>2, PacketFacts
  <2>2. Strum \subseteq Nat
    BY Ranges
  <2> QED BY <2>1, <2>2 DEF StrumInv, OrderInv
<1>5. OrderInv'
  <2>1. \A m \in Path' : m.strum <= strums'
    BY <1>1, <1>2, <1>4, PeakRest
  <2>2. pulse'[1] \in {0, strums'}
    OBVIOUS
  <2> QED BY <2>1, <2>2 DEF OrderInv
<1>6. HeardInv'
  <2> SUFFICES ASSUME NEW n \in Judged, NEW m \in Path', m.strum # 0
               PROVE  n <= m.strum /\ (n = m.strum => above \/ m.gz = 0)
    BY <1>1, <1>3 DEF HeardInv
  <2>1. CASE m \in Path
    BY <2>1 DEF StrumInv, HeardInv
  <2>2. CASE m = Peak(k)
    <3>1. n <= strums /\ n \in Nat /\ m.strum = k
      BY <1>2, <2>2, PeakRest DEF StrumInv, HeardInv
    <3> QED BY <1>2, <3>1
  <2> QED BY <1>1, <2>1, <2>2
<1>7. (above \/ \E m \in Path : m.strum # 0 /\ m.gz = 500) =>
        strums # 0 /\ Rest(strums) \in Path \cup lost
  <2>1. pulse # <<strums>>
    OBVIOUS
  <2> QED BY <2>1 DEF StrumInv, RestInv
<1>8. RestInv'
  <2>1. CASE k = 0
    <3>1. Peak(k).strum = 0
      BY <2>1, PeakRest
    <3> QED BY <1>1, <1>2, <1>7, <2>1, <3>1 DEF RestInv
  <2>2. CASE k = strums + 1
    BY <1>2, <2>2 DEF RestInv
  <2> QED BY <2>1, <2>2
<1>9. AfterInv'
  <2> SUFFICES ASSUME NEW n \in 1..strums', Peak(n) \in Path'
               PROVE  Answered(n)' \/ (~above /\ \A i \in 1..(n - 1) : Peak(i) \notin Path')
    BY <1>1 DEF AfterInv
  <2>1. CASE n \in 1..strums
    <3>1. \A i \in 1..n : i # k
      BY <1>2, <2>1
    <3>2. \A i \in 1..n : Peak(i) \in Path' => Peak(i) \in Path
      BY <1>1, <3>1, PeakRest
    <3>3. n \in 1..n /\ \A i \in 1..(n - 1) : i \in 1..n
      BY <1>2, <2>1
    <3>4. Answered(n) \/ (~above /\ \A i \in 1..(n - 1) : Peak(i) \notin Path)
      BY <2>1, <3>2, <3>3 DEF StrumInv, AfterInv
    <3> QED BY <1>3, <3>2, <3>3, <3>4
  <2>2. CASE n = strums + 1
    <3>1. k = strums + 1
      BY <1>2, <2>2
    <3>2. CASE above \/ \E m \in Path : m.strum # 0 /\ m.gz = 500
      <4>1. n # 1 /\ n - 1 = strums /\ Rest(n - 1) \in Path' \cup lost'
        BY <1>1, <1>2, <1>7, <2>2, <3>2
      <4> QED BY <4>1 DEF Answered
    <3>3. CASE ~above /\ \A m \in Path : ~(m.strum # 0 /\ m.gz = 500)
      <4>1. \A i \in 1..(n - 1) : Peak(i).strum # 0 /\ Peak(i).gz = 500 /\ i # k
        BY <1>2, <2>2, <3>1, PeakRest
      <4>2. \A i \in 1..(n - 1) : Peak(i) \notin Path'
        BY <1>1, <3>3, <4>1, PeakRest
      <4> QED BY <3>3, <4>2
    <3> QED BY <3>2, <3>3
  <2> QED BY <1>2, <2>1, <2>2
<1>10. Accounted'
  <2>1. \A n \in 1..strums' : n \in 1..strums \/ n = k
    BY <1>2
  <2>2. \A n \in 1..strums' : n = k => Peak(n) \in Path' \cup lost'
    BY <1>1, <1>2
  <2> QED BY <1>3, <2>1, <2>2 DEF Accounted
<1> QED BY <1>5, <1>6, <1>8, <1>9, <1>10 DEF StrumInv

\* The packet that ends a pulse.
LEMMA EndPulseKeeps ==
  ASSUME TypeOK, TypeOK', StrumInv, InOrder', NEW k \in {0, strums},
         pulse # << >>, k = pulse[1], pulse' = << >>, Sends(Rest(k)), strums' = strums
  PROVE  StrumInv'
<1>1. /\ above' = above /\ lost \subseteq lost'
      /\ Path \subseteq Path' /\ Path' \subseteq Path \cup {Rest(k)}
      /\ k # 0 => Rest(k) \in Path' \cup lost'
  BY PeakRest DEF Sends
<1>2. strums \in Nat /\ Path \subseteq Packet /\ Judged \subseteq 1..MaxStrums
  BY Ranges
<1>3. /\ Judged' = Judged /\ HeardOnce' /\ (\A n \in Judged : n <= strums')
      /\ \A n : Answered(n) => Answered(n)'
      /\ \A n \in 1..strums :
           n \in Judged \/ Peak(n) \in Path' \cup lost' \/ Rest(n - 1) \in lost'
  BY SendKeeps
<1>4. OrderInv'
  <2>1. \A m \in Path' : m.strum <= strums
    BY <1>1, <1>2, PeakRest DEF StrumInv, OrderInv
  <2> QED BY <2>1 DEF OrderInv
<1>5. HeardInv'
  <2> SUFFICES ASSUME NEW n \in Judged, NEW m \in Path', m.strum # 0
               PROVE  n <= m.strum /\ (n = m.strum => above \/ m.gz = 0)
    BY <1>1, <1>3 DEF HeardInv
  <2>1. CASE m \in Path
    BY <2>1 DEF StrumInv, HeardInv
  <2>2. CASE m = Rest(k)
    <3>1. n <= strums /\ m.strum = k /\ m.gz = 0
      BY <2>2, PeakRest DEF StrumInv, HeardInv
    <3> QED BY <1>2, <3>1
  <2> QED BY <1>1, <2>1, <2>2
<1>6. \A n : Peak(n) \in Path' => Peak(n) \in Path
  BY <1>1, PeakRest
<1>7. RestInv'
  <2> SUFFICES ASSUME above \/ \E m \in Path' : m.strum # 0 /\ m.gz = 500
               PROVE  strums # 0 /\ Rest(strums) \in Path' \cup lost'
    BY <1>1 DEF RestInv
  <2>1. above \/ \E m \in Path : m.strum # 0 /\ m.gz = 500
    BY <1>1, PeakRest
  <2>2. strums # 0 /\ (pulse = <<strums>> \/ Rest(strums) \in Path \cup lost)
    BY <2>1 DEF StrumInv, RestInv
  <2>3. CASE pulse = <<strums>>
    <3>1. k = strums
      BY <2>3
    <3> QED BY <1>1, <2>2, <3>1
  <2> QED BY <1>1, <2>2, <2>3
<1>8. AfterInv'
  BY <1>1, <1>3, <1>6 DEF StrumInv, AfterInv
<1>9. Accounted'
  BY <1>3 DEF Accounted
<1> QED BY <1>4, <1>5, <1>7, <1>8, <1>9 DEF StrumInv
LEMMA LargerSeq == ASSUME NEW S, NEW T, S \subseteq T, NEW s \in Seq(S) PROVE s \in Seq(T)
OBVIOUS

\* heard grows in order.
LEMMA HeardAppend ==
  ASSUME NEW h \in Seq(Nat), NEW n \in Nat,
         \A i, j \in 1..Len(h) : i < j => h[i] < h[j],
         \A k \in Elements(h) : k < n
  PROVE  LET g == Append(h, n) IN \A i, j \in 1..Len(g) : i < j => g[i] < g[j]
<1> DEFINE g == Append(h, n)
<1>1. Len(g) = Len(h) + 1 /\ Len(h) \in Nat
  OBVIOUS
<1>2. (\A i \in 1..Len(h) : g[i] = h[i]) /\ g[Len(h) + 1] = n
  OBVIOUS
<1>3. \A i \in 1..Len(h) : h[i] < n
  BY DEF Elements
<1> HIDE DEF g
<1> SUFFICES ASSUME NEW i \in 1..(Len(h) + 1), NEW j \in 1..(Len(h) + 1), i < j
             PROVE  g[i] < g[j]
  BY <1>1 DEF g
<1>4. i \in 1..Len(h) /\ (j \in 1..Len(h) \/ j = Len(h) + 1)
  BY <1>1
<1> QED BY <1>2, <1>3, <1>4

\* detectStrum() is given the packet that ends a pulse.
LEMMA RestReadKeeps ==
  ASSUME TypeOK, TypeOK', StrumInv, InOrder', NEW j \in Nat \ {0}, Reads(Rest(j)),
         above' = FALSE, heard' = heard, tooSoon' = tooSoon
  PROVE  StrumInv'
<1>1. /\ strums' = strums /\ pulse' = pulse /\ lost' = lost
      /\ Path = {Rest(j)} \cup Path' /\ AllBefore({Rest(j)}, Path')
  BY DEF Reads
<1>2. strums \in Nat /\ Strum \subseteq Nat /\ Path \subseteq Packet /\ Judged \subseteq 1..MaxStrums
  BY Ranges
<1>3. Judged' = Judged /\ HeardOnce'
  BY DEF Judged, HeardOnce, StrumInv, HeardInv
<1>4. OrderInv'
  BY <1>1 DEF StrumInv, OrderInv
<1>5. \A m \in Path' : m \in Packet /\ m.strum \in Nat /\ Before(Rest(j), m)
  <2>1. \A m \in Path' : m \in Packet /\ Before(Rest(j), m)
    BY <1>1, <1>2 DEF AllBefore
  <2> QED BY <2>1, StrumNat
<1>6. \A m \in Path' : m.strum # 0 => j < m.strum \/ (j = m.strum /\ m.gz = 0)
  BY <1>5, PeakRest DEF Before
<1>7. HeardInv'
  <2>1. \A n \in Judged : n \in Nat /\ n <= strums /\ n <= j
    BY <1>1, <1>2, PeakRest DEF StrumInv, HeardInv
  <2>2. \A n \in Judged : \A m \in Path' : m.strum # 0 => n <= m.strum /\ (n = m.strum => m.gz = 0)
    BY <1>5, <1>6, <2>1
  <2> QED BY <1>1, <1>3, <2>1, <2>2 DEF HeardInv
<1>8. \A n \in Nat : Peak(n) \in Path' /\ n # 0 => j < n
  BY <1>6, PeakRest
<1>9. RestInv'
  <2> SUFFICES ASSUME NEW m \in Path', m.strum # 0, m.gz = 500
               PROVE  strums # 0 /\ (pulse = <<strums>> \/ Rest(strums) \in Path' \cup lost)
    BY <1>1 DEF RestInv
  <2>1. strums # 0 /\ (pulse = <<strums>> \/ Rest(strums) \in Path \cup lost)
    BY <1>1 DEF StrumInv, RestInv
  <2>2. j < m.strum /\ m.strum <= strums
    BY <1>1, <1>6 DEF StrumInv, OrderInv
  <2>3. Rest(strums) # Rest(j)
    BY <1>2, <1>5, <2>2, PeakRest
  <2> QED BY <1>1, <2>1, <2>3
<1>10. AfterInv'
  <2> SUFFICES ASSUME NEW n \in 1..strums, Peak(n) \in Path', ~Answered(n)'
               PROVE  \A k \in 1..(n - 1) : Peak(k) \notin Path'
    BY <1>1 DEF AfterInv
  <2>1. CASE ~Answered(n)
    <3>1. \A k \in 1..(n - 1) : Peak(k) \notin Path
      BY <1>1, <2>1 DEF StrumInv, AfterInv
    <3> QED BY <1>1, <3>1
  <2>2. CASE Answered(n)
    <3>1. n # 1 /\ Rest(n - 1) = Rest(j)
      BY <1>1, <1>3, <2>2 DEF Answered
    <3>2. n - 1 = j
      BY <3>1, PeakRest
    <3>3. \A k \in 1..(n - 1) : k \in Nat /\ k # 0 /\ ~(j < k)
      BY <1>2, <3>2
    <3> QED BY <1>8, <3>3
  <2> QED BY <2>1, <2>2
<1>11. Accounted'
  BY <1>1, <1>3, PeakRest DEF StrumInv, Accounted
<1> QED BY <1>4, <1>7, <1>9, <1>10, <1>11 DEF StrumInv

\* detectStrum() is given the first packet of a strum: if gz was low, the strum
\* is heard or comes too soon.
LEMMA PeakReadKeeps ==
  ASSUME TypeOK, TypeOK', StrumInv, InOrder', NEW j \in Nat \ {0}, Reads(Peak(j)),
         above' = TRUE,
         \/ above /\ heard' = heard /\ tooSoon' = tooSoon
         \/ ~above /\ heard' = Append(heard, j) /\ tooSoon' = tooSoon
         \/ ~above /\ heard' = heard /\ tooSoon' = tooSoon \cup {j}
  PROVE  StrumInv'
<1>1. /\ strums' = strums /\ pulse' = pulse /\ lost' = lost
      /\ Path = {Peak(j)} \cup Path' /\ AllBefore({Peak(j)}, Path')
  BY DEF Reads
<1>2. /\ strums \in Nat /\ Strum \subseteq Nat /\ Path \subseteq Packet
      /\ Judged \subseteq Nat /\ heard \in Seq(Nat)
  <2>1. heard \in Seq(1..MaxStrums) /\ Judged \subseteq 1..MaxStrums
    BY Ranges DEF TypeOK
  <2>2. 1..MaxStrums \subseteq Nat
    BY StrumPulseAssumption
  <2> QED BY <2>1, <2>2, Ranges, LargerSeq
<1>3. Judged' = IF above THEN Judged ELSE Judged \cup {j}
  <2>1. Elements(Append(heard, j)) = Elements(heard) \cup {j}
    BY <1>2, ElementsAppend
  <2> QED BY <2>1 DEF Judged
<1>4. j <= strums /\ \A n \in Judged : n <= j /\ n <= strums /\ (~above => n < j)
  <2>1. j <= strums
    BY <1>1, PeakRest DEF StrumInv, OrderInv
  <2>2. \A n \in Judged : n <= j /\ n <= strums /\ (n = j => above)
    BY <1>1, PeakRest DEF StrumInv, HeardInv
  <2> QED BY <1>2, <2>1, <2>2
<1>5. OrderInv'
  BY <1>1 DEF StrumInv, OrderInv
<1>6. \A m \in Path' : m \in Packet /\ m.strum \in Nat /\ (m.strum # 0 => j <= m.strum)
  <2>1. \A m \in Path' : m \in Packet /\ m.strum \in Nat /\ Before(Peak(j), m)
    <3>1. \A m \in Path' : m \in Packet /\ Before(Peak(j), m)
      BY <1>1, <1>2 DEF AllBefore
    <3> QED BY <3>1, StrumNat
  <2> QED BY <2>1, PeakRest DEF Before
<1>7. HeardOnce'
  <2>0. HeardOnce
    BY DEF StrumInv, HeardInv
  <2>1. CASE above
    BY <2>0, <2>1 DEF HeardOnce
  <2>2. CASE ~above /\ heard' = Append(heard, j) /\ tooSoon' = tooSoon
    <3>1. \A k \in Elements(heard) : k < j
      BY <1>4, <2>2 DEF Judged
    <3>2. \A i, k \in 1..Len(heard)' : i < k => heard'[i] < heard'[k]
      BY <1>2, <2>0, <2>2, <3>1, HeardAppend DEF HeardOnce
    <3>3. j \notin tooSoon
      BY <1>2, <1>4, <2>2 DEF Judged
    <3>4. \A i \in 1..Len(heard)' : heard'[i] \notin tooSoon
      <4>1. Len(heard)' = Len(heard) + 1 /\ Len(heard) \in Nat
        BY <1>2, <2>2
      <4>2. \A i \in 1..(Len(heard) + 1) : (heard'[i] = heard[i] /\ i \in 1..Len(heard)) \/ heard'[i] = j
        BY <1>2, <2>2
      <4> QED BY <2>0, <3>3, <4>1, <4>2 DEF HeardOnce
    <3> QED BY <2>2, <3>2, <3>4 DEF HeardOnce
  <2>3. CASE ~above /\ heard' = heard /\ tooSoon' = tooSoon \cup {j}
    <3>1. j \notin Elements(heard)
      BY <1>2, <1>4, <2>3 DEF Judged
    <3>2. \A i \in 1..Len(heard) : heard[i] # j
      BY <1>2, <3>1 DEF Elements
    <3> QED BY <2>0, <2>3, <3>2 DEF HeardOnce
  <2> QED BY <2>1, <2>2, <2>3
<1>8. HeardInv'
  <2>1. \A n \in Judged' : n \in Nat /\ n <= strums /\ n <= j
    BY <1>2, <1>3, <1>4
  <2>2. \A n \in Judged' : \A m \in Path' : m.strum # 0 => n <= m.strum
    BY <1>6, <2>1
  <2> QED BY <1>1, <1>7, <2>1, <2>2 DEF HeardInv
<1>9. RestInv'
  <2>1. strums # 0 /\ (pulse = <<strums>> \/ Rest(strums) \in Path \cup lost)
    BY <1>1, PeakRest DEF StrumInv, RestInv
  <2>2. Rest(strums) # Peak(j)
    BY PeakRest
  <2> QED BY <1>1, <2>1, <2>2 DEF RestInv
<1>10. \A n : Answered(n) => Answered(n)'
  BY <1>1, <1>3, PeakRest DEF Answered
<1>11. \A n \in Nat : Peak(n) \in Path' /\ n # 0 => j <= n
  BY <1>6, PeakRest
<1>12. AfterInv'
  <2> SUFFICES ASSUME NEW n \in 1..strums, Peak(n) \in Path'
               PROVE  Answered(n)'
    BY <1>1 DEF AfterInv
  <2>1. Answered(n) \/ (~above /\ \A k \in 1..(n - 1) : Peak(k) \notin Path)
    BY <1>1 DEF StrumInv, AfterInv
  <2>2. CASE ~above /\ \A k \in 1..(n - 1) : Peak(k) \notin Path
    <3>1. j <= n /\ j \notin 1..(n - 1)
      BY <1>1, <1>2, <1>11, <2>2
    <3>2. j = n
      BY <1>2, <3>1
    <3> QED BY <1>3, <2>2, <3>2 DEF Answered
  <2> QED BY <1>10, <2>1, <2>2
<1>13. Accounted'
  <2> SUFFICES ASSUME NEW n \in 1..strums
               PROVE  n \in Judged' \/ Peak(n) \in Path' \cup lost \/ Rest(n - 1) \in lost
    BY <1>1 DEF Accounted
  <2>1. CASE n # j \/ ~above
    <3>1. n # j => Peak(n) # Peak(j)
      BY PeakRest
    <3> QED BY <1>1, <1>3, <2>1, <3>1 DEF StrumInv, Accounted
  <2>2. CASE n = j /\ above
    <3>1. Answered(n)
      BY <1>1, <2>2 DEF StrumInv, AfterInv
    <3>2. ASSUME n # 1, Rest(n - 1) \in Path PROVE FALSE
      <4>1. Rest(n - 1) \in Path' /\ n - 1 \in Nat \ {0}
        BY <1>1, <1>2, <3>2, PeakRest
      <4>2. j <= n - 1
        BY <1>6, <4>1, PeakRest
      <4> QED BY <1>2, <2>2, <4>2
    <3> QED BY <1>3, <2>2, <3>1, <3>2 DEF Answered
  <2> QED BY <2>1, <2>2
<1> QED BY <1>5, <1>8, <1>9, <1>12, <1>13 DEF StrumInv

---------------------------------------------------------------------------
(* The theorems *)

LEMMA InitHolds == ASSUME Init PROVE TypeOK /\ StrumInv
<1>1. TypeOK
  <2>1. TypeEmisor /\ TypePath /\ TypeCiaa
    BY NoneOf, StrumPulseAssumption DEF Init, TypeEmisor, TypePath, TypeCiaa
  <2>2. TypeFlags
    BY Zenon DEF Init, TypeFlags
  <2> QED BY <2>1, <2>2, TypeParts
<1>2. Path = {} /\ Judged = {} /\ Copy = {} /\ Elements(line) = {} /\ Elements(buffer) = {} /\ Elements(heard) = {}
  BY ElementsNone DEF Init, Path, Copy, Judged
<1>3. InOrder
  BY <1>2 DEF Init, InOrder, AllBefore, Ascending
<1>4. HeardOnce
  BY DEF Init, HeardOnce
<1>5. OrderInv /\ HeardInv /\ RestInv /\ AfterInv /\ Accounted
  BY <1>2, <1>3, <1>4 DEF Init, OrderInv, HeardInv, RestInv, AfterInv, Accounted
<1> QED BY <1>1, <1>5 DEF StrumInv

\* Every step is one of those above.
LEMMA StepKeeps ==
  ASSUME TypeOK, StrumInv, [Next]_vars
  PROVE  TypeOK' /\ StrumInv'
<1>0. TypePath /\ InOrder /\ TypeEmisor
  BY TypeParts DEF StrumInv, OrderInv
<1>1. TypeEmisor' /\ TypeCiaa' /\ TypeFlags'
  BY EmisorStep, CiaaStep, FlagsStep, TypeParts
<1>2. TypePath' => TypeOK'
  BY <1>1, Zenon DEF TypeOK, TypeEmisor, TypePath, TypeCiaa, TypeFlags
<1>3. ASSUME TypePath', InOrder', Shrinks PROVE TypeOK' /\ StrumInv'
  BY <1>2, <1>3, ShrinkKeeps
<1>4. ASSUME UNCHANGED <<air, buffer, copied, line, lost, strums, pulse, above, heard, tooSoon>>
      PROVE  TypeOK' /\ StrumInv'
  <2>1. TypePath'
    BY <1>0, <1>4 DEF TypePath
  <2>2. InOrder' /\ Path' = Path
    BY <1>0, <1>4, StillPath
  <2>3. Shrinks
    BY <1>4, <2>2 DEF Shrinks
  <2> QED BY <1>3, <2>1, <2>2, <2>3
<1>5. CASE Loop
  <2>1. UNCHANGED <<buffer, copied, line, above, heard, tooSoon>> /\ pulse = << >>
    BY <1>5, Zenon DEF Loop, receptor, ciaa
  <2>2. CASE Strummed
    <3>1. PICK k \in Strum :
            /\ (k = 0 /\ strums' = strums) \/ (k = strums + 1 /\ strums' = k)
            /\ pulse' = <<k>> /\ sendPacket(k, 500)
      <4>1. PICK chord \in BOOLEAN :
              /\ chord => strums < MaxStrums
              /\ strums' = IF chord THEN strums + 1 ELSE strums
              /\ pulse' = <<IF chord THEN strums + 1 ELSE 0>>
              /\ sendPacket(IF chord THEN strums + 1 ELSE 0, 500)
        BY <2>2 DEF Strummed
      <4>2. CASE chord
        <5>1. strums + 1 \in Strum
          BY <1>0, <4>1, <4>2, StrumPulseAssumption DEF TypeEmisor, Strum
        <5> QED BY <4>1, <4>2, <5>1
      <4>3. CASE ~chord
        <5>1. 0 \in Strum
          BY StrumPulseAssumption DEF Strum
        <5> QED BY <4>1, <4>3, <5>1
      <4> QED BY <4>2, <4>3
    <3>2. AllBefore(Path, {Peak(k)})
      <4>1. \A m \in Path : m.strum \in Nat /\ m.strum <= strums
        <5>1. \A m \in Path : m.strum \in Strum
          BY Ranges, PacketFacts
        <5> QED BY <5>1, Ranges DEF StrumInv, OrderInv
      <4>2. Peak(k).strum = k /\ strums \in Nat
        BY PeakRest, Ranges
      <4> QED BY <3>1, <4>1, <4>2 DEF AllBefore, Before
    <3>3. TypePath' /\ InOrder' /\ Sends(Peak(k))
      BY <1>0, <2>1, <3>1, <3>2, SendStep DEF Peak
    <3>4. TypeOK'
      BY <1>2, <3>3
    <3>5. StrumInv'
      BY <2>1, <3>1, <3>3, <3>4, StrummedKeeps
    <3> QED BY <3>4, <3>5
  <2>3. CASE UNCHANGED <<strums, pulse, air, lost>>
    BY <1>4, <2>1, <2>3
  <2> QED BY <1>5, <2>2, <2>3, Zenon DEF Loop
<1>6. CASE EndPulse
  <2>1. /\ UNCHANGED <<buffer, copied, line, above, heard, tooSoon, strums>>
        /\ pulse # << >> /\ pulse' = << >> /\ sendPacket(pulse[1], 0)
    BY <1>6 DEF EndPulse, receptor, ciaa
  <2>2. PICK k \in {0, strums} : k = pulse[1]
    BY <2>1 DEF StrumInv, OrderInv
  <2>3. k \in Strum
    BY <1>0, StrumPulseAssumption DEF TypeEmisor, Strum
  <2>4. AllBefore(Path, {Rest(k)})
    <3>1. \A m \in Path : m.strum \in Nat /\ m.strum <= strums
      <4>1. \A m \in Path : m.strum \in Strum
        BY Ranges, PacketFacts
      <4> QED BY <4>1, Ranges DEF StrumInv, OrderInv
    <3>2. Rest(k).strum = k /\ Rest(k).gz = 0 /\ strums \in Nat
      BY PeakRest, Ranges
    <3> QED BY <3>1, <3>2 DEF AllBefore, Before
  <2>5. TypePath' /\ InOrder' /\ Sends(Rest(k))
    BY <1>0, <2>1, <2>2, <2>3, <2>4, SendStep DEF Rest
  <2>6. TypeOK'
    BY <1>2, <2>5
  <2>7. StrumInv'
    BY <2>1, <2>2, <2>5, <2>6, EndPulseKeeps
  <2> QED BY <2>6, <2>7
<1>7. CASE LoseFrame \/ Receive \/ ReceiveInCopy \/ CopyStart \/ CopyEnd
  BY <1>0, <1>3, <1>7, LoseFrameStep, ReceiveStep, ReceiveInCopyStep, CopyStartStep, CopyEndStep
<1>8. CASE Detect
  <2> DEFINE m == Head(line)
  <2>1. TypePath' /\ InOrder' /\ Reads(m) /\ m \in Packet
    BY <1>0, <1>8, DetectStep
  <2>2. TypeOK'
    BY <1>2, <2>1
  <2>3. m.strum \in Nat /\ m.gz \in {0, 500}
    BY <2>1, PacketFacts, Ranges
  <2>4. CASE m.strum = 0
    <3>1. UNCHANGED <<above, heard, tooSoon>>
      BY <1>8, <2>4, Zenon DEF Detect, ciaa
    <3>2. Shrinks
      BY <2>1, <2>4, <3>1 DEF Reads, Shrinks
    <3> QED BY <1>3, <2>1, <3>2
  <2>5. CASE m.strum # 0 /\ m.gz = 0
    <3>1. (0 > 350) = FALSE
      OBVIOUS
    <3>2. ~Rises(0)
      BY <3>1, Zenon DEF Rises
    <3>3. above' = FALSE /\ heard' = heard /\ tooSoon' = tooSoon
      BY <1>8, <2>5, <3>1, <3>2, Zenon DEF Detect
    <3>4. m = Rest(m.strum) /\ m.strum \in Nat \ {0}
      BY <2>1, <2>3, <2>5, PacketFacts
    <3>5. Reads(Rest(m.strum))
      BY <2>1, <3>4, Zenon
    <3> HIDE DEF m
    <3> QED BY <2>1, <2>2, <3>3, <3>4, <3>5, RestReadKeeps
  <2>6. CASE m.strum # 0 /\ m.gz = 500
    <3>1. (500 > 350) = TRUE
      OBVIOUS
    <3>2. Rises(500) <=> ~above
      BY <3>1, Zenon DEF Rises
    <3>3. /\ above' = TRUE
          /\ \/ above /\ heard' = heard /\ tooSoon' = tooSoon
             \/ ~above /\ heard' = Append(heard, m.strum) /\ tooSoon' = tooSoon
             \/ ~above /\ heard' = heard /\ tooSoon' = tooSoon \cup {m.strum}
      BY <1>8, <2>6, <3>1, <3>2, Zenon DEF Detect
    <3>4. m = Peak(m.strum) /\ m.strum \in Nat \ {0}
      BY <2>1, <2>3, <2>6, PacketFacts
    <3>5. Reads(Peak(m.strum))
      BY <2>1, <3>4, Zenon
    <3> HIDE DEF m
    <3> QED BY <2>1, <2>2, <3>3, <3>4, <3>5, PeakReadKeeps
  <2> QED BY <2>3, <2>4, <2>5, <2>6
<1>9. CASE Cool
  BY <1>4, <1>9 DEF Cool, emisor, receptor
<1>10. CASE UNCHANGED vars
  BY <1>4, <1>10 DEF vars, emisor, receptor, ciaa
<1> QED BY <1>5, <1>6, <1>7, <1>8, <1>9, <1>10 DEF Next

\* What is under way for the properties is what is on the path.
LEMMA UnderWayPath ==
  ASSUME TypeOK, NEW m \in Packet
  PROVE  UnderWay(m) <=> m \in Path
BY PacketFacts DEF UnderWay, Path, Copy

LEMMA InvGives ==
  ASSUME TypeOK, StrumInv
  PROVE  HeardOnce /\ AboveMeansLost /\ StrumsAccounted
<1>1. HeardOnce
  BY DEF StrumInv, HeardInv
<1>2. strums \in Strum /\ 1..strums \subseteq Strum
  BY StrumPulseAssumption DEF TypeOK, Strum
<1>3. AboveMeansLost
  <2>1. Rest(strums) \in Packet
    BY <1>2, PacketFacts
  <2>2. UnderWay(Rest(strums)) <=> Rest(strums) \in Path
    BY <2>1, UnderWayPath
  <2> QED BY <2>2 DEF StrumInv, RestInv, AboveMeansLost, Rest
<1>4. StrumsAccounted
  <2> SUFFICES ASSUME NEW n \in 1..strums
               PROVE  n \in Judged \/ UnderWay(Peak(n)) \/ Peak(n) \in lost \/ Rest(n - 1) \in lost
    BY DEF StrumsAccounted, Judged, Peak, Rest
  <2>1. Peak(n) \in Packet
    BY <1>2, PacketFacts
  <2>2. UnderWay(Peak(n)) <=> Peak(n) \in Path
    BY <2>1, UnderWayPath
  <2> QED BY <2>2 DEF StrumInv, Accounted
<1> QED BY <1>1, <1>3, <1>4

\* Every variable keeps its type, and no buffer grows past its bound.
THEOREM TypeCorrect == Spec => []TypeOK
<1>1. Init => TypeOK /\ StrumInv
  BY InitHolds
<1>2. (TypeOK /\ StrumInv) /\ [Next]_vars => (TypeOK /\ StrumInv)'
  BY StepKeeps
<1> QED BY <1>1, <1>2, PTL DEF Spec

\* No strum of the player is heard twice, or heard after it was refused,
\* whatever packets are lost or passed on twice.
THEOREM StrumsHeardOnce == Spec => []HeardOnce
<1>1. Init => TypeOK /\ StrumInv
  BY InitHolds
<1>2. (TypeOK /\ StrumInv) /\ [Next]_vars => (TypeOK /\ StrumInv)'
  BY StepKeeps
<1>3. TypeOK /\ StrumInv => HeardOnce
  BY InvGives
<1> QED BY <1>1, <1>2, <1>3, PTL DEF Spec

\* detectStrum() is left with gz high only when the packet that ends the last
\* pulse was lost.
THEOREM HighMeansLost == Spec => []AboveMeansLost
<1>1. Init => TypeOK /\ StrumInv
  BY InitHolds
<1>2. (TypeOK /\ StrumInv) /\ [Next]_vars => (TypeOK /\ StrumInv)'
  BY StepKeeps
<1>3. TypeOK /\ StrumInv => AboveMeansLost
  BY InvGives
<1> QED BY <1>1, <1>2, <1>3, PTL DEF Spec

\* A lost packet costs one strum at most: its own, or the next one.
THEOREM LossCostsOne == Spec => []StrumsAccounted
<1>1. Init => TypeOK /\ StrumInv
  BY InitHolds
<1>2. (TypeOK /\ StrumInv) /\ [Next]_vars => (TypeOK /\ StrumInv)'
  BY StepKeeps
<1>3. TypeOK /\ StrumInv => StrumsAccounted
  BY InvGives
<1> QED BY <1>1, <1>2, <1>3, PTL DEF Spec

============================================================================
