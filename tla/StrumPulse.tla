----------------------------- MODULE StrumPulse -----------------------------
(***************************************************************************)
(* A strum on its way through test_latency_buttons_esp32_emisora: the      *)
(* sender debounces STRUM and sends a pulse of two packets, gz = 500 and   *)
(* 5 ms later gz = 0; the receiving ESP32 passes them on through a buffer  *)
(* for one; main() of the EDU-CIAA gives those with a chord to             *)
(* detectStrum(), which wants gz to rise and a pause between strums.       *)
(*                                                                         *)
(* A packet may be lost on the air, in the buffer, or in the UART while    *)
(* main() prints.  A copy of the buffer that a frame overlaps gives one of *)
(* the two frames or, as gz and checksum do not match, is dropped.         *)
(***************************************************************************)
EXTENDS Naturals, Sequences

CONSTANTS
  DEBOUNCE_MS,
  MaxAir,       \* bound on the frames in flight
  MaxLine,      \* bound on the packets in the UART
  MaxStrums,    \* bound on the strums with a chord
  NOTHING       \* a copy that is dropped

ASSUME StrumPulseAssumption ==
  /\ DEBOUNCE_MS \in Nat
  /\ MaxAir \in Nat /\ MaxLine \in Nat /\ MaxStrums \in Nat

VARIABLES
  lastStrumRead, lastStrumStable,   \* STRUM: TRUE is released
  strumAge,                \* now - lastStrumChange, up to DEBOUNCE_MS
  pulse,                   \* the strum whose second packet is to be sent, if any
  air,                     \* frames in flight
  buffer,                  \* the receiving ESP32: lastMsg, while hasMsg is set
  copied,                  \* its loop(): the copy, while one is made
  line,                    \* packets in the UART
  above, cooling,          \* detectStrum(): cooling is now - lastStrumMs <= COOLDOWN
  strums,                  \* history: strums with a chord, numbered as sent
  heard, tooSoon, lost     \* history: strums heard, in order; those refused for
                           \* COOLDOWN; packets with a chord that did not get
                           \* to detectStrum()

emisor   == <<lastStrumRead, lastStrumStable, strumAge, pulse, strums>>
receptor == <<buffer, copied>>
ciaa     == <<above, cooling, heard, tooSoon>>
vars     == <<emisor, air, receptor, line, ciaa, lost>>

\* A strum is known by its number, or is 0 when it has no chord.
Strum  == 0..MaxStrums
Packet == [strum : Strum, gz : {0, 500}]

ASSUME NothingAssumption == NOTHING \notin Packet

\* Only strums with a chord are heard, or refused.
TypeOK ==
  /\ lastStrumRead \in BOOLEAN /\ lastStrumStable \in BOOLEAN
  /\ strumAge \in 0..DEBOUNCE_MS
  /\ pulse \in Seq(Strum) /\ Len(pulse) <= 1
  /\ air \in Seq(Packet) /\ Len(air) <= MaxAir
  /\ buffer \in Seq(Packet) /\ Len(buffer) <= 1
  /\ copied \in Seq(Packet \cup {NOTHING}) /\ Len(copied) <= 1
  /\ line \in Seq(Packet) /\ Len(line) <= MaxLine
  /\ above \in BOOLEAN /\ cooling \in BOOLEAN
  /\ strums \in 0..MaxStrums
  /\ heard \in Seq(1..MaxStrums) /\ tooSoon \subseteq 1..MaxStrums
  /\ lost \subseteq Packet

\* STRUM is read in setup(); lastStrumMs is 0, as is now.
Init ==
  /\ lastStrumRead \in BOOLEAN /\ lastStrumStable = lastStrumRead
  /\ strumAge = 0
  /\ pulse = << >> /\ air = << >>
  /\ buffer = << >> /\ copied = << >> /\ line = << >>
  /\ above = FALSE /\ cooling = TRUE
  /\ strums = 0 /\ heard = << >> /\ tooSoon = {} /\ lost = {}

Older(age) == IF age < DEBOUNCE_MS THEN age + 1 ELSE DEBOUNCE_MS

Elements(s) == {s[i] : i \in DOMAIN s}

Lose(ms) == lost' = lost \cup {m \in ms \ {NOTHING} : m.strum # 0}

---------------------------------------------------------------------------
(* emisor.ino *)

sendPacket(strum, gz) ==
  LET m == [strum |-> strum, gz |-> gz]
  IN  \/ Len(air) < MaxAir /\ air' = Append(air, m) /\ UNCHANGED lost
      \/ Lose({m}) /\ UNCHANGED air

\* The chord buttons are read: some are pressed, or none.
Strummed ==
  \E chord \in BOOLEAN :
    LET strum == IF chord THEN strums + 1 ELSE 0
    IN  /\ chord => strums < MaxStrums
        /\ strums' = IF chord THEN strum ELSE strums
        /\ pulse' = <<strum>>
        /\ sendPacket(strum, 500)

\* One round of loop(): STRUM is debounced, and pressing it sends a pulse.
Loop ==
  /\ pulse = << >>
  /\ \E r \in BOOLEAN :
       LET age == IF r = lastStrumRead THEN Older(strumAge) ELSE 0
           changes == age >= DEBOUNCE_MS /\ lastStrumStable # r
       IN  /\ lastStrumRead' = r
           /\ strumAge' = age
           /\ lastStrumStable' = IF changes THEN r ELSE lastStrumStable
           /\ IF changes /\ ~r THEN Strummed
              ELSE UNCHANGED <<strums, pulse, air, lost>>
  /\ UNCHANGED <<receptor, line, ciaa>>

\* delay(5), and the packet that ends the pulse.
EndPulseNoChord ==
  /\ pulse # << >>
  /\ sendPacket(0, 0)
  /\ pulse' = << >>
  /\ UNCHANGED <<lastStrumRead, lastStrumStable, strumAge, strums, receptor, line, ciaa>>

EndPulse ==
  /\ pulse # << >>
  /\ sendPacket(pulse[1], 0)
  /\ pulse' = << >>
  /\ UNCHANGED <<lastStrumRead, lastStrumStable, strumAge, strums, receptor, line, ciaa>>

LoseFrame ==
  /\ air # << >>
  /\ air' = Tail(air)
  /\ Lose({Head(air)})
  /\ UNCHANGED <<emisor, receptor, line, ciaa>>

---------------------------------------------------------------------------
(* receptor.ino *)

\* OnDataRecv while loop() is not copying: a frame not yet copied is replaced.
Receive ==
  /\ air # << >> /\ copied = << >>
  /\ buffer' = <<Head(air)>>
  /\ Lose(Elements(buffer))
  /\ air' = Tail(air)
  /\ UNCHANGED <<emisor, copied, line, ciaa>>

\* if (!hasMsg) return; IMUMessage msg = lastMsg
CopyStart ==
  /\ buffer # << >> /\ copied = << >>
  /\ copied' = buffer
  /\ buffer' = << >>
  /\ UNCHANGED <<emisor, air, line, ciaa, lost>>

\* OnDataRecv during the copy: it sets hasMsg before loop() clears it, or after.
\* Both frames are packets of one strum, as two strums are DEBOUNCE_MS apart.
ReceiveInCopy ==
  /\ air # << >> /\ copied # << >> /\ buffer = << >>
  /\ copied' \in {copied, <<Head(air)>>, <<NOTHING>>}
  /\ buffer' \in {<< >>, <<Head(air)>>}
  /\ Lose((Elements(copied) \cup {Head(air)}) \ (Elements(copied') \cup Elements(buffer')))
  /\ air' = Tail(air)
  /\ UNCHANGED <<emisor, line, ciaa>>

\* A valid copy is written to the UART, which may be full.
CopyEnd ==
  /\ copied # << >>
  /\ copied' = << >>
  /\ \/ copied = <<NOTHING>> /\ UNCHANGED <<line, lost>>
     \/ copied # <<NOTHING>> /\ Len(line) < MaxLine /\ line' = Append(line, copied[1]) /\ UNCHANGED lost
     \/ copied # <<NOTHING>> /\ Lose(Elements(copied)) /\ UNCHANGED line
  /\ UNCHANGED <<emisor, air, buffer, ciaa>>

---------------------------------------------------------------------------
(* main.c *)

RisesAlways(gz) == gz > 350
RisesPastPeak(gz) == ~above /\ gz > 500

\* gz > TH, and it was not before.
Rises(gz) == ~above /\ gz > 350

DetectAlways ==
  /\ line # << >>
  /\ line' = Tail(line)
  /\ LET strum == Head(line).strum
         gz    == Head(line).gz
     IN  /\ above' = (gz > 350)
         /\ \/ /\ Rises(gz) /\ ~cooling
               /\ heard' = Append(heard, strum)
               /\ cooling' = TRUE
               /\ UNCHANGED tooSoon
            \/ /\ Rises(gz) /\ cooling
               /\ tooSoon' = tooSoon \cup {strum}
               /\ UNCHANGED <<heard, cooling>>
            \/ ~Rises(gz) /\ UNCHANGED <<heard, tooSoon, cooling>>
  /\ UNCHANGED <<emisor, air, receptor, lost>>

\* A valid packet: without a chord detectStrum() is not called, and above
\* keeps its value.
Detect ==
  /\ line # << >>
  /\ line' = Tail(line)
  /\ LET strum == Head(line).strum
         gz    == Head(line).gz
     IN  \/ strum = 0 /\ UNCHANGED <<ciaa>>
         \/ /\ strum # 0
            /\ above' = (gz > 350)
            /\ \/ /\ Rises(gz) /\ ~cooling
                  /\ heard' = Append(heard, strum)
                  /\ cooling' = TRUE
                  /\ UNCHANGED tooSoon
               \/ /\ Rises(gz) /\ cooling
                  /\ tooSoon' = tooSoon \cup {strum}
                  /\ UNCHANGED <<heard, cooling>>
               \/ ~Rises(gz) /\ UNCHANGED <<heard, tooSoon, cooling>>
  /\ UNCHANGED <<emisor, air, receptor, lost>>

\* The pause ends at some time; after 2^32 ms of silence it seems to begin again.
Cool ==
  /\ cooling' = ~cooling
  /\ UNCHANGED <<emisor, air, receptor, line, above, heard, tooSoon, lost>>

Next ==
  \/ Loop \/ EndPulse \/ LoseFrame
  \/ Receive \/ ReceiveInCopy \/ CopyStart \/ CopyEnd
  \/ Detect \/ Cool

Spec == Init /\ [][Next]_vars

---------------------------------------------------------------------------
(* Properties *)

\* No strum is heard twice, and none is both heard and refused, though its
\* packets may be passed on twice and the two of a strum look alike.
HeardOnce ==
  /\ \A i, j \in 1..Len(heard) : i < j => heard[i] < heard[j]
  /\ \A i \in 1..Len(heard) : heard[i] \notin tooSoon

UnderWay(m) == m \in UNION {Elements(q) : q \in {air, buffer, copied, line}}

\* above is left TRUE only by the loss of a packet: when no packet of the last
\* strum with a chord is under way, the one that ends it did not arrive.
AboveMeansLost ==
  LET rest == [strum |-> strums, gz |-> 0]
  IN  above /\ pulse # <<strums>> /\ ~UnderWay(rest) => rest \in lost

\* A lost packet costs one strum and no more: a strum whose first packet is not
\* under way was heard, or came too soon, or lost its first packet, or follows
\* one that lost its last packet.
StrumsAccounted ==
  \A n \in 1..strums :
    \/ UnderWay([strum |-> n, gz |-> 500])
    \/ n \in Elements(heard) \cup tooSoon
    \/ [strum |-> n, gz |-> 500] \in lost
    \/ [strum |-> n - 1, gz |-> 0] \in lost
============================================================================
