------------------------------ MODULE EduCiaa ------------------------------
(***************************************************************************)
(* The EDU-CIAA program imu-and-buttons: main() reads the bytes that the   *)
(* receiving ESP32 writes to UART_232, finds packets in them with the      *)
(* synced / gotAA / idx automaton, checks their XOR checksum and plays the *)
(* chord of an accepted packet with strumChord().                          *)
(*                                                                         *)
(* The program is one thread that polls the UART, so handling one byte is  *)
(* one action.  Around it the environment may append packets to the line,  *)
(* lose a run of bytes (FIFO overrun, a loose wire, a board that resets    *)
(* while it writes), damage one byte, and reset the EDU-CIAA at any byte:  *)
(* what sounds goes on sounding until setupVS1053() has reset the VS1053.  *)
(*                                                                         *)
(* midiSchedProcess() runs in every round of main() but this program never *)
(* calls midiSchedNoteOn() or midiSchedNoteOff(), so its queue stays empty *)
(* and the call changes nothing.  The scheduler is modelled where it is    *)
(* used, in StrumScheduler.                                                *)
(***************************************************************************)
EXTENDS ChordMessage, Sequences

CONSTANTS
  Masks,        \* the chord masks the player uses
  Noise,        \* the values a damaged byte may take
  MaxSent,      \* bound on the packets written to the line
  MaxFaults,    \* bound on damaged bytes and runs of lost bytes
  MaxBurst,     \* bound on the length of a run of lost bytes
  MaxReboots,   \* bound on resets of the EDU-CIAA
  NULL          \* prev before the first chord

ASSUME EduCiaaAssumption ==
  /\ Masks \subseteq Mask
  /\ Noise \subseteq Byte
  /\ MaxSent \in Nat /\ MaxFaults \in Nat /\ MaxBurst \in Nat /\ MaxReboots \in Nat
  /\ NULL \notin 0..15

VARIABLES
  sent,         \* packets written by the receiving ESP32, in order
  pk, off,      \* packet and offset in it of the next byte to be read
  damaged,      \* packets that lost a byte or had one damaged
  faults,       \* faults so far (bounded by MaxFaults)
  burst,        \* length of the run of lost bytes just before the next byte
  reboots,      \* resets so far (bounded by MaxReboots)
  synced, gotAA, idx, p,   \* the parser's local variables in main()
  booting,      \* main() has not reached its loop yet
  prev,         \* static prev of strumChord(): index of the chord, or NULL
  keys,         \* VS1053: velocity of each key that is down, {} if it is up
  pedal,        \* VS1053: the sustain pedal is down
  sounds,       \* VS1053: velocity at which each note was struck that has not
                \* been damped since, {} for the others
  accepted      \* history: packets accepted, and on which packet's byte

line   == <<sent, pk, off, damaged, faults, burst, reboots>>
parser == <<synced, gotAA, idx, p>>
synth  == <<prev, keys, pedal, sounds>>
vars   == <<line, parser, booting, synth, accepted>>

\* What the receiving ESP32 forwards: packets built by sendPacket().
Packet == {sendPacket(mask, velocity) : mask \in Masks, velocity \in Velocity}

\* After hardResetVS() no key is down and no note sounds.
Silence == [n \in Note |-> {}]

TypeOK ==
  /\ sent \in Seq(Packet)
  /\ pk \in 1..(Len(sent) + 1)
  /\ off \in 0..(SIZE - 1)
  /\ off # 0 => pk <= Len(sent)
  /\ damaged \subseteq 1..Len(sent)
  /\ faults \in 0..MaxFaults
  /\ burst \in Nat
  /\ reboots \in 0..MaxReboots
  /\ synced \in BOOLEAN
  /\ gotAA \in BOOLEAN
  /\ idx \in 0..(SIZE - 1)
  /\ p \in Message
  /\ prev \in (0..15) \cup {NULL}
  /\ booting \in BOOLEAN
  /\ pedal \in BOOLEAN
  /\ keys \in [Note -> Byte]
  /\ sounds \in [Note -> Byte]
  /\ accepted \in Seq([k : Nat, boot : Nat, msg : Message])

\* Power has just come on.  p is not initialised in the code and never read
\* before it is written.
Init ==
  /\ sent = << >>
  /\ pk = 1
  /\ off = 0
  /\ damaged = {}
  /\ faults = 0
  /\ burst = 0
  /\ reboots = 0
  /\ synced = FALSE
  /\ gotAA = FALSE
  /\ idx = 0
  /\ p = [i \in 0..(SIZE - 1) |-> {}]
  /\ booting = TRUE
  /\ prev = NULL
  /\ keys = Silence
  /\ pedal = FALSE
  /\ sounds = Silence
  /\ accepted = << >>

---------------------------------------------------------------------------
(* playing_chords.c *)

\* midiNoteOff for each note of the chord; nothing for a NULL or NONE chord.
stopChord(ks, chord) ==
  [n \in Note |-> IF chord # NULL /\ n \in buildTriad(chord) THEN {} ELSE ks[n]]

\* midiNoteOn for each note of the chord; midiNoteOn masks the velocity to
\* seven bits, and velocity 0 is a note off in MIDI.
playChord(ks, chord, velocity) ==
  [n \in Note |-> IF n \in buildTriad(chord) THEN velocity \ {7} ELSE ks[n]]

\* The synthesiser when its keys become ks: a note is damped when its key goes
\* up, unless the pedal is down.
Ring(ss, ks) ==
  [n \in Note |-> IF ks[n] = {} /\ pedal THEN ss[n] ELSE ks[n]]

strumChordPlayFirst(chord, velocity) ==
  LET played  == playChord(keys, chord, velocity)
      stopped == stopChord(played, prev)
  IN  /\ keys' = stopped
      /\ sounds' = Ring(Ring(sounds, played), stopped)
      /\ prev' = chord
      /\ UNCHANGED pedal

\* strumChord() as main() calls it, for a chord that is not CHORD_NONE: the
\* previous chord is stopped, then the new one is played.
strumChord(chord, velocity) ==
  LET stopped == stopChord(keys, prev)
      played  == playChord(stopped, chord, velocity)
  IN  /\ keys' = played
      /\ sounds' = Ring(Ring(sounds, stopped), played)
      /\ prev' = chord
      /\ UNCHANGED pedal

---------------------------------------------------------------------------
(* main(): one byte returned by uartReadByte(UART_232, &byte). *)

ResetParser ==
  /\ synced' = FALSE
  /\ gotAA' = FALSE
  /\ idx' = 0

SearchAA(byte) ==
  /\ ~synced
  /\ ~gotAA
  /\ gotAA' = (byte = HEADER1)
  /\ UNCHANGED <<synced, idx, p, synth, accepted>>

Search55(byte) ==
  /\ ~synced
  /\ gotAA
  /\ \/ /\ byte = HEADER2
        /\ synced' = TRUE
        /\ gotAA' = FALSE
        /\ idx' = 2
        /\ p' = [p EXCEPT ![0] = HEADER1, ![1] = HEADER2]
     \/ /\ byte # HEADER2
        /\ gotAA' = (byte = HEADER1)
        /\ UNCHANGED <<synced, idx, p>>
  /\ UNCHANGED <<synth, accepted>>

CollectOneMore(byte) ==
  /\ synced
  /\ idx + 1 <= SIZE
  /\ p' = [p EXCEPT ![idx] = byte]
  /\ idx' = idx + 1
  /\ UNCHANGED <<synced, gotAA, synth, accepted>>

Collect(byte) ==
  /\ synced
  /\ idx + 1 < SIZE
  /\ p' = [p EXCEPT ![idx] = byte]
  /\ idx' = idx + 1
  /\ UNCHANGED <<synced, gotAA, synth, accepted>>

RejectStaysSynced(byte) ==
  LET msg == [p EXCEPT ![idx] = byte]
  IN  /\ synced
      /\ idx + 1 >= SIZE
      /\ ~ChecksumOK(msg)
      /\ p' = msg
      /\ idx' = 0
      /\ UNCHANGED <<synced, gotAA, synth, accepted>>

\* The last byte of a packet whose checksum is wrong.
Reject(byte) ==
  LET msg == [p EXCEPT ![idx] = byte]
  IN  /\ synced
      /\ idx + 1 >= SIZE
      /\ ~ChecksumOK(msg)
      /\ p' = msg
      /\ ResetParser
      /\ UNCHANGED <<synth, accepted>>

\* The last byte of a valid packet: it is processed at once.
Accept(byte) ==
  LET msg == [p EXCEPT ![idx] = byte]
      b   == obtenerValorBotones(msg)
  IN  /\ synced
      /\ idx + 1 >= SIZE
      /\ ChecksumOK(msg)
      /\ p' = msg
      /\ ResetParser
      /\ accepted' = Append(accepted, [k |-> pk, boot |-> reboots, msg |-> msg])
      /\ \/ /\ buttonChordMap[b].tipo # CHORD_NONE
            /\ strumChord(b, msg[6])
         \/ /\ buttonChordMap[b].tipo = CHORD_NONE
            /\ UNCHANGED synth

Parse(byte) ==
  \/ SearchAA(byte)
  \/ Search55(byte)
  \/ Collect(byte)
  \/ Reject(byte)
  \/ Accept(byte)

---------------------------------------------------------------------------
(* The line between the two boards. *)

\* The receiving ESP32 writes one more packet.
Transmit ==
  /\ Len(sent) < MaxSent
  /\ \E m \in Packet : sent' = Append(sent, m)
  /\ UNCHANGED <<pk, off, damaged, faults, burst, reboots, parser, booting, synth, accepted>>

BytePending == pk <= Len(sent)

Advance ==
  /\ BytePending
  /\ off' = (off + 1) % SIZE
  /\ pk' = IF off = SIZE - 1 THEN pk + 1 ELSE pk
  /\ UNCHANGED <<sent, reboots, booting>>

\* The next byte arrives as it was written.
ReadByte ==
  /\ ~booting
  /\ Advance
  /\ Parse(sent[pk][off])
  /\ burst' = 0
  /\ UNCHANGED <<damaged, faults>>

\* The next byte arrives with another value.
ReadDamagedByte ==
  /\ ~booting
  /\ faults < MaxFaults
  /\ Advance
  /\ \E byte \in Noise \ {sent[pk][off]} : Parse(byte)
  /\ faults' = faults + 1
  /\ burst' = 0
  /\ damaged' = damaged \cup {pk}

\* The next byte does not arrive; it starts a run of lost bytes or is part
\* of the run just before it.
LoseByte ==
  /\ Advance
  /\ \/ /\ burst = 0
        /\ faults < MaxFaults
        /\ faults' = faults + 1
     \/ /\ burst \in 1..(MaxBurst - 1)
        /\ UNCHANGED faults
  /\ burst' = burst + 1
  /\ damaged' = damaged \cup {pk}
  /\ UNCHANGED <<parser, synth, accepted>>

\* The EDU-CIAA restarts: the variables of main() and prev have their initial
\* values again, and a packet in progress is cut.  The VS1053 goes on as it was.
Reboot ==
  /\ reboots < MaxReboots
  /\ reboots' = reboots + 1
  /\ ResetParser
  /\ p' = [i \in 0..(SIZE - 1) |-> {}]
  /\ booting' = TRUE
  /\ prev' = NULL
  /\ damaged' = IF off = 0 THEN damaged ELSE damaged \cup {pk}
  /\ UNCHANGED <<sent, pk, off, faults, burst, keys, pedal, sounds, accepted>>

setupNoReset ==
  /\ booting
  /\ booting' = FALSE
  /\ pedal' = TRUE
  /\ UNCHANGED <<line, parser, prev, keys, sounds, accepted>>

setupNoPedal ==
  /\ booting
  /\ booting' = FALSE
  /\ keys' = Silence /\ sounds' = Silence
  /\ pedal' = FALSE
  /\ UNCHANGED <<line, parser, prev, accepted>>

\* setupVS1053(): hardResetVS(), and at the end control change 64 with value 127,
\* "Sustain pedal FULL".  The other control changes and the program change
\* decide how notes sound, not which.
setupVS1053 ==
  /\ booting
  /\ booting' = FALSE
  /\ keys' = Silence /\ sounds' = Silence
  /\ pedal' = TRUE
  /\ UNCHANGED <<line, parser, prev, accepted>>

Next == Transmit \/ ReadByte \/ ReadDamagedByte \/ LoseByte \/ Reboot \/ setupVS1053

Spec == Init /\ [][Next]_vars

\* main() gets through its setup and polls the UART forever, so a byte on the
\* line is read (or lost).
FairSpec == Spec /\ WF_vars(setupVS1053) /\ WF_vars(ReadByte)

---------------------------------------------------------------------------
(* Properties *)

\* Packet k and the one before it reach the EDU-CIAA byte for byte.
Clean(k) == k \notin damaged /\ (k = 1 \/ k - 1 \notin damaged)

\* After whatever was lost, damaged or cut, the parser is back in step one
\* whole packet later: a packet that arrives intact after an intact one (or
\* first) has been accepted, with its own bytes, when its last byte was read.
CleanAccepted ==
  \A k \in 1..(pk - 1) :
    Clean(k) => \E j \in 1..Len(accepted) :
                  accepted[j].k = k /\ accepted[j].msg = sent[k]

\* The program seen from the line: no frame that a fault put together from
\* pieces is taken for a packet, and none is accepted twice or late.  It is
\* what the checksum is for ("permite detectar si el paquete se corrompió",
\* imu-and-buttons/README.md).
Channel == INSTANCE PacketChannel
  WITH Content <- Packet,
       delivered <- [j \in 1..Len(accepted) |->
                       [k |-> accepted[j].k, msg |-> accepted[j].msg]]
IsPacketChannel == Channel!ChSpec

\* The same promise as an invariant: whatever main() accepts is a packet that
\* was sent, accepted at its own last byte.
OnlySentAccepted ==
  \A j \in 1..Len(accepted) :
    accepted[j].k <= Len(sent) /\ accepted[j].msg = sent[accepted[j].k]

\* The accepted packets of this boot that carry a chord.
Played ==
  {j \in 1..Len(accepted) :
     /\ accepted[j].boot = reboots
     /\ buttonChordMap[obtenerValorBotones(accepted[j].msg)].tipo # CHORD_NONE}

\* The keys that are down are exactly those of the last chord accepted since
\* boot, each at the velocity of its packet: strumChord() leaves no key of an
\* older chord down, does not release one both chords share, and a reset, which
\* forgets prev, leaves none of the chords before it.
KeysAreLastChord ==
  LET last == CHOOSE j \in Played : \A i \in Played : i <= j
      msg  == accepted[last].msg
  IN  ~booting =>
        keys = IF Played = {} THEN Silence
               ELSE [n \in Note |-> IF n \in buildTriad(obtenerValorBotones(msg))
                                    THEN msg[6] \ {7} ELSE {}]

\* The accepted packets of this boot that strike note n (velocity 0 does not).
Strikes(n) ==
  {j \in Played : /\ n \in buildTriad(obtenerValorBotones(accepted[j].msg))
                  /\ accepted[j].msg[6] \ {7} # {}}

\* setupVS1053() leaves the sustain pedal down, so that stopChord() releases keys
\* but damps nothing: what sounds is every note of every chord accepted since
\* boot, each at the velocity it was last struck with, and no other.
EveryChordSounds ==
  ~booting =>
    \A n \in Note :
      \/ Strikes(n) = {} /\ sounds[n] = {}
      \/ \E j \in Strikes(n) : /\ \A i \in Strikes(n) : i <= j
                               /\ sounds[n] = accepted[j].msg[6] \ {7}

\* Every packet written while it and its predecessor stay intact is in the
\* end accepted: the polling loop does not stall.
CleanEventuallyAccepted ==
  \A k \in 1..MaxSent :
    k <= Len(sent) ~> (~Clean(k) \/ \E j \in 1..Len(accepted) :
                                       accepted[j].k = k /\ accepted[j].msg = sent[k])

\* imu-and-buttons/README.md: 180 ms after a note starts its NOTE OFF is
\* sent, which takes its key up ("SIEMPRE (para que salgan NOTE OFF a tiempo)" in main.c).
NoteOffComes ==
  \A n \in Note : keys[n] # {} ~> keys[n] = {}
============================================================================
