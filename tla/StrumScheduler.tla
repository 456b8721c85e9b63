-------------------------- MODULE StrumScheduler --------------------------
(***************************************************************************)
(* The playing half of the program test_latency_buttons_esp32_emisora: a   *)
(* packet accepted by main() goes through detectStrum(); a strum puts a    *)
(* NOTE ON and a NOTE OFF per note in the queue of midi_scheduler.c, and   *)
(* midiSchedProcess() sends the events that are due in every round.        *)
(*                                                                         *)
(* tickRead() is a 32-bit counter; here it wraps at WRAP.  Packets read in *)
(* one round are all handled with the now of that round.                   *)
(***************************************************************************)
EXTENDS Integers, Sequences, FiniteSets, FiniteSetsExt

CONSTANTS
  QSIZE,          \* slots of the queue
  STRUM_GAP_MS, NOTE_LEN_MS, COOLDOWN,
  TH,             \* threshold of gz
  WRAP,           \* the tick is counted modulo WRAP (2^32)
  MaxStep,        \* bound on the time between two rounds of main()
  Botones,        \* button values that occur in packets
  GZ,             \* readings of gz that occur in packets
  FREE            \* an unused slot

ASSUME StrumSchedulerAssumption ==
  /\ QSIZE \in Nat /\ STRUM_GAP_MS \in Nat /\ NOTE_LEN_MS \in Nat
  /\ COOLDOWN \in Nat /\ TH \in Nat /\ MaxStep \in Nat /\ WRAP \in Nat
  /\ 2 * STRUM_GAP_MS + NOTE_LEN_MS + MaxStep < WRAP \div 2
  /\ COOLDOWN + MaxStep < WRAP
  /\ Botones \subseteq 0..15 /\ GZ \subseteq Int

\* Two pauses are no shorter than a strum keeps events in the queue (2 * 101 ms
\* and 200 ms), and there is room for the events of two.
ASSUME RoomAssumption ==
  /\ 2 * STRUM_GAP_MS + NOTE_LEN_MS <= 2 * (COOLDOWN + 1)
  /\ QSIZE >= 12

Slot == 0..(QSIZE - 1)

Clock == 0..(WRAP - 1)

Roots == <<60, 62, 64, 65, 67, 69, 71>>

CHORD_NONE  == "none"
CHORD_MINOR == "minor"
CHORD_MAJOR == "major"

\* This program's table: 0 and 1 are "Nada", even is minor, odd is major.
buttonChordMap ==
  [b \in 0..15 |->
     IF b < 2 THEN [root |-> 0, tipo |-> CHORD_NONE]
     ELSE [root |-> Roots[b \div 2],
           tipo |-> IF b % 2 = 0 THEN CHORD_MINOR ELSE CHORD_MAJOR]]

\* The notes of a chord in the order they are strummed.
buildTriad(chord) ==
  <<chord.root, chord.root + (IF chord.tipo = CHORD_MAJOR THEN 4 ELSE 3),
    chord.root + 7>>

\* The notes the chords in use can sound.
Note == UNION {{buildTriad(buttonChordMap[b])[i] : i \in 1..3} : b \in Botones \ {0, 1}}

velocityNotClamped(gz) == 40 + (IF gz < 0 THEN -gz ELSE gz) \div 4

\* (int)(40 + |gz| / 4), between 20 and 127.
velocityFromGz(gz) ==
  LET a == IF gz < 0 THEN -gz ELSE gz
      v == 40 + a \div 4
  IN  CASE v < 20  -> 20
        [] v > 127 -> 127
        [] OTHER   -> v

VARIABLES
  now,                  \* tick of the current round
  q,                    \* the queue: an event per slot, or FREE
  lastStrumMs, above,   \* static variables of detectStrum()
  keys,                 \* velocity at which each note sounds, 0 if off
  refused               \* history: an event found no free slot

vars == <<now, q, lastStrumMs, above, keys, refused>>

Event == [t : Clock, type : {"on", "off"}, note : Note, vel : 0..127]

ASSUME FreeAssumption == FREE \notin Event

TypeOK ==
  /\ now \in Clock
  /\ q \in [Slot -> Event \cup {FREE}]
  /\ lastStrumMs \in Clock
  /\ above \in BOOLEAN
  /\ keys \in [Note -> 0..127]
  /\ refused \in BOOLEAN

Init ==
  /\ now = 0
  /\ q = [i \in Slot |-> FREE]
  /\ lastStrumMs = 0
  /\ above = FALSE
  /\ keys = [n \in Note |-> 0]
  /\ refused = FALSE

---------------------------------------------------------------------------
(* midi_scheduler.c *)

DueCompared(e, now_ms) == now_ms >= e.t

\* (int32_t)(now_ms - t) >= 0
Due(e, now_ms) == (now_ms - e.t) % WRAP < WRAP \div 2

\* midiSchedNoteOn / midiSchedNoteOff, called once per event of evs: each
\* takes the lowest free slot, and is dropped when there is none.
Schedule(evs) ==
  LET free == {i \in Slot : q[i] = FREE}
      rank(i) == Cardinality({j \in free : j <= i})
  IN  /\ q' = [i \in Slot |-> IF i \in free /\ rank(i) <= Len(evs)
                              THEN evs[rank(i)] ELSE q[i]]
      /\ refused' = (refused \/ Cardinality(free) < Len(evs))

\* midiSchedProcess: the events due are sent in the order of their slots, so
\* that of several for one note the one in the highest slot decides.
midiSchedProcess(now_ms) ==
  LET due == {i \in Slot : q[i] # FREE /\ Due(q[i], now_ms)}
      of(n) == {i \in due : q[i].note = n}
      last(n) == q[Max(of(n))]
  IN  /\ q' = [i \in Slot |-> IF i \in due THEN FREE ELSE q[i]]
      /\ keys' = [n \in Note |->
                    IF of(n) = {} THEN keys[n]
                    ELSE IF last(n).type = "on" THEN last(n).vel ELSE 0]

---------------------------------------------------------------------------
(* main.c and playing_chords.c *)

RoundReadsTickWhenIdle ==
  /\ \E dt \in 0..MaxStep :
       /\ now' = IF \A i \in Slot : q[i] = FREE THEN (now + dt) % WRAP ELSE now
       /\ midiSchedProcess(now')
  /\ UNCHANGED <<lastStrumMs, above, refused>>

\* One more round of main(): the tick is read and the queue is served.
Round ==
  /\ \E dt \in 0..MaxStep :
       /\ now' = (now + dt) % WRAP
       /\ midiSchedProcess(now')
  /\ UNCHANGED <<lastStrumMs, above, refused>>

\* midiSchedNoteOn and midiSchedNoteOff of note i of a strum.
OnEvent(note, i, velocity) ==
  [t |-> (now + (i - 1) * STRUM_GAP_MS) % WRAP,
   type |-> "on", note |-> note, vel |-> velocity]

OffEvent(note, i) ==
  [t |-> (now + (i - 1) * STRUM_GAP_MS + NOTE_LEN_MS) % WRAP,
   type |-> "off", note |-> note, vel |-> 64]

strumChordOffFirst(chord, velocity) ==
  LET notes == buildTriad(chord)
      on(i)  == OnEvent(notes[i], i, velocity)
      off(i) == OffEvent(notes[i], i)
  IN  Schedule(<<off(1), on(1), off(2), on(2), off(3), on(3)>>)

strumChord(chord, velocity) ==
  LET notes == buildTriad(chord)
      on(i)  == OnEvent(notes[i], i, velocity)
      off(i) == OffEvent(notes[i], i)
  IN  Schedule(<<on(1), off(1), on(2), off(2), on(3), off(3)>>)

CooldownNotTested == TRUE

\* (now_ms - lastStrumMs) > COOLDOWN, an unsigned difference.
CooldownOver == (now - lastStrumMs) % WRAP > COOLDOWN

\* gz rises over the threshold, longer than COOLDOWN after the last strum.
detectStrum(gz) == ~above /\ gz > TH /\ CooldownOver

\* A valid packet.  Without a chord detectStrum() is not called, so that
\* above keeps its value.
Packet ==
  \E b \in Botones, gz \in GZ :
    LET currentChord == buttonChordMap[b]
    IN  /\ currentChord.tipo # CHORD_NONE
        /\ above' = (gz > TH)
        /\ \/ /\ detectStrum(gz)
              /\ lastStrumMs' = now
              /\ strumChord(currentChord, velocityFromGz(gz))
           \/ /\ ~detectStrum(gz)
              /\ UNCHANGED <<lastStrumMs, q, refused>>
        /\ UNCHANGED <<now, keys>>

Next == Round \/ Packet

Spec == Init /\ [][Next]_vars

\* Rounds of main() go on, and time passes between some of them.
FairSpec == Spec /\ WF_vars(Round)

---------------------------------------------------------------------------
(* Properties *)

\* The queue never refuses an event: COOLDOWN keeps strums so far apart that
\* at most two have events pending, although strumChord() ignores the
\* results of midiSchedNoteOn() and midiSchedNoteOff().
NothingRefused == ~refused

\* A note that sounds has its NOTE OFF in the queue, and so has every NOTE ON
\* that waits, in a higher slot: no order in which slots are reused and
\* served leaves a note on for ever.
OffPending ==
  /\ \A n \in Note : keys[n] > 0 =>
       \E i \in Slot : q[i] # FREE /\ q[i].type = "off" /\ q[i].note = n
  /\ \A i \in Slot : q[i] # FREE /\ q[i].type = "on" =>
       \E j \in Slot : /\ j > i /\ q[j] # FREE
                       /\ q[j].type = "off" /\ q[j].note = q[i].note
                       /\ q[j].t = (q[i].t + NOTE_LEN_MS) % WRAP

\* That NOTE OFF is never further ahead than a strum lasts, wherever the tick
\* wraps: midiSchedProcess() lets no event slip past its time, which would then
\* be a whole wrap away.
OffInTime ==
  \A n \in Note : keys[n] > 0 =>
    \E i \in Slot : /\ q[i] # FREE /\ q[i].type = "off" /\ q[i].note = n
                    /\ (q[i].t - now) % WRAP <= 2 * STRUM_GAP_MS + NOTE_LEN_MS

\* Every note that sounds is silent later, across the wrap of the tick too.
NotesEnd == \A n \in Note : keys[n] > 0 ~> keys[n] = 0

\* "NOTE OFF con duración estándar" (playing_chords.c): a note that goes silent
\* does so by the NOTE OFF of the strum that struck it last, so that no NOTE OFF
\* of a later strum of it, already begun, is left in the queue.
StandardLength ==
  [][\A n \in Note : keys[n] > 0 /\ keys'[n] = 0 =>
       \A j \in Slot : q'[j] # FREE /\ q'[j].type = "off" /\ q'[j].note = n =>
         \E i \in Slot : /\ q'[i] # FREE /\ q'[i].type = "on" /\ q'[i].note = n
                         /\ q'[j].t = (q'[i].t + NOTE_LEN_MS) % WRAP]_vars
============================================================================
