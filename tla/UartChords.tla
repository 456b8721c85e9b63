----------------------------- MODULE UartChords -----------------------------
(***************************************************************************)
(* The program testing_uart_chords: main() reads messages of fixed size    *)
(* without a header from UART_232 and plays a chord when it changes.  A    *)
(* byte is its position in what the other board sends; the UART holds      *)
(* RXFIFO bytes, and those that arrive while it is full are lost: main()   *)
(* does not read while it prints, starts the synthesiser or sends to it.   *)
(* The four buttons come after FLOATS other bytes (24 in the code).        *)
(***************************************************************************)
EXTENDS Vs1053, FiniteSets

CONSTANTS
  FLOATS, FloatBit,   \* bytes before the buttons, and their low bits
  RXFIFO,             \* bytes the UART holds (16)
  Botones,            \* button values that are sent
  MaxFrames,          \* bound on the messages sent
  MaxReboots          \* bound on the resets of the board

NULL == 16    \* lastChord before the first message: no entry of the table

ASSUME UartChordsAssumption ==
  /\ FLOATS \in Nat /\ FloatBit \in [0..(FLOATS - 1) -> {0, 1}]
  /\ RXFIFO \in Nat \ {0}
  /\ Botones \subseteq 0..15
  /\ MaxFrames \in Nat /\ MaxReboots \in Nat

SIZE == FLOATS + 4

VARIABLES
  sent, pos,              \* button values sent, and position of the next byte
  rx,                     \* the UART: bytes not yet read
  p,                      \* main(): the idx bytes of the message read so far
  lastChord,
  reboots,
  reads                   \* history: bytes read since boot

sender == <<sent, pos>>
main   == <<p, lastChord, reboots, reads>>
vars   == <<sender, rx, main, todo, chip>>

Position == 0..(MaxFrames * SIZE)

TypeOK ==
  /\ sent \in Seq(Botones) /\ pos \in Position
  /\ rx \in Seq(Position) /\ Len(rx) <= RXFIFO
  /\ p \in Seq(Position) /\ Len(p) < SIZE
  /\ lastChord \in 0..NULL
  /\ reboots \in 0..MaxReboots
  /\ reads \in Position
  /\ Len(fifo) <= SDIFIFO

Init ==
  /\ sent = << >> /\ pos = 0
  /\ rx = << >>
  /\ p = << >>
  /\ lastChord = NULL
  /\ reboots = 0
  /\ reads = 0
  /\ todo = setup
  /\ ChipInit

---------------------------------------------------------------------------
(* The other board and the UART *)

\* The next byte arrives; a message carries the buttons as they are when it
\* begins.
Arrive ==
  /\ pos < MaxFrames * SIZE
  /\ pos' = pos + 1
  /\ IF pos % SIZE = 0 THEN \E b \in Botones : sent' = Append(sent, b)
     ELSE UNCHANGED sent
  /\ \/ Len(rx) < RXFIFO /\ rx' = Append(rx, pos)
     \/ Len(rx) = RXFIFO /\ UNCHANGED rx
  /\ UNCHANGED <<main, todo, chip>>

\* The low bit of a byte.
Bit(n) ==
  IF n % SIZE < FLOATS THEN FloatBit[n % SIZE]
  ELSE (sent[(n \div SIZE) + 1] \div <<1, 2, 4, 8>>[(n % SIZE) - FLOATS + 1]) % 2

---------------------------------------------------------------------------
(* main(), chords_map.c and playing_chords.c *)

obtenerValorBotones(msg) ==
    8 * Bit(msg[FLOATS + 4]) + 4 * Bit(msg[FLOATS + 3])
  + 2 * Bit(msg[FLOATS + 2]) + Bit(msg[FLOATS + 1])

Roots == <<60, 62, 64, 65, 67, 69, 71>>

\* Entries 0 and 1 are "Nada", even ones are minor and odd ones major.
HasChord(c) == c \in 2..15

buildTriad(c) ==
  <<Roots[c \div 2], Roots[c \div 2] + 3 + (c % 2), Roots[c \div 2] + 7>>

Triad(c) == IF HasChord(c) THEN {buildTriad(c)[i] : i \in 1..3} ELSE {}

playChord(c) ==
  IF HasChord(c)
  THEN midiNoteOn(buildTriad(c)[1], 100) \o midiNoteOn(buildTriad(c)[2], 100)
       \o midiNoteOn(buildTriad(c)[3], 100)
  ELSE << >>

stopChord(c) ==
  IF HasChord(c)
  THEN midiNoteOff(buildTriad(c)[1], 64) \o midiNoteOff(buildTriad(c)[2], 64)
       \o midiNoteOff(buildTriad(c)[3], 64)
  ELSE << >>

changeChordPlayFirst(c) == playChord(c) \o stopChord(lastChord)

\* The old chord is stopped before the new one is played.
changeChord(c) == stopChord(lastChord) \o playChord(c)

\* A whole message: the chord is played when it is another entry of the table.
OnMessage(msg) ==
  LET c == obtenerValorBotones(msg)
  IN  /\ todo' = IF c # lastChord THEN changeChord(c) ELSE << >>
      /\ lastChord' = c

CollectOneMore(n) ==
  \/ /\ Len(p) < SIZE
     /\ p' = Append(p, n)
     /\ UNCHANGED <<todo, lastChord>>
  \/ /\ Len(p) = SIZE
     /\ p' = << >>
     /\ OnMessage(p)

\* p[idx++] = byte, until the message is whole.
Collect(n) ==
  \/ /\ Len(p) + 1 < SIZE
     /\ p' = Append(p, n)
     /\ UNCHANGED <<todo, lastChord>>
  \/ /\ Len(p) + 1 >= SIZE
     /\ p' = << >>
     /\ OnMessage(Append(p, n))

\* uartReadByte(): main() is back in its loop when nothing is left to send.
ReadByte ==
  /\ todo = << >> /\ rx # << >>
  /\ rx' = Tail(rx)
  /\ Collect(Head(rx))
  /\ reads' = reads + 1
  /\ UNCHANGED <<sender, reboots, chip>>

Transmit == Transact /\ UNCHANGED <<sender, rx, main>>

ChipStep == Chip /\ UNCHANGED <<sender, rx, main>>

BootKeepsIdx ==
  /\ reboots < MaxReboots
  /\ reboots' = reboots + 1
  /\ rx' = << >>
  /\ lastChord' = NULL
  /\ todo' = setup
  /\ reads' = 0
  /\ UNCHANGED <<sender, p, chip>>

\* The board is reset at any moment; uartConfig() empties the UART, which
\* receives from then on, and setup() starts the synthesiser.
Reboot ==
  /\ reboots < MaxReboots
  /\ reboots' = reboots + 1
  /\ rx' = << >>
  /\ p' = << >> /\ lastChord' = NULL
  /\ todo' = setup
  /\ reads' = 0
  /\ UNCHANGED <<sender, chip>>

Next == Arrive \/ ReadByte \/ Transmit \/ ChipStep \/ Reboot

Spec == Init /\ [][Next]_vars

\* main() goes on, and the chip executes and plays what it has been sent.
FairSpec == Spec /\ WF_vars(ReadByte) /\ WF_vars(Transmit) /\ WF_vars(ChipStep)

---------------------------------------------------------------------------
(* Properties *)

\* Whatever the chip was doing when DREQ was looked at or the board was reset,
\* no word of the plugin is lost before it is started, and nothing else is in
\* the registers then.
LoadedWhenStarted == Running => regs = Loaded

\* When everything is sent and played, exactly the notes of the last chord
\* sound, though chords share notes and messages are cut by resets.
KeysAreLastChord ==
  todo = << >> /\ ~busy /\ fifo = << >> => keys = Triad(lastChord)

\* Without a header only the number of bytes missed since boot decides: a
\* message without a gap is one that was sent, with its chord, exactly when
\* that number is a multiple of SIZE, and it stays so until more are missed.
MissedBytesDecide ==
  [][ReadByte /\ Len(p) + 1 = SIZE /\ (\A i \in 1..Len(p) : p[i] = Head(rx) - SIZE + i) =>
       IF (Head(rx) - reads) % SIZE = 0
       THEN Head(rx) % SIZE = SIZE - 1 /\ lastChord' = sent[(Head(rx) \div SIZE) + 1]
       ELSE Head(rx) % SIZE # SIZE - 1]_vars

\* main() always comes back to its UART.
BackToUart == todo # << >> ~> todo = << >>
============================================================================
