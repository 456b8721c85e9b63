------------------------------- MODULE Vs1053 -------------------------------
(***************************************************************************)
(* The driver of the VS1053 synthesiser (lowlevel.h, loader_tables.h,      *)
(* midi_sdi.h) and the chip behind it.  What the program still has to send *)
(* is the sequence todo of transactions on the SPI bus; each waits for     *)
(* DREQ, which the chip lowers while it is busy with a command or has no   *)
(* room for data.  The chip is external: it ignores commands and loses     *)
(* data that arrive while DREQ is low.                                     *)
(***************************************************************************)
EXTENDS Integers, Sequences

CONSTANTS
  Patch,     \* the words of dtab, in the order of the table
  SDIFIFO    \* data bytes the chip holds (2048)

VARIABLES
  todo,            \* driver: transactions left
  busy,            \* chip: a command or the start-up is under way
  regs,            \* chip: values written to its registers since the reset
  fifo,            \* chip: data bytes not yet played
  midi,            \* chip: MIDI message received in part
  keys             \* chip: notes that sound

chip == <<busy, regs, fifo, midi, keys>>

SM_SDINEW == "SM_SDINEW"
ENTRY     == "0x0050"

\* The table writes WRAM and WRAMADDR only: no word of it starts a program.
ASSUME Vs1053Assumption ==
  /\ SDIFIFO \in Nat \ {0}
  /\ Patch \in Seq({Patch[i] : i \in DOMAIN Patch} \ {ENTRY})

Reset        == [op |-> "reset", val |-> 0]
SciRead      == [op |-> "read", val |-> 0]
SciWrite(v)  == [op |-> "sci", val |-> v]
sdiWrite16(b) == [op |-> "sdi", val |-> b]

DREQ == ~busy /\ Len(fifo) < SDIFIFO

waitNothing == TRUE

waitDREQ == DREQ

\* What the registers hold once startRTMIDI() is through.
Loaded == <<SM_SDINEW>> \o Patch \o <<ENTRY>>

Running == regs # << >> /\ regs[Len(regs)] = ENTRY

---------------------------------------------------------------------------
(* What the driver has to send *)

sendMIDI(bytes) == [i \in 1..Len(bytes) |-> sdiWrite16(bytes[i])]

midiProgramChange(prog) == sendMIDI(<<192, prog>>)

midiNoteOn(note, vel) == sendMIDI(<<144, note, vel>>)

midiNoteOff(note, vel) == sendMIDI(<<128, note, vel>>)

hardResetVS == <<Reset>>

softInitVS == <<SciRead, SciWrite(SM_SDINEW)>>

loadUserCodeFromTables == [i \in 1..Len(Patch) |-> SciWrite(Patch[i])]

startRTMIDI == <<SciWrite(ENTRY)>>

setupWithoutStart == hardResetVS \o softInitVS \o loadUserCodeFromTables \o midiProgramChange(1)

setup == hardResetVS \o softInitVS \o loadUserCodeFromTables \o startRTMIDI \o midiProgramChange(1)

---------------------------------------------------------------------------
(* The bus and the chip *)

ChipInit ==
  /\ busy = FALSE
  /\ regs = << >>
  /\ fifo = << >>
  /\ midi = << >>
  /\ keys = {}

ResetChip ==
  /\ Head(todo).op = "reset"
  /\ busy' = TRUE
  /\ regs' = << >> /\ fifo' = << >> /\ midi' = << >> /\ keys' = {}

Command ==
  /\ Head(todo).op \in {"read", "sci"}
  /\ waitDREQ
  /\ busy' = TRUE
  /\ regs' = IF ~busy /\ Head(todo).op = "sci" THEN Append(regs, Head(todo).val) ELSE regs
  /\ UNCHANGED <<fifo, midi, keys>>

Data ==
  /\ Head(todo).op = "sdi"
  /\ waitDREQ
  /\ fifo' = IF Len(fifo) < SDIFIFO THEN Append(fifo, Head(todo).val) ELSE fifo
  /\ UNCHANGED <<busy, regs, midi, keys>>

\* The next transaction of the program.
Transact ==
  /\ todo # << >>
  /\ ResetChip \/ Command \/ Data
  /\ todo' = Tail(todo)

\* DREQ rises: the command is executed.
Ready ==
  /\ busy
  /\ busy' = FALSE
  /\ UNCHANGED <<todo, regs, fifo, midi, keys>>

\* The keys after a whole MIDI message m.
Played(m) ==
  IF m[1] = 144 THEN keys \cup {m[2]}
  ELSE IF m[1] = 128 THEN keys \ {m[2]} ELSE keys

\* The RT-MIDI plugin takes a byte; a status byte begins a message.
Play ==
  /\ Running /\ ~busy /\ fifo # << >>
  /\ LET b == Head(fifo)
         m == IF b >= 128 THEN <<b>> ELSE Append(midi, b)
         whole == Len(m) = (IF m[1] = 192 THEN 2 ELSE 3)
     IN  /\ midi' = IF whole THEN << >> ELSE m
         /\ keys' = IF whole THEN Played(m) ELSE keys
  /\ fifo' = Tail(fifo)
  /\ UNCHANGED <<todo, busy, regs>>

Chip == Ready \/ Play
============================================================================
