# Verification of the TP1-G4 wireless guitar

TP1-G4 is an instrument in three boards.  A sending ESP32 (*emisora*) reads an
accelerometer, a STRUM button and four chord buttons and sends an 8-byte packet
per strum over ESP-NOW.  A receiving ESP32 (*receptora*) checks the packet and
writes it to a UART.  An EDU-CIAA finds the packets in the byte stream, maps the
buttons to a chord and plays it on a VS1053 synthesiser over SPI.

    player -> emisora.ino --ESP-NOW--> receptora.ino --UART bytes--> main.c -> VS1053

This directory holds TLA+ modules translated from that code, TLC configurations
that check them on small instances, and TLAPS proofs for all instances.

## 1. Inventory

| Part | State | Operations | Hard behaviour |
|---|---|---|---|
| `esp32/imu-and-buttons/emisora.ino` | pause (`ultimoRasgueoMs`), STRUM debounce (3 variables), LED and its switch-off time | `setup()` with three halts, `loop()` | a 32-bit `millis()` that wraps; pause, debounce and LED compare times in two different ways |
| `esp32/imu-and-buttons/receptora.ino` | one-frame buffer `lastMsg`, flag `hasMsg` | `OnDataRecv` (WiFi task, other core), `loop()` | two cores copy the same buffer; the flag is cleared after the copy; one frame of room |
| `my_programs/imu-and-buttons` (EDU-CIAA) | automaton `synced/gotAA/idx/p`, `prev` of `strumChord()`; in the synthesiser the keys that are down, the sustain pedal and the notes that sound | one byte of `main()`, `strumChord()` | lost and damaged bytes, start in the middle of a packet, resets that leave the synthesiser as it was, an 8-bit XOR, a pedal that outdoes NOTE OFF |
| `my_programs/test_latency_buttons_esp32_emisora` (EDU-CIAA) | queue of MIDI events (32 slots), `lastStrumMs`, `above` | `midiSchedProcess()`, `strumChord()`, `detectStrum()` | full queue, events due together and served by slot, tick wrap, strums that overlap, packets that never reach `detectStrum()` |
| `esp32/test_latency_buttons_esp32_emisora` | STRUM and chord debounces, one-frame buffer of the receiver | a pulse of two packets 5 ms apart | two packets closer than a round of the receiver; the loss of either |
| `esp32/delay` | `t_send`, `ack_received`, `start` | send, wait 100 ms, pause 200 ms; answer | acknowledgements without a number, a callback in another task, the wrap |
| `my_programs/testing_uart_chords` | message buffer, last chord, 16-byte UART FIFO | read a message of fixed size, play on change | no framing, UART overrun, resets |
| VS1053 driver (`lowlevel.h`, `loader_tables.h`, `midi_sdi.h`) | what is left to send, DREQ | reset, SCI and SDI transfers, plugin, MIDI messages | waits on DREQ, a chip that loses what it is sent while busy |
| bench programs, early sketches, vendored firmware | | | see section 7 |

The boards share no memory: emisora and receptora interact through ESP-NOW frames
(delivered to a callback), receptora and EDU-CIAA through UART bytes, EDU-CIAA
and VS1053 through SPI.  Inside an ESP32 the callback and `loop()` share a buffer
and a flag.  In the EDU-CIAA everything runs in one polling thread.

What makes each part correct:

- *emisora*: packets are spaced by the pause, also across a wrap; strums are
  neither lost nor invented by the clock; the debounced STRUM is what the last
  readings say; the LED goes off; a player who plays is heard.
- *receptora*: frames are forwarded in order; a copy the callback leaves alone is
  unaltered and not repeated; a frame is lost, torn or written twice only when
  another one, or itself, arrives during a pass of `loop()`, and none is lost that
  stays in the buffer.
- *EDU-CIAA parser*: only packets that were sent are accepted; after any fault the
  parser is in step again one whole packet later.
- *EDU-CIAA player*: the keys that are down are exactly those of the last chord.
  What sounds is more: `setupVS1053()` leaves the sustain pedal down, so that every
  chord since boot sounds on (`EveryChordSounds`).
- *scheduler*: no event is refused, no note is left on, every note ends.
- *pulse*: a strum is heard once, and a lost packet costs one strum at most.
- *delay*: what is measured is the round trip of this request, as long as no
  acknowledgement or callback outlasts the pause; the wait ends on time; the sender
  asks again for ever.
- *testing_uart_chords* and *driver*: the plugin is started only when it is loaded
  whole; what sounds is the last chord; bytes missed decide whether messages are
  read in step; `main()` always comes back to its UART.

## 2. Modules

| Module | Models | Correspondence |
|---|---|---|
| `ChordMessage` | the packet, its checksum, buttons to chord to notes | a byte is the set of its one bits: XOR is symmetric difference, `& 1` is membership of bit 0 |
| `PacketChannel` | abstract specification | a channel that loses packets but never alters, invents, repeats or reorders them |
| `EduCiaa` | `main.c`, `playing_chords.c`, `chords_map.c` of imu-and-buttons and the UART line | one action per byte (`ReadByte`, `ReadDamagedByte`, `LoseByte`), `Transmit`, `Reboot` and after it `setupVS1053`; `Parse` has one disjunct per path of the loop body; `Ring` is the synthesiser's damping of notes by keys and pedal |
| `Receptora` | `receptora.ino` | two threads with program counters; each copy is one step per chunk of bytes the compiled copy moves |
| `Emisora` | `emisora.ino` | `setup()` in three steps, one step per round of `loop()`; all times modulo `WRAP` |
| `StrumScheduler` | `midi_scheduler.c`, `strumChord()`, `detectStrum()`, `velocityFromGz()` of the latency program | `Round` (tick and queue), `Packet` (an accepted packet) |
| `StrumPulse` | the pair of latency sketches, and `detectStrum()` behind them | `Loop` and `EndPulse` (sender), `Receive`, `CopyStart`, `ReceiveInCopy`, `CopyEnd` (receiver), `Detect` (EDU-CIAA) |
| `RoundTrip` | both sketches of `esp32/delay` | one action per statement of `loop()` that touches state (`Stamp`, `Clear`, `Send`, `Start`, `Wait`, `Report`), the callback in four (`RecvSet`, `RecvClock`, `RecvMeasure`, `RecvReturn`), `Tick` |
| `Vs1053` | the driver, and the chip as an external component | `todo` is the sequence of SPI transactions still to be made; `Transact` makes the next one, `Ready` and `Play` are the chip's |
| `UartChords` | `main.c`, `playing_chords.c`, `chords_map.c` of testing_uart_chords, its UART | `Arrive`, `ReadByte`, `Transmit`, `Reboot`; a byte is its position in what the other board sends |
| `...Proofs` | theorems, one module per component | |
| `MC...` | constants of the instances | |

Composition:

- `EduCiaa` implements `PacketChannel` (`IsPacketChannel`): its accepted packets
  are `delivered`.  `Receptora` does not (`receptora_torn`): `ForwardedInOrder`,
  `QuietExact` and `ApartForwarded` say what holds of it, and of which frames.  What
  keeps frames apart is the pause of the sender, `SendsSpaced` of `Emisora`.
- `UartChords` extends `Vs1053`: the program appends to `todo`, and is back in its
  read loop when `todo` is empty.
- `StrumPulse` composes `emisor.ino`, `receptor.ino` and `detectStrum()`;
  `StrumScheduler` takes up where a strum has been heard.

What is abstracted: text on the serial ports, the debug print of the sender, the
red and blue LEDs, the value of a reading beyond the thresholds it is compared
with, and the `midiSchedProcess()` call of imu-and-buttons, whose queue nothing
fills.  In `EduCiaa` and `StrumScheduler` the SPI traffic behind `midiNoteOn` and
`midiNoteOff` is replaced by its effect on keys and notes, which `Vs1053` and
`UartChords` show; that a struck string dies away by itself is left out.  Only
imu-and-buttons uses the sustain pedal.  The queue of the code has 32 slots; `QSIZE` is a parameter.

History variables record what happened and guard no action: `accepted`,
`received`, `crowded`, `polled`, `upto`, `uart`, `input`, `elapsed`, `held`,
`ledAge`, `ledWrap`, `gap`, `sincePacket`, `refused`; in `RoundTrip` `elapsed`,
`waited`, `own`, `late`, the `real` of `t_recv_ack` and the marks `of` and `age` of a frame; in
`StrumPulse` `heard`, `tooSoon`, `lost` and the number of a strum; in
`UartChords` `reads`.

Environment: the UART line may lose runs of bytes and damage bytes, the EDU-CIAA
may reset at any byte, ESP-NOW frames of a wrong size may arrive, any frame of
`StrumPulse` and `RoundTrip` may be lost, those of `RoundTrip` arbitrarily late.
`noInterrupts()` masks the interrupts of one core only, and the WiFi task runs on
the other, so it does not exclude the callback.  The VS1053 ignores commands and
drops data that arrive while DREQ is low; the plugin, once started, plays whole
MIDI messages.

## 3. Runs

| Run | Shows | Bounds |
|---|---|---|
| `ciaa_faults` | `TypeOK`, `KeysAreLastChord`, `EveryChordSounds`, `IsPacketChannel`: with one damaged byte or up to three bytes lost in a row, exactly sent packets are accepted; the keys down are the last chord's, and the pedal keeps all chords sounding | 3 packets of 3 chords (two share a note) and 2 velocities, every position of the fault; noise bytes look like headers, like a button, and like neither |
| `ciaa_recovery` | `CleanAccepted`, `KeysAreLastChord`, `CleanEventuallyAccepted`: an intact packet after an intact one is accepted, and no key outlasts a reset and the setup after it | a gap of up to 9 bytes (a packet and one byte) or a damaged byte, and a reset at any byte; 3 packets, so that a clean pair follows a fault; one mask has no chord |
| `ciaa_phantom` (violation) | a gap of 4 bytes (`velocity`, checksum, `AA`, `55`) makes the parser accept a packet nobody sent | 2 packets suffice |
| `ciaa_noteoff` (violation) | the keys of the last chord stay down for ever | 2 packets |
| `receptora_race` | `ForwardedInOrder`, `QuietExact`, `ApartForwarded`, `FrameForwarded` under every interleaving of the two copies | 3 frames, copies of 4 halfwords; valid frames, a bad header and a bad checksum |
| `receptora_torn` (violation) | a copy interrupted by the callback mixes two frames and passes the checks | 2 frames, copies of 2 words |
| `emisora_clock` | `TypeOK`, `SendsSpaced`, `LedOffOnTime`, `StrumHeard`, `DebounceExact`, `PlayingKeepsSending` | clock of 9 ticks, pause 5, debounce 2, LED 1, rounds of 1 or 2 ticks, readings up to 1 tick after `now`: all alignments of pause and wrap occur; unbounded time |
| `scheduler_queue` | `TypeOK`, `NothingRefused`, `OffPending`, `OffInTime`, `NotesEnd` | 12 slots, the fewest that suffice; gap 1, length 5, cooldown 3, so that two cooldowns just exceed the life of a strum, as 202 ms exceed 200 ms in the code; rounds of up to 2 ticks, clock of 20; two chords that share a note, and one value without a chord; unbounded time |
| `scheduler_length` (violation) | a note struck again within its length is cut by the older NOTE OFF | the same, rounds of at most 1 tick |
| `roundtrip_late` | `TypeOK`, `TripsExact`, `FlagExact`, `WaitExact`, `AsksAgain` | timeout 2, pause 4, clock of 5, statements up to 1 tick late, 1 frame in flight in each direction and one in the callback: an acknowledgement can outlive a pause while the next is under way, a wait can cross the wrap, and `t_send` can be set between any two lines of the callback; unbounded time |
| `pulse_loss` | `TypeOK`, `HeardOnce`, `AboveMeansLost`, `StrumsAccounted` | 2 strums with a chord and any number without, 2 frames in the air, 1 packet in the UART, debounce 1: every packet may be lost, replaced, torn or passed on twice |
| `uart_chords` | `TypeOK`, `LoadedWhenStarted`, `KeysAreLastChord`, `MissedBytesDecide`, `BackToUart` | a plugin of 2 words, 2 bytes of data in the chip, messages of 6 bytes, UART of 3, 2 messages, 1 reset at any step; two chords that share a note and one value without a chord |

Why the bounds are enough: the parser forgets everything at a packet boundary, so
three packets contain a fault, its aftermath and a clean pair; times only enter
through differences compared with a constant, so a scaled clock keeps every order
of events; the shared buffer holds one frame, so three frames give a frame being
copied, one overwriting it and one after; `detectStrum()` remembers one packet, so
two strums show what the loss of a packet of the first does to the second; a
message is stopped by the next one only, so two give the change of chord, and the
reset between them the loss of step.  With bursts over three bytes
`IsPacketChannel` of `EduCiaa` is false (that is `ciaa_phantom`).  The theorems of
section 5 hold for every bound, but the two that state which faults they are about.

The runs of `EduCiaa`, `Emisora`, `Receptora`, `RoundTrip` and `UartChords` turn
off the deadlock check: the instance stops when its packets, frames or messages are
used up, and the senders halt in `setup()` on purpose.  `StrumScheduler` and
`StrumPulse` are checked for deadlock.

Fairness: `main()` polls in `while (true)`, so `ReadByte`, `Round` and the
driver's `Transmit` are weakly fair (a byte on the line is read, ticks go on, what
DREQ allows is sent), and so is `setupVS1053` before the loop; the Arduino core
calls `setup()` once and `loop()` for ever, so `Setup`, `Loop` and the statements
of `RoundTrip` (`Sender`) are; `millis()` goes on (`Tick`); a callback that has
begun ends (`Recv`); the chip gets done with a command and plays what it holds
(`ChipStep`, an assumption about the hardware).  Nothing is assumed of the player,
of ESP-NOW or of the line, and `StrumPulse` has no fairness.

## 4. What the disagreements mean

- `ciaa_phantom`: the README of imu-and-buttons says the checksum detects
  corruption.  An XOR over four bytes that are 0 or 1 does not see a splice of two
  packets.  Up to three lost bytes in a row, or one damaged byte, are always seen,
  which is proved for any number of such faults (`FaultsApartIsChannel`, section 5).
- `ciaa_noteoff`: `main.c` calls `midiSchedProcess()` "para que salgan NOTE OFF a
  tiempo", but `strumChord()` of this program schedules nothing.  A NOTE OFF would not
  end the sound either: see the pedal below.
- `receptora_torn`: the "copia segura" is safe against interrupts of the same core
  only.  What remains: a copy the callback leaves alone is exact (`QuietExact`), a
  torn one mixes only frames of one pass (`ForwardedInOrder`), and a valid frame is
  forwarded unless another comes before its clear or it comes during a copy
  (`ApartForwarded`), which the pause of the sender prevents.
- `scheduler_length`: the NOTE OFF of an earlier strum is not removed when the note
  is struck again.

Met while reading and not given a run:

- `setupVS1053()` ends with `midiControlChange(0, 64, 127)`, "Sustain pedal FULL"
  (`my_programs/imu-and-buttons/src/main.c:38`), while `stopChord()` sends NOTE OFF
  to end the previous chord, and `esp32/imu-and-buttons/README.md:516-518` has the
  sound end with the NOTE OFF.  With the pedal down it does not: the keys go up and
  the notes sound on.  `EveryChordSounds` is that behaviour, stated and proved.
- The callback of `esp32/delay/emisor.ino` reads `millis()` (line 41) and then
  `t_send` (line 42).  If `loop()` sets `t_send` in between, the printed delay is
  negative modulo 2^32.  That takes a callback that is still busy when the pause
  after its request is over (second part of `TripsExact`).

- `if (mpu.begin())` halts with "no detectado" on success in
  `esp32/imu-and-buttons/emisora.ino:147`, `esp32/delay/emisor.ino:74`,
  `esp32/testing_conection_imu_buttons/emisor.ino:54` and `esp32/test-values-imu`, if `begin()` returns what the
  Adafruit library documents; `esp32/emisor.ino:68` has the negation.  `Emisora`
  (`SetupMpu`) and `RoundTrip` (`Setup`) keep the condition as it is written, and let
  `begin()` return either value.
- The chord table of `esp32/imu-and-buttons/README.md:144-148` is that of neither
  program (button value 2 is RE mayor in `chords_map.c`, not DO menor).
- The README's "un mensaje por rasgueo" holds only for movements shorter than the
  pause of 300 ms; `emisor.ino:187` of the latency pair says "Un solo paquete por
  rasgueo" above two packets.
- `now >= ledVerdeApagarMs` does not allow for the wrap of `millis()`, so that the
  LED may go off at once or stay lit for a whole wrap (`LedOffOnTime` excludes
  exactly that case through `ledWrap`).
- An EDU-CIAA that starts in the middle of a message of testing_uart_chords reads
  out of step for good (`MissedBytesDecide`), as its messages have no header.

## 5. Proofs

Proved by TLAPS for every value of the constants that satisfies the named
assumption of the module (`...Assumption`: numbers are naturals, frames are
messages, the chunks of a copy cover the message, and every time that is compared
fits, with one round, in a wrap of the clock; for the scheduler half a wrap, as
`Due` is a signed comparison).

- `ChordMessageProofs` holds the facts about the packet the others rest on: after
  its header a packet has no header byte, its checksum is right, and so on.
- `EduCiaaProofs!TypeCorrect`: `main()` stays well typed; `idx` never leaves the
  8-byte buffer, whatever bytes arrive.
- `EduCiaaProofs!CleanIsAccepted`: `CleanAccepted` for any number of packets,
  faults, lengths of gaps and resets.  `CleanAccepted` speaks of packets that are
  over; the inductive invariant `ResyncInv` adds where the automaton is in the
  current packet.  If the packet and its predecessor are intact so far, the
  automaton is *in step*: its `idx` is the offset in the packet and `p` holds the
  bytes read.  If only the current packet is intact so far (`OutOfStep`), it may be
  anywhere, but by the last byte of the packet it has finished whatever it was
  collecting, because a frame is as long as a packet and the bytes of a packet after
  its header contain no `0xAA`.
- `EduCiaaProofs!LastChordKeys`, `AllChordsSound`: `KeysAreLastChord` and
  `EveryChordSounds`.  `SoundInv` says that `prev` names the keys that are down
  (none since boot, or the chord of the last packet that had one), which is why
  stopping `prev` lifts every key before the new chord; that no packet is accepted
  before `setupVS1053()` has reset the synthesiser and put the pedal down; and that
  no accepted packet belongs to a later boot, which makes a reset start afresh.
- `EduCiaaProofs!FaultsApartIsChannel`, `FaultsApartOnlySent`: the refinement
  `IsPacketChannel` and `OnlySentAccepted`.  Neither holds for arbitrary faults
  (`ciaa_phantom`), so the theorems say for which: `ShortRuns` (a run of lost bytes
  has at most three; a run of four breaks it) and `[][FaultsApart]_vars` (after the
  first fault, each begins in a packet that has been intact so far and follows an
  intact one), with no limit on the number of faults, packets and resets.  It is an
  assumption about the wire, not about the program.  `FrameInv` says what a frame
  under way can hold:
  the packet on the line (`Following`), the same with one byte changed (`Altered`),
  a packet with 1 to 3 bytes missing (`Short`), such a frame going on into the next
  packet (`Spliced`), or one that lost the next `0xAA` too (`Headless`).  Each but
  the first fails the checksum by one bit: no byte after the header has bit 7 or 2,
  which the header bytes do, and only velocity and checksum have bit 4; so a spliced
  frame has exactly one byte with bit 7, or one with bit 2, or a button where its
  checksum should be.  `CleanIsAccepted` supplies the rest: where the next fault
  begins, the parser is in step again.  `OneFaultIsChannel` is the case of
  `ciaa_faults`, at most one fault.
- `ReceptoraProofs!BytesComeInOrder`: `ForwardedInOrder` under every interleaving
  of the callback and `loop()`, for every way of cutting the copies into chunks.
  `PassInv` (the flag stays set while `loop()` copies; a flag set after the clear is
  of a newer frame than the one that started the pass) and `OrderInv` (a pass starts
  no earlier than the one before ended) number the frames of each pass, `StoreInv`
  says what `memcpy()` has moved so far, and `CopyInv` from which frames of its pass
  each byte `loop()` has copied comes.
- `ReceptoraProofs!UndisturbedIsExact`: `QuietExact`, from the same: a pass of one
  frame has all its bytes from that frame.
- `ReceptoraProofs!ApartAreForwarded`: `ApartForwarded`.  `ApartInv` adds where such a
  frame is until it is written: alone in the buffer with the flag set, or in a pass
  of its own.
- `EmisoraProofs!PacketsSpaced`, `StrumsHeard`, `DebounceIsExact`: `SendsSpaced`,
  `StrumHeard` and `DebounceExact`.  `TimeInv` relates each wrapped difference to
  real time: `PausaInv` (the difference is the real time unless a whole wrap has
  passed), `GapInv` (the last packet is at least as old as the last strum) and
  `DebounceInv` (the difference is real until `DEBOUNCE_MS`, and from then on the
  stable state is the reading, so that a stale difference changes nothing).
- `EmisoraProofs!TypeCorrect`, `LedGoesOff`: `TypeOK` and `LedOffOnTime`.  `FullInv`
  adds `LedInv` to `TimeInv`: the age of a lit LED and the time it has left are what
  it was lit for, unless its switch-off lies behind a wrap.
- `StrumSchedulerProofs!TypeCorrect`, `NeverRefused`, `OffIsPending`, `OffIsInTime`.  `SchedInv`:
  `PendingInv` (the time an event has left and the time since the last strum
  together are no more than the life of a strum), `RoomInv` (all but six events
  are due before `COOLDOWN` allows another strum, so that six more find room) and
  `OffPending` itself.  The lemmas on `Rank` say which slot each event of a strum
  takes: the NOTE OFF of a note a higher one than its NOTE ON.  `RoomAssumption`
  (two pauses are at least as long as a strum keeps events, twelve slots) is what
  the code's constants satisfy by 2 ms.  `OffIsInTime` is the safety half of
  `NotesEnd`: the NOTE OFF is due within the life of a strum, so that only rounds and
  time have to go on.
- `StrumPulseProofs!TypeCorrect`, `StrumsHeardOnce`, `HighMeansLost`,
  `LossCostsOne`: the three properties for any number of strums and losses.
  `StrumInv`: `OrderInv` (the packets on their way are in the order sent), `HeardInv`
  (what has been judged is older than what is on its way, and a strum can be
  judged again only while `above` forbids it), `RestInv` and `AfterInv` (when
  `above` is set, the packet that clears it is on its way or lost) and `Accounted`.
- `RoundTripProofs!TypeCorrect`, `TripsAreExact`, `FlagIsExact`, `WaitIsExact`:
  `SinceInv` and `WaitInv` relate wrapped differences to real time, `AirInv` and
  `PauseInv` say that what is in flight from an earlier request is a whole pause
  old when the next begins.  `MeasureInv` says that, until `t_send` is set again,
  the clock the callback has read is the real time after it, and `FlagInv` what set
  the flag.
- `UartChordsProofs!TypeCorrect`, `PluginLoaded`, `MissedDecide`, `LastChordSounds`: `PositionInv`
  (`SentInv`, `LineInv`: the bytes in the UART ascend; `MessageInv`: so do those of
  the message and they have been read since boot), `DriverInv` (`Starting(k)`: what
  is left of `setup()` and what the registers hold are the whole program; then
  `Booted` and `Playing`) and `FifoInv`.  The lemmas on division give the remainder
  of a position by the message size.  For `KeysAreLastChord`, `ToPlay` looks ahead:
  the data on their way, first those in the chip and then those still to be sent,
  lead the plugin from its present state to exactly the notes of the last chord.
  `Leads` states that by a history of states, one per byte (`Course`), which steps
  shorten at one end and lengthen at the other; no induction over the data is needed.

## 6. Only model-checked

Liveness (`CleanEventuallyAccepted`, `FrameForwarded`, `PlayingKeepsSending`,
`NotesEnd`, `AsksAgain`, `BackToUart`) is out of the prover's reach and is checked
by TLC, on the instances of section 3 only.  Every invariant and action property of a
passing run, and the refinement, are theorems.  `IsPacketChannel` of `EduCiaa` is a
theorem for faults that stay apart; what two faults in the same packet, or in two
adjacent ones, can do is neither proved nor checked.

## 7. Not modelled

- The byte automaton of the latency program reads 31 bytes with the code of
  imu-and-buttons, which `EduCiaa` models over 8; its readings are 0 and 500, whose
  bytes are no header byte.  What the program does with an accepted packet, and the
  loss of packets before it, is in `StrumScheduler` and `StrumPulse`.
- The failed `esp_now_init()` of a receiver stops `setup()` and then nothing ever
  arrives: there is no state to model.
- Bench programs (single-device tests of chords, buttons, the synthesiser and the
  UART) and early sketches are straight-line hardware tests without protocol state.
- `libs/`, `examples/`, `templates/` and `test/` are the vendored CIAA firmware
  (sAPI, LPCOpen, FreeRTOS, lwIP, FatFs, CMSIS, ...), third-party code that is more
  than 99 % of the lines of the repository; the instrument uses sAPI for UART, SPI,
  GPIO and the tick, whose effect the modules state where they use it.

## 8. Plan

Done, in this order: packet, parser and player; receptora; emisora; scheduler; round
trip; pulse; testing_uart_chords with the VS1053 driver; a proof module for each.

Left, by value:

1. `Dipesim`, the three boards on one clock: the pause of the sender and a bound on
   a round of the receiver discharge the hypothesis "the callback stays away", so
   that the chain is a `PacketChannel` from the sender to the chord that sounds.
2. The 31-byte parser over readings whose bytes may be header bytes, if the sender
   comes to send real readings.
3. The least distance between two faults for which the refinement of `PacketChannel`
   by `EduCiaa` still holds, as a run.
