----------------------------- MODULE Receptora -----------------------------
(***************************************************************************)
(* The receiving ESP32 (esp32/imu-and-buttons/receptora.ino).  OnDataRecv  *)
(* runs in the WiFi task on one core and copies an ESP-NOW frame to        *)
(* lastMsg; loop() runs on the other core, copies lastMsg out, clears      *)
(* hasMsg, validates the copy and writes it to the UART.  noInterrupts()   *)
(* masks interrupts on the core of loop() only, so the two copies          *)
(* interleave freely: a copy is done chunk by chunk, one step each.        *)
(***************************************************************************)
EXTENDS ChordMessage, Sequences

CONSTANTS
  Frames,      \* ESP-NOW payloads of sizeof(ChordMessage) bytes
  Chunks,      \* the bytes the compiled copies move at each step, in order
  MaxFrames    \* bound on the frames that arrive

ASSUME ReceptoraAssumption ==
  /\ Frames \subseteq Message
  /\ Chunks \in Seq(SUBSET (0..(SIZE - 1)))
  /\ \A i \in 0..(SIZE - 1) : \E c \in 1..Len(Chunks) : i \in Chunks[c]
  /\ MaxFrames \in Nat

VARIABLES
  hasMsg, lastMsg,          \* the shared buffer
  cbPc, cbChunk, data,      \* OnDataRecv: where it is, and its frame
  loopPc, chunk, msg,       \* loop(): where it is, and its local copy
  arrivals,                 \* frames so far (bounded by MaxFrames)
  received,                 \* history: frames OnDataRecv has stored
  crowded,                  \* history: those another one came upon before the
                            \* clear, or stored while loop() was copying
  polled, upto,             \* history: the last frame stored when loop() saw
                            \* hasMsg, and the last one begun when it cleared it
  uart                      \* packets written to the UART, with that history

shared   == <<hasMsg, lastMsg>>
callback == <<cbPc, cbChunk, data, arrivals, received, crowded>>
loopVars == <<loopPc, chunk, msg, polled, upto, uart>>
vars     == <<shared, callback, loopVars>>

Zero == [i \in 0..(SIZE - 1) |-> {}]

TypeOK ==
  /\ hasMsg \in BOOLEAN
  /\ lastMsg \in Message
  /\ cbPc \in {"idle", "memcpy", "set"}
  /\ cbChunk \in 1..(Len(Chunks) + 1)
  /\ data \in Message
  /\ loopPc \in {"poll", "copy", "clear", "process"}
  /\ chunk \in 1..(Len(Chunks) + 1)
  /\ msg \in Message
  /\ arrivals \in 0..MaxFrames
  /\ received \in Seq(Message)
  /\ crowded \subseteq Nat
  /\ polled \in Nat
  /\ upto \in Nat
  /\ uart \in Seq([from : Nat, to : Nat, msg : Message])

Init ==
  /\ hasMsg = FALSE
  /\ lastMsg = Zero
  /\ cbPc = "idle"
  /\ cbChunk = 1
  /\ data = Zero
  /\ loopPc = "poll"
  /\ chunk = 1
  /\ msg = Zero
  /\ arrivals = 0
  /\ received = << >>
  /\ crowded = {}
  /\ polled = 0
  /\ upto = 0
  /\ uart = << >>

CopyChunk(dst, src, c) ==
  [i \in 0..(SIZE - 1) |-> IF i \in Chunks[c] THEN src[i] ELSE dst[i]]

\* Frames are numbered in the order they are stored; the one OnDataRecv is on
\* already has its number.
Begun    == Len(received) + (IF cbPc = "idle" THEN 0 ELSE 1)
Frame(m) == IF m <= Len(received) THEN received[m] ELSE data

---------------------------------------------------------------------------
(* OnDataRecv *)

Arrives ==
  /\ cbPc = "idle"
  /\ arrivals < MaxFrames
  /\ arrivals' = arrivals + 1

\* len != sizeof(ChordMessage): the frame is dropped.
WrongSize ==
  /\ Arrives
  /\ UNCHANGED <<shared, cbPc, cbChunk, data, received, crowded, loopVars>>

RecvStart ==
  /\ Arrives
  /\ \E f \in Frames : data' = f
  /\ cbPc' = "memcpy"
  /\ cbChunk' = 1
  /\ crowded' = crowded \cup (IF hasMsg THEN {Len(received)} ELSE {})
  /\ UNCHANGED <<shared, received, loopVars>>

\* memcpy(&lastMsg, data, sizeof(lastMsg))
RecvCopy ==
  /\ cbPc = "memcpy"
  /\ \/ /\ cbChunk <= Len(Chunks)
        /\ lastMsg' = CopyChunk(lastMsg, data, cbChunk)
        /\ cbChunk' = cbChunk + 1
        /\ UNCHANGED cbPc
     \/ /\ cbChunk > Len(Chunks)
        /\ cbPc' = "set"
        /\ UNCHANGED <<lastMsg, cbChunk>>
  /\ UNCHANGED <<hasMsg, data, arrivals, received, crowded, loopVars>>

Stored ==
  /\ received' = Append(received, data)
  /\ crowded' = crowded \cup (IF loopPc \in {"copy", "clear"}
                             THEN {Len(received) + 1} ELSE {})

RecvForgetsToSet ==
  /\ cbPc = "set"
  /\ Stored
  /\ cbPc' = "idle"
  /\ UNCHANGED <<shared, cbChunk, data, arrivals, loopVars>>

\* hasMsg = true
RecvSet ==
  /\ cbPc = "set"
  /\ hasMsg' = TRUE
  /\ Stored
  /\ cbPc' = "idle"
  /\ UNCHANGED <<lastMsg, cbChunk, data, arrivals, loopVars>>

---------------------------------------------------------------------------
(* loop() *)

LoopPollAlways ==
  /\ loopPc = "poll"
  /\ loopPc' = "copy"
  /\ chunk' = 1
  /\ polled' = Len(received)
  /\ UNCHANGED <<shared, callback, msg, upto, uart>>

\* if (hasMsg)
LoopPoll ==
  /\ loopPc = "poll"
  /\ hasMsg
  /\ loopPc' = "copy"
  /\ chunk' = 1
  /\ polled' = Len(received)
  /\ UNCHANGED <<shared, callback, msg, upto, uart>>

\* ChordMessage msg = lastMsg
LoopCopy ==
  /\ loopPc = "copy"
  /\ \/ /\ chunk <= Len(Chunks)
        /\ msg' = CopyChunk(msg, lastMsg, chunk)
        /\ chunk' = chunk + 1
        /\ UNCHANGED loopPc
     \/ /\ chunk > Len(Chunks)
        /\ loopPc' = "clear"
        /\ UNCHANGED <<msg, chunk>>
  /\ UNCHANGED <<shared, callback, polled, upto, uart>>

LoopNoClear ==
  /\ loopPc = "clear"
  /\ loopPc' = "process"
  /\ upto' = Begun
  /\ UNCHANGED <<shared, callback, chunk, msg, polled, uart>>

\* hasMsg = false
LoopClear ==
  /\ loopPc = "clear"
  /\ hasMsg' = FALSE
  /\ loopPc' = "process"
  /\ upto' = Begun
  /\ UNCHANGED <<lastMsg, callback, chunk, msg, polled, uart>>

Forward == uart' = Append(uart, [from |-> polled, to |-> upto, msg |-> msg])

LoopProcessClears ==
  /\ loopPc = "process"
  /\ \/ HeaderOK(msg) /\ ChecksumOK(msg) /\ Forward
     \/ ~(HeaderOK(msg) /\ ChecksumOK(msg)) /\ UNCHANGED uart
  /\ loopPc' = "poll"
  /\ hasMsg' = FALSE
  /\ UNCHANGED <<lastMsg, callback, chunk, msg, polled, upto>>

\* Header and checksum are checked on the copy; a bad one is dropped.
LoopProcess ==
  /\ loopPc = "process"
  /\ \/ HeaderOK(msg) /\ ChecksumOK(msg) /\ Forward
     \/ ~(HeaderOK(msg) /\ ChecksumOK(msg)) /\ UNCHANGED uart
  /\ loopPc' = "poll"
  /\ UNCHANGED <<shared, callback, chunk, msg, polled, upto>>

Loop == LoopPoll \/ LoopCopy \/ LoopClear \/ LoopProcess

Recv == RecvCopy \/ RecvSet

Next == WrongSize \/ RecvStart \/ Recv \/ Loop

Spec == Init /\ [][Next]_vars

\* loop() is called forever, and a callback under way finishes.
FairSpec == Spec /\ WF_vars(Loop) /\ WF_vars(Recv)

---------------------------------------------------------------------------
(* Properties *)

\* However the two cores interleave, every byte loop() writes was stored by
\* OnDataRecv between the frame that set hasMsg and the last one begun when it
\* was cleared, and the next packet starts where this one ended: a packet mixes
\* only frames that met in one pass, and a frame is in two packets only if it
\* was on its way in at the clear.
ForwardedInOrder ==
  \A j \in 1..Len(uart) :
    /\ uart[j].from >= 1
    /\ \A i \in 0..(SIZE - 1) :
         \E m \in uart[j].from .. uart[j].to : uart[j].msg[i] = Frame(m)[i]
    /\ \A i \in 1..(j - 1) : uart[i].to <= uart[j].from

\* When OnDataRecv stays away between the test of hasMsg and its clearing,
\* loop() forwards exactly the newest frame, and never that frame again.
QuietExact ==
  \A j \in 1..Len(uart) : uart[j].from = uart[j].to =>
    /\ uart[j].from \in 1..Len(received)
    /\ uart[j].msg = received[uart[j].from]
    /\ \A i \in (j + 1)..Len(uart) : uart[i].from > uart[j].from

\* The k-th frame was written to the UART as it was received.
Forwarded(k) ==
  \E j \in 1..Len(uart) : /\ uart[j].from = k /\ uart[j].to = k
                          /\ uart[j].msg = received[k]

\* One buffer is enough for frames that stay apart: a valid frame is lost or
\* torn only when the next one arrives before its clear, or when it comes in
\* while loop() copies the one before.
ApartForwarded ==
  \A k \in (1..Len(received)) \ crowded :
    HeaderOK(received[k]) /\ ChecksumOK(received[k]) =>
      \/ k = Len(received) /\ hasMsg
      \/ k = polled /\ loopPc = "process"
      \/ Forwarded(k)

\* A valid frame whose flag is set while loop() waits for one is forwarded
\* unaltered, unless another frame arrives first: hasMsg is not cleared before
\* its frame was copied.
FrameForwarded ==
  \A k, n \in 1..MaxFrames :
    (/\ cbPc = "set" /\ loopPc = "poll" /\ ~hasMsg
     /\ HeaderOK(data) /\ ChecksumOK(data)
     /\ Len(received) = k - 1 /\ arrivals = n)
    ~> (arrivals > n \/ Forwarded(k))

\* "Copia segura" (receptora.ino): what is forwarded is a frame that was
\* received, never a mixture of two.
ForwardedWasReceived ==
  \A j \in 1..Len(uart) :
    uart[j].msg \in {received[k] : k \in 1..Len(received)} \cup {data}
============================================================================
