----------------------------- MODULE RoundTrip -----------------------------
(***************************************************************************)
(* The round-trip measurement (esp32/delay): loop() of emisor.ino sends a  *)
(* request, waits up to TIMEOUT for the acknowledgement and pauses PERIOD; *)
(* OnDataRecv of receptor.ino answers each request; OnDataRecv of          *)
(* emisor.ino, in the WiFi task, sets ack_received and measures.  Neither  *)
(* frame carries a number.  Readings and LEDs are only shown and left out. *)
(*                                                                         *)
(* millis() wraps at WRAP.  Each statement of loop() starts at most MaxLag *)
(* after it may; delay(n) takes at least n.  Frames travel in order, for   *)
(* any time, or are lost.                                                  *)
(***************************************************************************)
EXTENDS Integers, Sequences, SequencesExt

CONSTANTS
  TIMEOUT,    \* 100 ms
  PERIOD,     \* 200 ms
  WRAP,       \* millis() is counted modulo WRAP (2^32)
  MaxLag,     \* bound on the delay of a statement of loop()
  MaxAir      \* bound on the frames in flight in each direction

ASSUME RoundTripAssumption ==
  /\ TIMEOUT \in Nat /\ PERIOD \in Nat \ {0} /\ MaxLag \in Nat /\ MaxAir \in Nat
  /\ WRAP \in Nat /\ PERIOD < WRAP /\ TIMEOUT + MaxLag + 1 < WRAP

VARIABLES
  now,                          \* millis()
  pc, sleep,                    \* loop(): next statement, and time until it may
                                \* run (negative: how late it is)
  linked,                       \* ESP-NOW is up and the peer is known
  t_send, ack_received, start,
  requests, acks,               \* frames in flight
  handled,                      \* OnDataRecv: the frame it is handling, if any,
  t_recv_ack, round_trip,       \* and its locals, once set; with t_recv_ack the
                                \* real time since that frame's request
  elapsed, waited,              \* history: time since t_send and start were set,
                                \* up to PERIOD, and WRAP
  own, late                     \* history: acknowledgements handled since
                                \* ack_received was cleared: of this request, and
                                \* at least PERIOD old

sender  == <<pc, sleep, linked, t_send, start>>
air     == <<requests, acks>>
recv    == <<handled, t_recv_ack, round_trip>>
history == <<elapsed, waited, own, late>>
vars    == <<now, sender, ack_received, air, recv, history>>

Clock == 0..(WRAP - 1)

\* A frame belongs to this request or to an earlier one, and age is the time
\* since t_send was set for it, up to PERIOD.
Frame == [of : {"this", "earlier"}, age : 0..PERIOD]

TypeOK ==
  /\ now \in Clock /\ t_send \in Clock /\ start \in Clock
  /\ pc \in {"setup", "halted", "stamp", "clear", "send", "start", "wait", "report"}
  /\ sleep \in (-MaxLag)..PERIOD
  /\ linked \in BOOLEAN /\ ack_received \in BOOLEAN
  /\ requests \in Seq(Frame) /\ acks \in Seq(Frame) /\ handled \in Seq(Frame)
  /\ Len(requests) <= MaxAir /\ Len(acks) <= MaxAir /\ Len(handled) <= 1
  /\ t_recv_ack \in Seq([ms : Clock, real : 0..PERIOD]) /\ round_trip \in Seq(Clock)
  /\ Len(round_trip) <= Len(t_recv_ack) /\ Len(t_recv_ack) <= Len(handled)
  /\ elapsed \in 0..PERIOD /\ waited \in 0..WRAP
  /\ own \in BOOLEAN /\ late \in BOOLEAN

Init ==
  /\ now = 0 /\ t_send = 0 /\ start = 0
  /\ pc = "setup" /\ sleep = 0 /\ linked = FALSE
  /\ ack_received = FALSE
  /\ requests = << >> /\ acks = << >>
  /\ handled = << >> /\ t_recv_ack = << >> /\ round_trip = << >>
  /\ elapsed = PERIOD /\ waited = 0
  /\ own = FALSE /\ late = FALSE

---------------------------------------------------------------------------
(* emisor.ino: setup() and loop() *)

Since(t) == (now - t) % WRAP

\* The sender runs the statement at, and is next at to, ms later.
Runs(at, to, ms) ==
  /\ pc = at /\ sleep <= 0
  /\ pc' = to /\ sleep' = ms

\* setup() returns early when ESP-NOW does not start, and loop() runs anyway; it
\* halts when mpu.begin() succeeds.
Setup ==
  /\ \E up, peer, begun \in BOOLEAN :
       /\ Runs("setup", IF up /\ begun THEN "halted" ELSE "stamp", 0)
       /\ linked' = (up /\ peer)
  /\ UNCHANGED <<now, t_send, start, ack_received, air, recv, history>>

Older(frames) == [i \in DOMAIN frames |-> [frames[i] EXCEPT !.of = "earlier"]]

\* t_send = millis()
Stamp ==
  /\ Runs("stamp", "clear", 0)
  /\ t_send' = now
  /\ elapsed' = 0
  /\ requests' = Older(requests)
  /\ acks' = Older(acks)
  /\ handled' = Older(handled)
  /\ UNCHANGED <<now, linked, start, ack_received, t_recv_ack, round_trip, waited, own, late>>

\* ack_received = false
Clear ==
  /\ Runs("clear", "send", 0)
  /\ ack_received' = FALSE
  /\ own' = FALSE /\ late' = FALSE
  /\ UNCHANGED <<now, linked, t_send, start, air, recv, elapsed, waited>>

\* esp_now_send(); an error is printed only.
Send ==
  /\ Runs("send", "start", 0)
  /\ \/ /\ linked /\ Len(requests) < MaxAir
        /\ requests' = Append(requests, [of |-> "this", age |-> elapsed])
     \/ UNCHANGED requests
  /\ UNCHANGED <<now, linked, t_send, start, ack_received, acks, recv, history>>

StartClears ==
  /\ Runs("start", "wait", 0)
  /\ start' = now
  /\ waited' = 0
  /\ ack_received' = FALSE
  /\ UNCHANGED <<now, linked, t_send, air, recv, elapsed, own, late>>

\* start = millis()
Start ==
  /\ Runs("start", "wait", 0)
  /\ start' = now
  /\ waited' = 0
  /\ UNCHANGED <<now, linked, t_send, ack_received, air, recv, elapsed, own, late>>

TimeLeftNoModular == now < (start + TIMEOUT) % WRAP

\* millis() - start < 100
TimeLeft == Since(start) < TIMEOUT

\* while (!ack_received && millis() - start < 100)
KeepsWaiting == ~ack_received /\ TimeLeft

WaitRestarts ==
  /\ \/ KeepsWaiting /\ Runs("wait", "wait", 1) /\ start' = now /\ waited' = 0
     \/ ~KeepsWaiting /\ Runs("wait", "report", 0) /\ UNCHANGED <<start, waited>>
  /\ UNCHANGED <<now, linked, t_send, ack_received, air, recv, elapsed, own, late>>

Wait ==
  /\ \/ KeepsWaiting /\ Runs("wait", "wait", 1)
     \/ ~KeepsWaiting /\ Runs("wait", "report", 0)
  /\ UNCHANGED <<now, linked, t_send, start, ack_received, air, recv, history>>

ReportPausesWithoutAck ==
  /\ Runs("report", "stamp", IF ack_received THEN 0 ELSE PERIOD)
  /\ UNCHANGED <<now, linked, t_send, start, ack_received, air, recv, history>>

\* if (!ack_received) prints; delay(200)
Report ==
  /\ Runs("report", "stamp", PERIOD)
  /\ UNCHANGED <<now, linked, t_send, start, ack_received, air, recv, history>>

Sender == Setup \/ Stamp \/ Clear \/ Send \/ Start \/ Wait \/ Report

---------------------------------------------------------------------------
(* emisor.ino: OnDataRecv, in the WiFi task *)

\* ack_received = true
RecvSet ==
  /\ handled = << >> /\ acks # << >>
  /\ handled' = <<Head(acks)>>
  /\ acks' = Tail(acks)
  /\ ack_received' = TRUE
  /\ own' = (own \/ Head(acks).of = "this")
  /\ late' = (late \/ Head(acks).age = PERIOD)
  /\ UNCHANGED <<now, sender, requests, t_recv_ack, round_trip, elapsed, waited>>

\* uint32_t t_recv_ack = millis()
RecvClock ==
  /\ handled # << >> /\ t_recv_ack = << >>
  /\ t_recv_ack' = <<[ms |-> now, real |-> Head(handled).age]>>
  /\ UNCHANGED <<now, sender, ack_received, air, handled, round_trip, history>>

Result(ms) ==
  /\ t_recv_ack # << >> /\ round_trip = << >>
  /\ round_trip' = <<ms>>
  /\ UNCHANGED <<now, sender, ack_received, air, handled, t_recv_ack, history>>

RecvMeasureSigned == Result(Head(t_recv_ack).ms - t_send)

\* uint32_t round_trip = t_recv_ack - t_send; loop() may have set t_send since
\* the clock was read.
RecvMeasure == Result((Head(t_recv_ack).ms - t_send) % WRAP)

\* Printed; the callback returns.
RecvReturn ==
  /\ round_trip # << >>
  /\ handled' = << >> /\ t_recv_ack' = << >> /\ round_trip' = << >>
  /\ UNCHANGED <<now, sender, ack_received, air, history>>

---------------------------------------------------------------------------
(* receptor.ino, the air and the clock *)

\* OnDataRecv: answers a request, unless its esp_now_send fails.
Answer ==
  /\ requests # << >>
  /\ requests' = Tail(requests)
  /\ \/ Len(acks) < MaxAir /\ acks' = Append(acks, Head(requests))
     \/ UNCHANGED acks
  /\ UNCHANGED <<now, sender, ack_received, recv, history>>

Lose ==
  /\ \/ \E i \in DOMAIN requests : requests' = RemoveAt(requests, i) /\ UNCHANGED acks
     \/ \E i \in DOMAIN acks : acks' = RemoveAt(acks, i) /\ UNCHANGED requests
  /\ UNCHANGED <<now, sender, ack_received, recv, history>>

UpTo(bound, n) == IF n < bound THEN n + 1 ELSE bound

Aged(frames) == [i \in DOMAIN frames |-> [frames[i] EXCEPT !.age = UpTo(PERIOD, @)]]

Tick ==
  /\ sleep > -MaxLag
  /\ now' = (now + 1) % WRAP
  /\ sleep' = sleep - 1
  /\ requests' = Aged(requests)
  /\ acks' = Aged(acks)
  /\ handled' = Aged(handled)
  /\ elapsed' = UpTo(PERIOD, elapsed)
  /\ waited' = UpTo(WRAP, waited)
  /\ UNCHANGED <<pc, linked, t_send, start, ack_received, t_recv_ack, round_trip, own, late>>

Receive == RecvSet \/ RecvClock \/ RecvMeasure \/ RecvReturn

Next == Sender \/ Receive \/ Answer \/ Lose \/ Tick

Spec == Init /\ [][Next]_vars

\* loop() is called for ever, and time passes.
FairSpec == Spec /\ WF_vars(Sender) /\ WF_vars(Tick)

---------------------------------------------------------------------------
(* Properties *)

\* A round trip shorter than PERIOD is printed exactly, across the wrap of
\* millis() and whatever late acknowledgements of earlier requests arrive before
\* it, unless loop() sets t_send for the next request before OnDataRecv has
\* subtracted it: then clock and t_send are of two requests, and the difference
\* is negative modulo WRAP, or too short.  That happens only to a callback still
\* busy PERIOD after the request it measures.
TripsExact ==
  round_trip # << >> =>
    /\ Head(handled).of = "this" /\ Head(t_recv_ack).real < PERIOD =>
         Head(round_trip) = Head(t_recv_ack).real
    /\ Head(handled).of = "earlier" => Head(handled).age = PERIOD

\* The flag loop() looks at says that this request was acknowledged: it is set
\* by that acknowledgement, however early, or by one at least PERIOD old.
FlagExact ==
  pc \in {"start", "wait", "report"} =>
    /\ own => ack_received
    /\ ack_received => own \/ late

\* "ACK no recibido" is printed after TIMEOUT, neither earlier nor more than a
\* round of the loop later, on both sides of the wrap of millis().
WaitExact ==
  /\ pc = "wait" => waited <= TIMEOUT + MaxLag
  /\ pc = "report" /\ ~ack_received => waited >= TIMEOUT

\* However many requests and acknowledgements are lost, the next request
\* follows.
AsksAgain == pc = "send" ~> pc = "stamp"
============================================================================
