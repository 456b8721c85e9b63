-------------------------- MODULE RoundTripProofs --------------------------
(***************************************************************************)
(* Proofs about RoundTrip, for all times and clock widths, any number of   *)
(* frames in flight and any loss.                                          *)
(***************************************************************************)
EXTENDS RoundTrip, SequenceTheorems, TLAPS

---------------------------------------------------------------------------
(* Frames in flight *)

\* What a frame says when the current request is e old.
Frames(e) == {[of |-> "this", age |-> e], [of |-> "earlier", age |-> PERIOD]}

\* Setting t_send makes every frame one of an earlier request, as long as the
\* pause was not cut short.
LEMMA OlderFrames ==
  ASSUME NEW s \in Seq(Frames(PERIOD))
  PROVE  Older(s) \in Seq(Frames(0)) /\ Len(Older(s)) = Len(s)
<1> DEFINE F == Frames(PERIOD)
           G == Frames(0)
           o(f) == [f EXCEPT !.of = "earlier"]
<1>1. \A f \in F : o(f) \in G
  <2>1. o([of |-> "this", age |-> PERIOD]) = [of |-> "earlier", age |-> PERIOD]
    OBVIOUS
  <2>2. o([of |-> "earlier", age |-> PERIOD]) = [of |-> "earlier", age |-> PERIOD]
    OBVIOUS
  <2> HIDE DEF o
  <2> QED BY <2>1, <2>2, Zenon DEF Frames
<1>2. Older(s) = [i \in 1..Len(s) |-> o(s[i])]
  BY DEF Older
<1> HIDE DEF F, G, o
<1>3. s \in Seq(F)
  BY DEF F
<1>4. Older(s) \in Seq(G) /\ Len(Older(s)) = Len(s)
  BY <1>1, <1>2, <1>3
<1> QED BY <1>4 DEF G

\* Frames age with the request they belong to.
LEMMA AgedFrames ==
  ASSUME NEW e \in 0..PERIOD, NEW s \in Seq(Frames(e))
  PROVE  Aged(s) \in Seq(Frames(UpTo(PERIOD, e))) /\ Len(Aged(s)) = Len(s)
<1> DEFINE F == Frames(e)
           G == Frames(UpTo(PERIOD, e))
           o(f) == [f EXCEPT !.age = UpTo(PERIOD, @)]
<1>0. UpTo(PERIOD, PERIOD) = PERIOD
  BY RoundTripAssumption DEF UpTo
<1>1. \A f \in F : o(f) \in G
  <2>1. o([of |-> "this", age |-> e]) = [of |-> "this", age |-> UpTo(PERIOD, e)]
    OBVIOUS
  <2>2. o([of |-> "earlier", age |-> PERIOD]) = [of |-> "earlier", age |-> PERIOD]
    BY <1>0
  <2> HIDE DEF o
  <2> QED BY <2>1, <2>2, Zenon DEF Frames
<1>2. Aged(s) = [i \in 1..Len(s) |-> o(s[i])]
  BY DEF Aged
<1> HIDE DEF F, G, o
<1>3. s \in Seq(F)
  BY DEF F
<1>4. Aged(s) \in Seq(G) /\ Len(Aged(s)) = Len(s)
  BY <1>1, <1>2, <1>3
<1> QED BY <1>4 DEF G

\* Losing a frame leaves a shorter sequence of the same frames.
LEMMA RemoveFrames ==
  ASSUME NEW S, NEW s \in Seq(S), NEW i \in 1..Len(s)
  PROVE  RemoveAt(s, i) \in Seq(S) /\ Len(RemoveAt(s, i)) = Len(s) - 1
<1> DEFINE a == SubSeq(s, 1, i - 1)
           b == SubSeq(s, i + 1, Len(s))
<1>1. a \in Seq(S) /\ Len(a) = i - 1
  OBVIOUS
<1>2. b \in Seq(S) /\ Len(b) = Len(s) - i
  OBVIOUS
<1>3. RemoveAt(s, i) = a \o b
  BY DEF RemoveAt
<1> HIDE DEF a, b
<1>4. a \o b \in Seq(S) /\ Len(a \o b) = Len(a) + Len(b)
  BY <1>1, <1>2, ConcatProperties
<1>5. Len(s) \in Nat
  OBVIOUS
<1> QED BY <1>1, <1>2, <1>3, <1>4, <1>5

---------------------------------------------------------------------------
(* Time *)

\* One more tick.
LEMMA TickSince ==
  ASSUME NEW n \in Clock, NEW t \in Clock, NEW e \in Nat, e + 1 < WRAP,
         (n - t) % WRAP = e
  PROVE  (((n + 1) % WRAP) - t) % WRAP = e + 1
<1>1. WRAP \in Nat /\ WRAP > 0
  BY RoundTripAssumption
<1> QED BY <1>1, Z3 DEF Clock

LEMMA NoSince == \A n \in Clock : (n - n) % WRAP = 0
BY RoundTripAssumption, Z3 DEF Clock

LEMMA TickClock == \A n \in Clock : (n + 1) % WRAP \in Clock
BY RoundTripAssumption, Z3 DEF Clock

LEMMA SinceClock == \A n, t \in Clock : (n - t) % WRAP \in Clock
BY RoundTripAssumption, Z3 DEF Clock

\* Two times that differ by less than a wrap are told apart exactly.
LEMMA TickTime ==
  ASSUME NEW n \in Clock, NEW t \in Clock, NEW e \in Nat, NEW bound \in Nat,
         bound <= WRAP, e < bound => (n - t) % WRAP = e
  PROVE  UpTo(bound, e) < bound => (((n + 1) % WRAP) - t) % WRAP = UpTo(bound, e)
<1> SUFFICES ASSUME UpTo(bound, e) < bound
             PROVE  (((n + 1) % WRAP) - t) % WRAP = UpTo(bound, e)
  OBVIOUS
<1>1. e < bound /\ UpTo(bound, e) = e + 1
  BY DEF UpTo
<1>2. e + 1 < WRAP
  BY <1>1, RoundTripAssumption
<1> QED BY <1>1, <1>2, TickSince

---------------------------------------------------------------------------
(* Types *)

ControlType ==
  /\ pc \in {"setup", "halted", "stamp", "clear", "send", "start", "wait", "report"}
  /\ sleep \in (-MaxLag)..PERIOD
  /\ linked \in BOOLEAN
  /\ ack_received \in BOOLEAN
  /\ own \in BOOLEAN
  /\ late \in BOOLEAN

TimeType ==
  /\ now \in Clock /\ t_send \in Clock /\ start \in Clock
  /\ elapsed \in 0..PERIOD /\ waited \in 0..WRAP

\* Frames in flight are as old as this request, or older than PERIOD.
AirInv ==
  /\ requests \in Seq(Frames(elapsed)) /\ Len(requests) <= MaxAir
  /\ acks \in Seq(Frames(elapsed)) /\ Len(acks) <= MaxAir
  /\ handled \in Seq(Frames(elapsed)) /\ Len(handled) <= 1

\* t_send is set again only when PERIOD has passed: while loop() pauses, what
\* is left of the pause is not more than what is missing.
PauseInv ==
  /\ pc = "setup" => elapsed = PERIOD
  /\ pc = "stamp" => elapsed = PERIOD \/ elapsed + sleep >= PERIOD

\* The wrapped differences are the times that passed.
SinceInv ==
  /\ elapsed < PERIOD => Since(t_send) = elapsed
  /\ waited < WRAP => Since(start) = waited

\* How long loop() has waited, and for what it stopped.
WaitInv ==
  /\ pc = "wait" => waited + sleep <= TIMEOUT
  /\ pc = "report" /\ ~ack_received => waited >= TIMEOUT

\* What the callback has read and computed so far.
LocalsType ==
  /\ t_recv_ack \in Seq([ms : Clock, real : 0..PERIOD]) /\ Len(t_recv_ack) <= Len(handled)
  /\ round_trip \in Seq(Clock) /\ Len(round_trip) <= Len(t_recv_ack)

\* As long as t_send is still that of its frame, the callback holds the real
\* time: first as a difference, then as its result.
MeasureInv ==
  t_recv_ack # << >> /\ Head(handled).of = "this" /\ Head(t_recv_ack).real < PERIOD =>
    /\ (Head(t_recv_ack).ms - t_send) % WRAP = Head(t_recv_ack).real
    /\ round_trip # << >> => Head(round_trip) = Head(t_recv_ack).real

\* What set the flag.
FlagInv == ack_received <=> own \/ late

Inv == ControlType /\ TimeType /\ AirInv /\ PauseInv /\ SinceInv /\ WaitInv
       /\ LocalsType /\ MeasureInv /\ FlagInv

USE DEF sender, air, recv, history

\* Every step keeps control and flags in their types.
LEMMA ControlStep == ControlType /\ TimeType /\ [Next]_vars => ControlType'
<1> SUFFICES ASSUME ControlType, TimeType, [Next]_vars PROVE ControlType'
  OBVIOUS
<1> USE DEF ControlType, Runs
<1>0. MaxLag \in Nat /\ PERIOD \in Nat /\ PERIOD >= 1
  BY RoundTripAssumption
<1>1. CASE Setup
  <2>1. linked' \in BOOLEAN
    BY <1>1, Zenon DEF Setup
  <2>2. /\ pc' \in {"halted", "stamp"} /\ sleep' = 0
        /\ UNCHANGED <<ack_received, own, late>>
    BY <1>1 DEF Setup
  <2> QED BY <1>0, <2>1, <2>2
<1>2. CASE Stamp
  BY <1>0, <1>2 DEF Stamp
<1>3. CASE Clear
  <2>1. ack_received' \in BOOLEAN /\ own' \in BOOLEAN /\ late' \in BOOLEAN
    BY <1>3, Zenon DEF Clear
  <2> QED BY <1>0, <1>3, <2>1 DEF Clear
<1>4. CASE Send
  BY <1>0, <1>4 DEF Send
<1>5. CASE Start
  BY <1>0, <1>5 DEF Start
<1>6. CASE Wait
  BY <1>0, <1>6 DEF Wait
<1>7. CASE Report
  BY <1>0, <1>7 DEF Report
<1>8. CASE RecvSet
  <2>1. ack_received' \in BOOLEAN /\ own' \in BOOLEAN /\ late' \in BOOLEAN
    BY <1>8, Zenon DEF RecvSet
  <2> QED BY <1>8, <2>1 DEF RecvSet
<1>9. CASE RecvClock \/ RecvMeasure \/ RecvReturn \/ Answer \/ Lose
  BY <1>9 DEF RecvClock, RecvMeasure, Result, RecvReturn, Answer, Lose
<1>10. CASE Tick
  BY <1>0, <1>10 DEF Tick
<1>11. CASE UNCHANGED vars
  BY <1>11 DEF vars
<1> QED BY <1>1, <1>2, <1>3, <1>4, <1>5, <1>6, <1>7, <1>8, <1>9, <1>10, <1>11
        DEF Next, Sender, Receive

\* Every step keeps the times in their types.
LEMMA TimeStep == TimeType /\ [Next]_vars => TimeType'
<1> SUFFICES ASSUME TimeType, [Next]_vars PROVE TimeType'
  OBVIOUS
<1> USE DEF TimeType
<1>0. WRAP \in Nat /\ WRAP > 0 /\ PERIOD \in Nat
  BY RoundTripAssumption
<1>1. CASE Stamp
  BY <1>0, <1>1 DEF Stamp
<1>2. CASE Start
  BY <1>0, <1>2 DEF Start
<1>3. CASE Tick
  <2>1. now' \in Clock
    BY <1>3, TickClock DEF Tick
  <2>2. elapsed' \in 0..PERIOD /\ waited' \in 0..WRAP
    BY <1>0, <1>3 DEF Tick, UpTo
  <2> QED BY <1>3, <2>1, <2>2 DEF Tick
<1>4. CASE Setup \/ Clear \/ Send \/ Wait \/ Report
  BY <1>4 DEF Setup, Clear, Send, Wait, Report
<1>5. CASE RecvSet \/ RecvClock \/ RecvMeasure \/ RecvReturn \/ Answer \/ Lose
  BY <1>5 DEF RecvSet, RecvClock, RecvMeasure, Result, RecvReturn, Answer, Lose
<1>6. CASE UNCHANGED vars
  BY <1>6 DEF vars
<1> QED BY <1>1, <1>2, <1>3, <1>4, <1>5, <1>6 DEF Next, Sender, Receive

\* Every step keeps the ages of the frames; setting t_send does because PERIOD
\* has passed by then.
LEMMA AirStep ==
  ControlType /\ TimeType /\ AirInv /\ PauseInv /\ [Next]_vars => AirInv'
<1> SUFFICES ASSUME ControlType, TimeType, AirInv, PauseInv, [Next]_vars PROVE AirInv'
  OBVIOUS
<1>0. /\ elapsed \in 0..PERIOD /\ PERIOD \in Nat /\ MaxAir \in Nat /\ sleep \in Int
  BY RoundTripAssumption DEF TimeType, ControlType
<1>1. CASE Stamp
  <2>1. elapsed = PERIOD
    BY <1>0, <1>1 DEF Stamp, Runs, PauseInv
  <2>2. /\ requests \in Seq(Frames(PERIOD)) /\ acks \in Seq(Frames(PERIOD))
        /\ handled \in Seq(Frames(PERIOD))
    BY <2>1 DEF AirInv
  <2>3. /\ requests' = Older(requests) /\ acks' = Older(acks)
        /\ handled' = Older(handled) /\ elapsed' = 0
    BY <1>1 DEF Stamp
  <2> QED BY <2>2, <2>3, OlderFrames DEF AirInv
<1>2. CASE Send
  <2> DEFINE F == Frames(elapsed)
             f == [of |-> "this", age |-> elapsed]
  <2>1. UNCHANGED <<acks, handled, elapsed>>
    BY <1>2 DEF Send
  <2>2. requests' = requests \/ (Len(requests) < MaxAir /\ requests' = Append(requests, f))
    BY <1>2 DEF Send
  <2>3. requests \in Seq(F) /\ Len(requests) <= MaxAir
    BY DEF AirInv
  <2>4. f \in F
    BY DEF Frames
  <2> HIDE DEF f, F
  <2>5. requests' \in Seq(F) /\ Len(requests') <= MaxAir
    BY <1>0, <2>2, <2>3, <2>4
  <2> QED BY <2>1, <2>5 DEF AirInv, F
<1>3. CASE RecvSet
  <2>1. /\ acks # << >> /\ handled' = <<Head(acks)>> /\ acks' = Tail(acks)
        /\ UNCHANGED <<requests, elapsed>>
    BY <1>3 DEF RecvSet
  <2> QED BY <1>0, <2>1 DEF AirInv
<1>4. CASE RecvClock \/ RecvMeasure
  BY <1>4 DEF RecvClock, RecvMeasure, Result, AirInv
<1>9. CASE RecvReturn
  <2>1. handled' = << >> /\ UNCHANGED <<requests, acks, elapsed>>
    BY <1>9 DEF RecvReturn
  <2> QED BY <1>0, <2>1 DEF AirInv
<1>5. CASE Answer
  <2>1. /\ requests # << >> /\ requests' = Tail(requests)
        /\ UNCHANGED <<handled, elapsed>>
    BY <1>5 DEF Answer
  <2>2. acks' = acks \/ (Len(acks) < MaxAir /\ acks' = Append(acks, Head(requests)))
    BY <1>5 DEF Answer
  <2> DEFINE F == Frames(elapsed)
  <2>3. requests \in Seq(F) /\ acks \in Seq(F)
        /\ Len(requests) <= MaxAir /\ Len(acks) <= MaxAir
    BY DEF AirInv
  <2> HIDE DEF F
  <2>4. requests' \in Seq(F) /\ Len(requests') <= MaxAir
    BY <1>0, <2>1, <2>3
  <2>5. Head(requests) \in F
    BY <2>1, <2>3
  <2>6. acks' \in Seq(F) /\ Len(acks') <= MaxAir
    BY <1>0, <2>2, <2>3, <2>5
  <2> QED BY <2>1, <2>4, <2>6 DEF AirInv, F
<1>6. CASE Lose
  <2>1. UNCHANGED <<handled, elapsed>>
    BY <1>6 DEF Lose
  <2>2. CASE \E i \in DOMAIN requests : requests' = RemoveAt(requests, i) /\ UNCHANGED acks
    <3>1. PICK i \in DOMAIN requests : requests' = RemoveAt(requests, i) /\ UNCHANGED acks
      BY <2>2
    <3>2. requests \in Seq(Frames(elapsed)) /\ i \in 1..Len(requests)
      BY <3>1 DEF AirInv
    <3>3. requests' \in Seq(Frames(elapsed)) /\ Len(requests') = Len(requests) - 1
      BY <3>1, <3>2, RemoveFrames
    <3> QED BY <1>0, <2>1, <3>1, <3>2, <3>3 DEF AirInv
  <2>3. CASE \E i \in DOMAIN acks : acks' = RemoveAt(acks, i) /\ UNCHANGED requests
    <3>1. PICK i \in DOMAIN acks : acks' = RemoveAt(acks, i) /\ UNCHANGED requests
      BY <2>3
    <3>2. acks \in Seq(Frames(elapsed)) /\ i \in 1..Len(acks)
      BY <3>1 DEF AirInv
    <3>3. acks' \in Seq(Frames(elapsed)) /\ Len(acks') = Len(acks) - 1
      BY <3>1, <3>2, RemoveFrames
    <3> QED BY <1>0, <2>1, <3>1, <3>2, <3>3 DEF AirInv
  <2> QED BY <1>6, <2>2, <2>3 DEF Lose
<1>7. CASE Tick
  <2>1. /\ requests' = Aged(requests) /\ acks' = Aged(acks)
        /\ handled' = Aged(handled) /\ elapsed' = UpTo(PERIOD, elapsed)
    BY <1>7 DEF Tick
  <2> QED BY <1>0, <2>1, AgedFrames DEF AirInv
<1>8. CASE Setup \/ Clear \/ Start \/ Wait \/ Report \/ UNCHANGED vars
  BY <1>8 DEF Setup, Clear, Start, Wait, Report, vars, AirInv
<1> QED BY <1>1, <1>2, <1>3, <1>4, <1>5, <1>6, <1>7, <1>8, <1>9 DEF Next, Sender, Receive

\* Every step keeps the pause.
LEMMA PauseStep ==
  ControlType /\ TimeType /\ PauseInv /\ [Next]_vars => PauseInv'
<1> SUFFICES ASSUME ControlType, TimeType, PauseInv, [Next]_vars PROVE PauseInv'
  OBVIOUS
<1> USE DEF PauseInv, Runs
<1>0. elapsed \in 0..PERIOD /\ PERIOD \in Nat /\ sleep \in Int
  BY RoundTripAssumption DEF TimeType, ControlType
<1>1. CASE Setup
  BY <1>1 DEF Setup
<1>2. CASE Stamp \/ Clear \/ Send \/ Start \/ Wait
  BY <1>2 DEF Stamp, Clear, Send, Start, Wait
<1>3. CASE Report
  BY <1>0, <1>3 DEF Report
<1>4. CASE RecvSet \/ RecvClock \/ RecvMeasure \/ RecvReturn \/ Answer \/ Lose \/ UNCHANGED vars
  BY <1>4 DEF RecvSet, RecvClock, RecvMeasure, Result, RecvReturn, Answer, Lose, vars
<1>5. CASE Tick
  BY <1>0, <1>5 DEF Tick, UpTo
<1> QED BY <1>1, <1>2, <1>3, <1>4, <1>5 DEF Next, Sender, Receive

\* Every step keeps the wrapped differences.
LEMMA SinceStep == TimeType /\ SinceInv /\ [Next]_vars => SinceInv'
<1> SUFFICES ASSUME TimeType, SinceInv, [Next]_vars PROVE SinceInv'
  OBVIOUS
<1> USE DEF SinceInv, Since
<1>0. /\ now \in Clock /\ t_send \in Clock /\ start \in Clock
      /\ elapsed \in Nat /\ waited \in Nat /\ PERIOD \in Nat /\ WRAP \in Nat
      /\ PERIOD <= WRAP
  BY RoundTripAssumption DEF TimeType
<1>1. CASE Stamp
  <2>1. /\ now' = now /\ t_send' = now /\ elapsed' = 0
        /\ UNCHANGED <<start, waited>>
    BY <1>1 DEF Stamp
  <2> QED BY <1>0, <2>1, NoSince
<1>2. CASE Start
  <2>1. /\ now' = now /\ start' = now /\ waited' = 0
        /\ UNCHANGED <<t_send, elapsed>>
    BY <1>2 DEF Start
  <2> QED BY <1>0, <2>1, NoSince
<1>3. CASE Tick
  <2>1. /\ now' = (now + 1) % WRAP /\ UNCHANGED <<t_send, start>>
        /\ elapsed' = UpTo(PERIOD, elapsed) /\ waited' = UpTo(WRAP, waited)
    BY <1>3 DEF Tick
  <2>2. elapsed' < PERIOD => (now' - t_send) % WRAP = elapsed'
    BY <1>0, <2>1, TickTime
  <2>3. waited' < WRAP => (now' - start) % WRAP = waited'
    BY <1>0, <2>1, TickTime
  <2> QED BY <2>1, <2>2, <2>3
<1>4. CASE Setup \/ Clear \/ Send \/ Wait \/ Report \/ UNCHANGED vars
  BY <1>4 DEF Setup, Clear, Send, Wait, Report, vars
<1>5. CASE RecvSet \/ RecvClock \/ RecvMeasure \/ RecvReturn \/ Answer \/ Lose
  BY <1>5 DEF RecvSet, RecvClock, RecvMeasure, Result, RecvReturn, Answer, Lose
<1> QED BY <1>1, <1>2, <1>3, <1>4, <1>5 DEF Next, Sender, Receive

\* Every step keeps the bounds on the wait.
LEMMA WaitStep ==
  ControlType /\ TimeType /\ SinceInv /\ WaitInv /\ [Next]_vars => WaitInv'
<1> SUFFICES ASSUME ControlType, TimeType, SinceInv, WaitInv, [Next]_vars
             PROVE  WaitInv'
  OBVIOUS
<1> USE DEF WaitInv, Runs
<1>0. /\ waited \in 0..WRAP /\ sleep \in Int /\ -MaxLag <= sleep
      /\ WRAP \in Nat /\ TIMEOUT \in Nat /\ MaxLag \in Nat
      /\ TIMEOUT + MaxLag + 1 < WRAP
  BY RoundTripAssumption DEF TimeType, ControlType
<1>1. CASE Setup \/ Stamp \/ Clear \/ Send \/ Report
  BY <1>1 DEF Setup, Stamp, Clear, Send, Report
<1>2. CASE Start
  BY <1>0, <1>2 DEF Start
<1>3. CASE Wait
  <2>1. pc = "wait" /\ waited + sleep <= TIMEOUT /\ UNCHANGED <<waited, ack_received>>
    BY <1>3 DEF Wait
  <2>2. Since(start) = waited
    BY <1>0, <2>1 DEF SinceInv
  <2>3. CASE KeepsWaiting /\ Runs("wait", "wait", 1)
    BY <1>0, <2>1, <2>2, <2>3 DEF KeepsWaiting, TimeLeft
  <2>4. CASE ~KeepsWaiting /\ Runs("wait", "report", 0)
    BY <1>0, <2>1, <2>2, <2>4 DEF KeepsWaiting, TimeLeft
  <2> QED BY <1>3, <2>3, <2>4 DEF Wait
<1>4. CASE RecvSet
  BY <1>4 DEF RecvSet
<1>5. CASE RecvClock \/ RecvMeasure \/ RecvReturn \/ Answer \/ Lose \/ UNCHANGED vars
  BY <1>5 DEF RecvClock, RecvMeasure, Result, RecvReturn, Answer, Lose, vars
<1>6. CASE Tick
  BY <1>0, <1>6 DEF Tick, UpTo
<1> QED BY <1>1, <1>2, <1>3, <1>4, <1>5, <1>6 DEF Next, Sender, Receive

\* Every step keeps the locals of the callback in their types.
LEMMA LocalsStep == TimeType /\ AirInv /\ LocalsType /\ [Next]_vars => LocalsType'
<1> SUFFICES ASSUME TimeType, AirInv, LocalsType, [Next]_vars PROVE LocalsType'
  OBVIOUS
<1> USE DEF LocalsType
<1>0. /\ now \in Clock /\ t_send \in Clock /\ elapsed \in 0..PERIOD
      /\ handled \in Seq(Frames(elapsed)) /\ PERIOD \in Nat
  BY RoundTripAssumption DEF TimeType, AirInv
<1>1. CASE Stamp
  <2>1. handled' = Older(handled) /\ UNCHANGED <<t_recv_ack, round_trip>>
    BY <1>1 DEF Stamp
  <2>2. Len(handled') = Len(handled)
    BY <1>0, <2>1 DEF Older
  <2> QED BY <2>1, <2>2
<1>2. CASE RecvSet
  <2>1. /\ handled = << >> /\ handled' = <<Head(acks)>>
        /\ UNCHANGED <<t_recv_ack, round_trip>>
    BY <1>2 DEF RecvSet
  <2> QED BY <2>1
<1>3. CASE RecvClock
  <2> DEFINE S == [ms : Clock, real : 0..PERIOD]
             r == [ms |-> now, real |-> Head(handled).age]
  <2>1. /\ handled # << >> /\ t_recv_ack = << >> /\ t_recv_ack' = <<r>>
        /\ UNCHANGED <<handled, round_trip>>
    BY <1>3 DEF RecvClock
  <2>2. Head(handled) \in Frames(elapsed)
    BY <1>0, <2>1
  <2>3. Head(handled).age \in 0..PERIOD
    BY <1>0, <2>2 DEF Frames
  <2>4. r \in S
    BY <1>0, <2>3
  <2>5. round_trip \in Seq(Clock) /\ Len(round_trip) <= Len(t_recv_ack)
    OBVIOUS
  <2>6. Len(handled) >= 1
    BY <1>0, <2>1
  <2> HIDE DEF r, S
  <2>7. t_recv_ack' \in Seq(S) /\ Len(t_recv_ack') = 1
    BY <2>1, <2>4
  <2>8. Len(round_trip) = 0
    BY <2>1, <2>5
  <2> QED BY <2>1, <2>5, <2>6, <2>7, <2>8 DEF S
<1>4. CASE RecvMeasure
  <2> DEFINE x == (Head(t_recv_ack).ms - t_send) % WRAP
  <2>1. /\ t_recv_ack # << >> /\ round_trip' = <<x>>
        /\ UNCHANGED <<handled, t_recv_ack>>
    BY <1>4 DEF RecvMeasure, Result
  <2>2. Head(t_recv_ack).ms \in Clock
    <3> DEFINE S == [ms : Clock, real : 0..PERIOD]
    <3>1. t_recv_ack \in Seq(S)
      OBVIOUS
    <3> HIDE DEF S
    <3>2. Head(t_recv_ack) \in S
      BY <2>1, <3>1
    <3> USE DEF S
    <3> QED BY <3>2
  <2>3. x \in Clock
    BY <1>0, <2>2, SinceClock
  <2> HIDE DEF x
  <2> QED BY <2>1, <2>3
<1>5. CASE RecvReturn
  <2>1. handled' = << >> /\ t_recv_ack' = << >> /\ round_trip' = << >>
    BY <1>5 DEF RecvReturn
  <2> QED BY <2>1
<1>6. CASE Tick
  <2>1. handled' = Aged(handled) /\ UNCHANGED <<t_recv_ack, round_trip>>
    BY <1>6 DEF Tick
  <2>2. Len(handled') = Len(handled)
    BY <1>0, <2>1 DEF Aged
  <2> QED BY <2>1, <2>2
<1>7. CASE Setup \/ Clear \/ Send \/ Start \/ Wait \/ Report
  BY <1>7 DEF Setup, Clear, Send, Start, Wait, Report
<1>8. CASE Answer \/ Lose \/ UNCHANGED vars
  BY <1>8 DEF Answer, Lose, vars
<1> QED BY <1>1, <1>2, <1>3, <1>4, <1>5, <1>6, <1>7, <1>8 DEF Next, Sender, Receive

\* Every step keeps the measurement: setting t_send makes the frame one of an
\* earlier request.
LEMMA MeasureStep ==
  TimeType /\ AirInv /\ SinceInv /\ LocalsType /\ MeasureInv /\ [Next]_vars => MeasureInv'
<1> SUFFICES ASSUME TimeType, AirInv, SinceInv, LocalsType, MeasureInv, [Next]_vars
             PROVE  MeasureInv'
  OBVIOUS
<1>0. /\ elapsed \in 0..PERIOD /\ handled \in Seq(Frames(elapsed)) /\ Len(handled) <= 1
      /\ t_recv_ack \in Seq([ms : Clock, real : 0..PERIOD])
      /\ Len(t_recv_ack) <= Len(handled)
      /\ round_trip \in Seq(Clock) /\ Len(round_trip) <= Len(t_recv_ack)
  BY DEF TimeType, AirInv, LocalsType
<1>1. CASE Stamp
  <2>1. handled' = Older(handled) /\ t_recv_ack' = t_recv_ack
    BY <1>1 DEF Stamp
  <2> SUFFICES ASSUME t_recv_ack # << >> PROVE Head(handled').of = "earlier"
    BY <2>1 DEF MeasureInv
  <2>2. 1 \in DOMAIN handled
    BY <1>0
  <2>3. Older(handled)[1].of = "earlier"
    <3>1. Older(handled)[1] = [handled[1] EXCEPT !.of = "earlier"]
      BY <2>2 DEF Older
    <3>2. handled[1] \in Frames(elapsed)
      BY <1>0, <2>2
    <3>3. CASE handled[1] = [of |-> "this", age |-> elapsed]
      BY <3>1, <3>3
    <3>4. CASE handled[1] = [of |-> "earlier", age |-> PERIOD]
      BY <3>1, <3>4
    <3> QED BY <3>2, <3>3, <3>4 DEF Frames
  <2> QED BY <2>1, <2>3
<1>2. CASE RecvSet
  <2>1. handled = << >> /\ t_recv_ack' = t_recv_ack
    BY <1>2 DEF RecvSet
  <2>2. t_recv_ack' = << >>
    BY <1>0, <2>1
  <2> QED BY <2>2 DEF MeasureInv
<1>3. CASE RecvClock
  <2>1. /\ handled # << >> /\ t_recv_ack = << >> /\ UNCHANGED <<handled, round_trip, t_send>>
        /\ t_recv_ack' = <<[ms |-> now, real |-> Head(handled).age]>>
    BY <1>3 DEF RecvClock
  <2>2. round_trip' = << >>
    BY <1>0, <2>1
  <2>3. Head(t_recv_ack').ms = now /\ Head(t_recv_ack').real = Head(handled).age
    BY <2>1
  <2>4. Head(handled) \in Frames(elapsed)
    BY <1>0, <2>1
  <2>5. Head(handled).of = "this" => Head(handled).age = elapsed
    BY <2>4 DEF Frames
  <2>6. elapsed < PERIOD => (now - t_send) % WRAP = elapsed
    BY DEF SinceInv, Since
  <2> QED BY <2>1, <2>2, <2>3, <2>5, <2>6 DEF MeasureInv
<1>4. CASE RecvMeasure
  <2>1. /\ t_recv_ack # << >> /\ UNCHANGED <<handled, t_recv_ack, t_send>>
        /\ round_trip' = <<(Head(t_recv_ack).ms - t_send) % WRAP>>
    BY <1>4 DEF RecvMeasure, Result
  <2>2. Head(round_trip') = (Head(t_recv_ack).ms - t_send) % WRAP
    BY <2>1
  <2> QED BY <2>1, <2>2 DEF MeasureInv
<1>5. CASE RecvReturn
  BY <1>5 DEF RecvReturn, MeasureInv
<1>6. CASE Tick
  <2>1. handled' = Aged(handled) /\ UNCHANGED <<t_recv_ack, round_trip, t_send>>
    BY <1>6 DEF Tick
  <2>2. t_recv_ack # << >> => Head(handled').of = Head(handled).of
    <3> SUFFICES ASSUME t_recv_ack # << >> PROVE Aged(handled)[1].of = handled[1].of
      BY <1>0, <2>1
    <3>1. 1 \in DOMAIN handled
      BY <1>0
    <3>2. Aged(handled)[1] = [handled[1] EXCEPT !.age = UpTo(PERIOD, @)]
      BY <3>1 DEF Aged
    <3>3. handled[1] \in Frames(elapsed)
      BY <1>0, <3>1
    <3>4. CASE handled[1] = [of |-> "this", age |-> elapsed]
      BY <3>2, <3>4
    <3>5. CASE handled[1] = [of |-> "earlier", age |-> PERIOD]
      BY <3>2, <3>5
    <3> QED BY <3>3, <3>4, <3>5 DEF Frames
  <2> QED BY <2>1, <2>2 DEF MeasureInv
<1>7. CASE Setup \/ Clear \/ Send \/ Start \/ Wait \/ Report
  BY <1>7 DEF Setup, Clear, Send, Start, Wait, Report, MeasureInv
<1>8. CASE Answer \/ Lose \/ UNCHANGED vars
  BY <1>8 DEF Answer, Lose, vars, MeasureInv
<1> QED BY <1>1, <1>2, <1>3, <1>4, <1>5, <1>6, <1>7, <1>8 DEF Next, Sender, Receive

\* The flag is set by an acknowledgement of this request or an old one.
LEMMA FlagStep == AirInv /\ FlagInv /\ [Next]_vars => FlagInv'
<1> SUFFICES ASSUME AirInv, FlagInv, [Next]_vars PROVE FlagInv'
  OBVIOUS
<1>1. CASE Clear
  BY <1>1, Zenon DEF Clear, FlagInv
<1>2. CASE RecvSet
  <2>1. Head(acks) \in Frames(elapsed)
    BY <1>2 DEF RecvSet, AirInv
  <2>2. Head(acks).of = "this" \/ Head(acks).age = PERIOD
    BY <2>1 DEF Frames
  <2>3. /\ ack_received' = TRUE
        /\ own' = (own \/ Head(acks).of = "this")
        /\ late' = (late \/ Head(acks).age = PERIOD)
    BY <1>2, Zenon DEF RecvSet
  <2> QED BY <2>2, <2>3, Zenon DEF FlagInv
<1>3. CASE Setup \/ Stamp \/ Send \/ Start \/ Wait \/ Report
  BY <1>3 DEF Setup, Stamp, Send, Start, Wait, Report, FlagInv
<1>4. CASE RecvClock \/ RecvMeasure \/ RecvReturn \/ Answer \/ Lose \/ Tick \/ UNCHANGED vars
  BY <1>4 DEF RecvClock, RecvMeasure, Result, RecvReturn, Answer, Lose, Tick, vars, FlagInv
<1> QED BY <1>1, <1>2, <1>3, <1>4 DEF Next, Sender, Receive

---------------------------------------------------------------------------
(* Theorems *)

LEMMA InvInit == Init => Inv
<1> SUFFICES ASSUME Init PROVE Inv
  OBVIOUS
<1> USE DEF Init
<1>0. WRAP \in Nat /\ WRAP > 0 /\ PERIOD \in Nat /\ PERIOD > 0 /\ MaxLag \in Nat
      /\ MaxAir \in Nat /\ TIMEOUT \in Nat /\ 0 \in Clock
  BY RoundTripAssumption DEF Clock
<1>1. ControlType
  <2>1. linked \in BOOLEAN /\ ack_received \in BOOLEAN /\ own \in BOOLEAN /\ late \in BOOLEAN
    BY Zenon
  <2> QED BY <1>0, <2>1 DEF ControlType
<1>2. TimeType
  BY <1>0 DEF TimeType
<1>3. AirInv
  BY <1>0 DEF AirInv
<1>4. PauseInv /\ WaitInv
  BY <1>0 DEF PauseInv, WaitInv
<1>5. SinceInv
  BY <1>0, NoSince DEF SinceInv, Since
<1>6. LocalsType /\ MeasureInv
  BY <1>0 DEF LocalsType, MeasureInv
<1>7. FlagInv
  BY Zenon DEF FlagInv
<1> QED BY <1>1, <1>2, <1>3, <1>4, <1>5, <1>6, <1>7 DEF Inv

LEMMA InvStep == Inv /\ [Next]_vars => Inv'
BY ControlStep, TimeStep, AirStep, PauseStep, SinceStep, WaitStep,
   LocalsStep, MeasureStep, FlagStep DEF Inv

\* The program stays well typed, and so do the frames in flight.
THEOREM TypeCorrect == Spec => []TypeOK
<1>1. Inv => TypeOK
  <2> SUFFICES ASSUME Inv PROVE TypeOK
    OBVIOUS
  <2> DEFINE F == Frames(elapsed)
  <2>1. F \subseteq Frame
    BY RoundTripAssumption DEF Inv, TimeType, Frames, Frame
  <2>2. requests \in Seq(F) /\ acks \in Seq(F) /\ handled \in Seq(F)
    BY DEF Inv, AirInv
  <2> HIDE DEF F
  <2>3. requests \in Seq(Frame) /\ acks \in Seq(Frame) /\ handled \in Seq(Frame)
    BY <2>1, <2>2
  <2> QED BY <2>3 DEF Inv, ControlType, TimeType, AirInv, LocalsType, TypeOK
<1> QED BY <1>1, InvInit, InvStep, PTL DEF Spec

\* A round trip shorter than PERIOD is printed exactly, unless its callback is
\* still busy when loop() sets t_send again; then it is at least PERIOD old.
THEOREM TripsAreExact == Spec => []TripsExact
<1>1. Inv => TripsExact
  <2> SUFFICES ASSUME Inv, round_trip # << >>
               PROVE  /\ Head(handled).of = "this" /\ Head(t_recv_ack).real < PERIOD =>
                           Head(round_trip) = Head(t_recv_ack).real
                      /\ Head(handled).of = "earlier" => Head(handled).age = PERIOD
    BY DEF TripsExact
  <2>1. t_recv_ack # << >> /\ handled # << >>
    BY DEF Inv, LocalsType, AirInv
  <2>2. Head(handled) \in Frames(elapsed)
    BY <2>1 DEF Inv, AirInv
  <2>3. Head(handled).of = "earlier" => Head(handled).age = PERIOD
    BY <2>2 DEF Frames
  <2> QED BY <2>1, <2>3 DEF Inv, MeasureInv
<1> QED BY <1>1, InvInit, InvStep, PTL DEF Spec

\* What loop() takes for an acknowledgement is one of this request, or one at
\* least PERIOD old, and no acknowledgement of this request is overlooked.
THEOREM FlagIsExact == Spec => []FlagExact
<1>1. Inv => FlagExact
  BY DEF Inv, FlagInv, FlagExact
<1> QED BY <1>1, InvInit, InvStep, PTL DEF Spec

\* The wait measures TIMEOUT wherever millis() wraps.
THEOREM WaitIsExact == Spec => []WaitExact
<1>1. Inv => WaitExact
  <2> SUFFICES ASSUME Inv PROVE WaitExact
    OBVIOUS
  <2>1. waited \in Int /\ sleep \in Int /\ -MaxLag <= sleep /\ MaxLag \in Nat /\ TIMEOUT \in Nat
    BY RoundTripAssumption DEF Inv, TimeType, ControlType
  <2> QED BY <2>1 DEF Inv, WaitInv, WaitExact
<1> QED BY <1>1, InvInit, InvStep, PTL DEF Spec
============================================================================
