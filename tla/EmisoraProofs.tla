--------------------------- MODULE EmisoraProofs ---------------------------
(***************************************************************************)
(* Proofs about Emisora, for every clock width, pause, debounce time and   *)
(* spacing of the rounds of loop().                                        *)
(***************************************************************************)
EXTENDS Emisora, ChordMessageProofs, TLAPS

---------------------------------------------------------------------------
(* Clock arithmetic *)

\* The clock dt later.
LEMMA ModAdd ==
  ASSUME NEW W \in Nat, NEW a \in 0..(W - 1), NEW d \in 0..(W - 1)
  PROVE  /\ a + d < W => (a + d) % W = a + d
         /\ a + d >= W => (a + d) % W = a + d - W
BY Z3

\* The difference of two readings.
LEMMA ModSub ==
  ASSUME NEW W \in Nat, NEW a \in 0..(W - 1), NEW b \in 0..(W - 1)
  PROVE  /\ b <= a => (a - b) % W = a - b
         /\ b > a => (a - b) % W = a - b + W
BY Z3

\* Real time counted up to a cap.
LEMMA LaterFacts ==
  ASSUME NEW t \in Nat, NEW dt \in Nat, NEW cap \in Nat
  PROVE  /\ Later(t, dt, cap) \in 0..cap
         /\ t + dt <= cap => Later(t, dt, cap) = t + dt
         /\ t + dt > cap => Later(t, dt, cap) = cap
BY DEF Later

\* A difference grows with the clock as long as it does not come round.
LEMMA SinceAdd ==
  ASSUME NEW a \in Clock, NEW b \in Clock, NEW dt \in Nat, dt < WRAP,
         NEW d \in Nat, Since(a, b) = d, d + dt < WRAP
  PROVE  /\ Millis(a + dt) \in Clock
         /\ Since(Millis(a + dt), b) = d + dt
<1> DEFINE t == (a + dt) % WRAP
<1>1. /\ a + dt < WRAP => t = a + dt
      /\ a + dt >= WRAP => t = a + dt - WRAP
  <2>1. dt \in 0..(WRAP - 1) /\ a \in 0..(WRAP - 1) /\ WRAP \in Nat
    BY EmisoraAssumption DEF Clock
  <2> QED BY <2>1, ModAdd
<1>2. t \in Clock
  BY <1>1, EmisoraAssumption DEF Clock
<1> HIDE DEF t
<1>3. /\ b <= a => d = a - b
      /\ b > a => d = a - b + WRAP
  BY EmisoraAssumption, ModSub DEF Clock, Since
<1>4. /\ b <= t => (t - b) % WRAP = t - b
      /\ b > t => (t - b) % WRAP = t - b + WRAP
  BY <1>2, EmisoraAssumption, ModSub DEF Clock
<1>5. (t - b) % WRAP = d + dt
  BY <1>1, <1>2, <1>3, <1>4, EmisoraAssumption DEF Clock
<1> QED BY <1>2, <1>5 DEF t, Millis, Since

\* The clock stays within its width and has really advanced.
LEMMA MillisFacts ==
  ASSUME NEW a \in Clock, NEW dt \in MinStep..MaxStep
  PROVE  /\ Millis(a + dt) \in Clock
         /\ Since(Millis(a + dt), a) = dt
         /\ Since(Millis(a + dt), Millis(a + dt)) = 0
<1>1. dt \in Nat /\ dt < WRAP
  BY EmisoraAssumption
<1>2. Since(a, a) = 0
  BY ModSub, EmisoraAssumption DEF Since, Clock
<1>3. Millis(a + dt) \in Clock /\ Since(Millis(a + dt), a) = 0 + dt
  BY <1>1, <1>2, SinceAdd, EmisoraAssumption
<1>4. \A x \in Clock : Since(x, x) = 0
  BY ModSub, EmisoraAssumption DEF Since, Clock
<1> QED BY <1>1, <1>3, <1>4

---------------------------------------------------------------------------
(* The inductive invariant *)

\* The numbers the time arguments are about.
ClockType ==
  /\ now \in Clock /\ ultimoRasgueoMs \in Clock /\ lastChangeStrum \in Clock
  /\ elapsed \in 0..WRAP
  /\ held \in 0..DEBOUNCE_MS
  /\ sincePacket \in 0..(TIEMPO_ESPERA + 1)
  /\ gap \in 0..(TIEMPO_ESPERA + 1)

\* Until loop() runs nothing has been measured.
SetupInv ==
  phase # "loop" =>
    /\ now = 0 /\ ultimoRasgueoMs = 0 /\ lastChangeStrum = 0
    /\ elapsed = 0 /\ held = 0
    /\ lastStableStrum = lastReadStrum
    /\ sincePacket = TIEMPO_ESPERA + 1

\* The wrapped difference is the real time since the last strum, unless a
\* whole wrap has passed.
PausaInv == elapsed < WRAP => Since(now, ultimoRasgueoMs) = elapsed

\* Every packet restarts the pause, so the last packet is at least as old as
\* the last strum; and the last two packets are apart.
GapInv ==
  /\ sincePacket >= elapsed \/ sincePacket > TIEMPO_ESPERA
  /\ gap > TIEMPO_ESPERA

\* The wrapped difference is the time the reading of STRUM has been the same,
\* until DEBOUNCE_MS; from then on the stable state is that reading.
DebounceInv ==
  /\ held < DEBOUNCE_MS => Since(now, lastChangeStrum) = held
  /\ held = DEBOUNCE_MS => lastStableStrum = lastReadStrum

TimeInv == ClockType /\ SetupInv /\ PausaInv /\ GapInv /\ DebounceInv

\* The sender starts with the invariant.
LEMMA TimeInit == Init => TimeInv
<1> SUFFICES ASSUME Init PROVE TimeInv
  OBVIOUS
<1>1. Since(0, 0) = 0
  BY ModSub, EmisoraAssumption DEF Since
<1> QED BY <1>1, EmisoraAssumption
        DEF Init, TimeInv, ClockType, SetupInv, PausaInv, GapInv, DebounceInv, Clock

\* A round of loop() detects a strum exactly when the real time since the
\* last one, counted up to a whole wrap, is over the pause.
LEMMA PausaExact ==
  ASSUME TimeInv, NEW dt \in MinStep..MaxStep,
         elapsed + dt < WRAP
  PROVE  /\ Since(Millis(now + dt), ultimoRasgueoMs) = elapsed + dt
         /\ PausaCumplida(Millis(now + dt)) <=> elapsed + dt > TIEMPO_ESPERA
<1>1. /\ now \in Clock /\ ultimoRasgueoMs \in Clock /\ dt \in Nat /\ dt < WRAP
      /\ elapsed \in Nat /\ elapsed < WRAP
  BY EmisoraAssumption DEF TimeInv, ClockType
<1>2. Since(now, ultimoRasgueoMs) = elapsed
  BY <1>1 DEF TimeInv, PausaInv
<1>3. Since(Millis(now + dt), ultimoRasgueoMs) = elapsed + dt
  BY <1>1, <1>2, SinceAdd
<1> QED BY <1>3 DEF PausaCumplida

\* The pause after a round.
LEMMA DetectarStep ==
  ASSUME TimeInv, NEW dt \in MinStep..MaxStep, NEW magnitud,
         now' = Millis(now + dt), Detectar(now', dt, magnitud)
  PROVE  /\ now' \in Clock /\ ultimoRasgueoMs' \in Clock
         /\ elapsed' \in 0..WRAP
         /\ PausaInv'
         /\ rasgueoDetectado(now', magnitud) => elapsed' = 0
         /\ ~rasgueoDetectado(now', magnitud) => elapsed' = Later(elapsed, dt, WRAP)
<1>1. /\ now \in Clock /\ ultimoRasgueoMs \in Clock /\ dt \in Nat
      /\ elapsed \in 0..WRAP /\ WRAP \in Nat
  BY EmisoraAssumption DEF TimeInv, ClockType
<1>2. now' \in Clock /\ Since(now', now') = 0
  BY <1>1, MillisFacts
<1>3. CASE rasgueoDetectado(now', magnitud)
  <2>1. ultimoRasgueoMs' = now' /\ elapsed' = 0
    BY <1>3 DEF Detectar
  <2>2. PausaInv'
    BY <1>2, <2>1 DEF PausaInv, Since
  <2> QED BY <1>1, <1>2, <1>3, <2>1, <2>2
<1>4. CASE ~rasgueoDetectado(now', magnitud)
  <2>1. ultimoRasgueoMs' = ultimoRasgueoMs /\ elapsed' = Later(elapsed, dt, WRAP)
    BY <1>4 DEF Detectar
  <2>2. /\ elapsed' \in 0..WRAP
        /\ elapsed' < WRAP => elapsed + dt < WRAP /\ elapsed' = elapsed + dt
    <3>1. elapsed \in Nat
      BY <1>1
    <3>2. /\ Later(elapsed, dt, WRAP) \in 0..WRAP
          /\ elapsed + dt <= WRAP => Later(elapsed, dt, WRAP) = elapsed + dt
          /\ elapsed + dt > WRAP => Later(elapsed, dt, WRAP) = WRAP
      BY <1>1, <3>1, LaterFacts
    <3> QED BY <1>1, <2>1, <3>2
  <2>3. elapsed' < WRAP => Since(now', ultimoRasgueoMs') = elapsed'
    BY <2>1, <2>2, PausaExact
  <2> QED BY <1>1, <1>2, <1>4, <2>1, <2>2, <2>3 DEF PausaInv, Since
<1> QED BY <1>3, <1>4

\* The packets after a round.
LEMMA EnviarStep ==
  ASSUME TimeInv, NEW dt \in MinStep..MaxStep, NEW magnitud, NEW mask,
         now' = Millis(now + dt), Detectar(now', dt, magnitud),
         Enviar(now', dt, magnitud, mask)
  PROVE  /\ sincePacket' \in 0..(TIEMPO_ESPERA + 1)
         /\ gap' \in 0..(TIEMPO_ESPERA + 1)
         /\ GapInv'
<1>1. /\ dt \in Nat /\ elapsed \in 0..WRAP /\ WRAP \in Nat /\ TIEMPO_ESPERA \in Nat
      /\ TIEMPO_ESPERA < WRAP
      /\ sincePacket \in 0..(TIEMPO_ESPERA + 1) /\ gap \in 0..(TIEMPO_ESPERA + 1)
      /\ sincePacket >= elapsed \/ sincePacket > TIEMPO_ESPERA
      /\ gap > TIEMPO_ESPERA
  BY EmisoraAssumption DEF TimeInv, ClockType, GapInv
<1> DEFINE later == Later(sincePacket, dt, TIEMPO_ESPERA + 1)
<1>2. /\ later \in 0..(TIEMPO_ESPERA + 1)
      /\ sincePacket + dt > TIEMPO_ESPERA => later > TIEMPO_ESPERA
      /\ sincePacket + dt <= TIEMPO_ESPERA => later = sincePacket + dt
  <2>1. sincePacket \in Nat /\ TIEMPO_ESPERA + 1 \in Nat
    BY <1>1
  <2>2. /\ later \in 0..(TIEMPO_ESPERA + 1)
        /\ sincePacket + dt <= TIEMPO_ESPERA + 1 => later = sincePacket + dt
        /\ sincePacket + dt > TIEMPO_ESPERA + 1 => later = TIEMPO_ESPERA + 1
    BY <1>1, <2>1, LaterFacts
  <2> HIDE DEF later
  <2> QED BY <1>1, <2>2
<1>3. /\ elapsed' \in 0..WRAP
      /\ rasgueoDetectado(now', magnitud) => elapsed' = 0
      /\ ~rasgueoDetectado(now', magnitud) => elapsed' = Later(elapsed, dt, WRAP)
  BY DetectarStep
<1>4. later >= elapsed' \/ later > TIEMPO_ESPERA
  <2>1. elapsed' = 0 \/ elapsed' <= elapsed + dt
    <3>1. elapsed \in Nat
      BY <1>1
    <3>2. /\ elapsed + dt <= WRAP => Later(elapsed, dt, WRAP) = elapsed + dt
          /\ elapsed + dt > WRAP => Later(elapsed, dt, WRAP) = WRAP
      BY <1>1, <3>1, LaterFacts
    <3> HIDE DEF later
    <3> QED BY <1>1, <1>3, <3>2
  <2> HIDE DEF later
  <2> QED BY <1>1, <1>2, <1>3, <2>1
<1>5. CASE ~lastStableStrum' /\ mask # {} /\ rasgueoDetectado(now', magnitud)
  <2>1. gap' = later /\ sincePacket' = 0
    BY <1>5 DEF Enviar
  <2>2. PausaCumplida(now')
    BY <1>5 DEF rasgueoDetectado
  <2>3. sincePacket + dt > TIEMPO_ESPERA
    <3>1. CASE elapsed + dt < WRAP
      <4>1. elapsed + dt > TIEMPO_ESPERA
        BY <3>1, <2>2, PausaExact
      <4> QED BY <1>1, <4>1
    <3>2. CASE elapsed + dt >= WRAP
      BY <1>1, <3>2
    <3> QED BY <1>1, <3>1, <3>2
  <2>4. elapsed' = 0
    BY <1>3, <1>5
  <2> HIDE DEF later
  <2> QED BY <1>1, <1>2, <2>1, <2>3, <2>4 DEF GapInv
<1>6. CASE ~(~lastStableStrum' /\ mask # {} /\ rasgueoDetectado(now', magnitud))
  <2>1. gap' = gap /\ sincePacket' = later
    BY <1>6 DEF Enviar
  <2> HIDE DEF later
  <2> QED BY <1>1, <1>2, <1>4, <2>1 DEF GapInv
<1> QED BY <1>5, <1>6

\* The debounce after a round: the stable state of STRUM changes only after
\* DEBOUNCE_MS of equal readings, and then at once.
LEMMA DebounceStep ==
  ASSUME TimeInv, NEW dt \in MinStep..MaxStep, NEW rawStrum \in BOOLEAN,
         now' = Millis(now + dt), DebounceStrum(now', dt, rawStrum)
  PROVE  /\ lastChangeStrum' \in Clock
         /\ held' \in 0..DEBOUNCE_MS
         /\ DebounceInv'
         /\ lastStableStrum' # lastStableStrum => held' >= DEBOUNCE_MS
         /\ lastStableStrum' # lastReadStrum' => held' < DEBOUNCE_MS
<1>1. /\ now \in Clock /\ lastChangeStrum \in Clock
      /\ dt \in Nat /\ dt <= MaxStep /\ MaxStep \in Nat
      /\ held \in Nat /\ held <= DEBOUNCE_MS /\ DEBOUNCE_MS \in Nat
      /\ WRAP \in Nat /\ DEBOUNCE_MS + MaxStep < WRAP
  BY EmisoraAssumption DEF TimeInv, ClockType
<1>2. now' \in Clock /\ Since(now', now') = 0
  BY <1>1, MillisFacts
<1>3. lastReadStrum' = rawStrum
  BY DEF DebounceStrum
<1>4. CASE rawStrum # lastReadStrum
  <2>1. /\ lastChangeStrum' = now' /\ held' = 0
        /\ lastStableStrum' = IF Since(now', now') >= DEBOUNCE_MS
                              THEN rawStrum ELSE lastStableStrum
    BY <1>4 DEF DebounceStrum
  <2>2. /\ DEBOUNCE_MS = 0 => lastStableStrum' = rawStrum
        /\ DEBOUNCE_MS > 0 => lastStableStrum' = lastStableStrum
    BY <1>1, <1>2, <2>1
  <2>3. Since(now, lastChangeStrum)' = 0
    BY <1>2, <2>1 DEF Since
  <2> QED BY <1>1, <1>2, <1>3, <2>1, <2>2, <2>3 DEF DebounceInv
<1>5. CASE rawStrum = lastReadStrum
  <2>1. /\ lastChangeStrum' = lastChangeStrum
        /\ held' = Later(held, dt, DEBOUNCE_MS)
        /\ lastStableStrum' = IF Since(now', lastChangeStrum) >= DEBOUNCE_MS
                              THEN rawStrum ELSE lastStableStrum
    BY <1>5 DEF DebounceStrum
  <2>2. /\ held' \in 0..DEBOUNCE_MS
        /\ held + dt <= DEBOUNCE_MS => held' = held + dt
        /\ held + dt > DEBOUNCE_MS => held' = DEBOUNCE_MS
    BY <1>1, <2>1, LaterFacts
  <2>3. CASE held < DEBOUNCE_MS
    <3>1. Since(now, lastChangeStrum) = held
      BY <2>3 DEF TimeInv, DebounceInv
    <3>2. Since(now', lastChangeStrum) = held + dt
      BY <1>1, <3>1, SinceAdd
    <3>3. /\ held + dt >= DEBOUNCE_MS => lastStableStrum' = rawStrum
          /\ held + dt < DEBOUNCE_MS => lastStableStrum' = lastStableStrum
      BY <1>1, <2>1, <3>2
    <3>4. Since(now, lastChangeStrum)' = held + dt
      BY <2>1, <3>2 DEF Since
    <3> QED BY <1>1, <1>3, <2>1, <2>2, <3>3, <3>4 DEF DebounceInv
  <2>4. CASE held = DEBOUNCE_MS
    <3>1. lastStableStrum = lastReadStrum
      BY <2>4 DEF TimeInv, DebounceInv
    <3>2. lastStableStrum' = rawStrum /\ lastStableStrum' = lastStableStrum
      BY <1>5, <2>1, <3>1
    <3>3. held' = DEBOUNCE_MS
      BY <1>1, <2>2, <2>4, EmisoraAssumption
    <3> QED BY <1>1, <1>3, <2>1, <2>2, <3>2, <3>3 DEF DebounceInv
  <2> QED BY <1>1, <2>3, <2>4
<1> QED BY <1>4, <1>5

\* Every step keeps the invariant.
LEMMA TimeStep == TimeInv /\ [Next]_vars => TimeInv'
<1> SUFFICES ASSUME TimeInv, [Next]_vars PROVE TimeInv'
  OBVIOUS
<1> USE DEF TimeInv
<1>1. CASE Loop
  <2>1. PICK dt \in MinStep..MaxStep, magnitud \in Magnitud,
             rawStrum \in BOOLEAN, mask \in Masks :
          /\ now' = Millis(now + dt)
          /\ Detectar(now', dt, magnitud)
          /\ DebounceStrum(now', dt, rawStrum)
          /\ Enviar(now', dt, magnitud, mask)
    BY <1>1 DEF Loop
  <2>2. /\ now' \in Clock /\ ultimoRasgueoMs' \in Clock
        /\ elapsed' \in 0..WRAP /\ PausaInv'
    BY <2>1, DetectarStep
  <2>3. /\ sincePacket' \in 0..(TIEMPO_ESPERA + 1)
        /\ gap' \in 0..(TIEMPO_ESPERA + 1) /\ GapInv'
    BY <2>1, EnviarStep
  <2>4. lastChangeStrum' \in Clock /\ held' \in 0..DEBOUNCE_MS /\ DebounceInv'
    BY <2>1, DebounceStep
  <2>5. phase' = "loop"
    BY <1>1 DEF Loop, setupVars
  <2>6. ClockType' /\ SetupInv'
    BY <2>2, <2>3, <2>4, <2>5 DEF ClockType, SetupInv, Clock
  <2> QED BY <2>2, <2>3, <2>4, <2>6
<1>2. CASE SetupMpu \/ SetupEspNow
  <2>1. /\ UNCHANGED <<now, imuVars, strumVars, sendVars>>
        /\ phase # "loop" /\ phase' # "loop"
    BY <1>2 DEF SetupMpu, SetupEspNow
  <2> QED BY <2>1 DEF imuVars, strumVars, sendVars, ClockType, SetupInv,
                      PausaInv, GapInv, DebounceInv, Clock, Since
<1>3. CASE SetupPeer
  <2>1. /\ UNCHANGED <<ultimoRasgueoMs, lastStableStrum, lastReadStrum,
                       lastChangeStrum, sendVars>>
        /\ phase # "loop"
    BY <1>3 DEF SetupPeer
  <2>2. /\ ultimoRasgueoMs' = 0 /\ lastChangeStrum' = 0 /\ elapsed = 0 /\ held = 0
        /\ now = 0
        /\ lastStableStrum' = lastReadStrum'
        /\ UNCHANGED <<sincePacket, gap>>
    BY <2>1 DEF SetupInv, sendVars
  <2>3. CASE phase' = "no_peer" /\ UNCHANGED <<now, elapsed, held>>
    BY <2>1, <2>2, <2>3 DEF ClockType, SetupInv, PausaInv, GapInv, DebounceInv, Clock, Since
  <2>4. CASE /\ phase' = "loop" /\ now' = BootTime /\ elapsed' = BootTime
             /\ held' = Later(held, BootTime, DEBOUNCE_MS)
    <3>1. /\ BootTime \in Nat /\ BootTime < WRAP /\ WRAP \in Nat
          /\ DEBOUNCE_MS \in Nat
      BY EmisoraAssumption
    <3>2. (BootTime - 0) % WRAP = BootTime
      BY <3>1, ModSub
    <3>3. Since(now, ultimoRasgueoMs)' = BootTime /\ Since(now, lastChangeStrum)' = BootTime
      BY <2>2, <2>4, <3>2 DEF Since
    <3>4. /\ held' \in 0..DEBOUNCE_MS
          /\ held' < DEBOUNCE_MS => held' = BootTime
      <4>1. /\ Later(0, BootTime, DEBOUNCE_MS) \in 0..DEBOUNCE_MS
            /\ 0 + BootTime <= DEBOUNCE_MS => Later(0, BootTime, DEBOUNCE_MS) = 0 + BootTime
            /\ 0 + BootTime > DEBOUNCE_MS => Later(0, BootTime, DEBOUNCE_MS) = DEBOUNCE_MS
        BY <3>1, LaterFacts
      <4> QED BY <2>2, <2>4, <3>1, <4>1
    <3>5. ClockType'
      BY <2>2, <2>4, <3>1, <3>4 DEF ClockType, Clock
    <3>6. SetupInv' /\ PausaInv' /\ DebounceInv'
      BY <2>2, <2>4, <3>1, <3>3, <3>4 DEF SetupInv, PausaInv, DebounceInv
    <3>7. GapInv'
      BY <2>1, <2>2, EmisoraAssumption DEF GapInv, SetupInv
    <3> QED BY <3>5, <3>6, <3>7
  <2> QED BY <1>3, <2>3, <2>4 DEF SetupPeer
<1>4. CASE UNCHANGED vars
  BY <1>4 DEF vars, setupVars, imuVars, strumVars, sendVars, ClockType, SetupInv,
              PausaInv, GapInv, DebounceInv, Clock, Since
<1> QED BY <1>1, <1>2, <1>3, <1>4 DEF Next, Setup

---------------------------------------------------------------------------
(* Theorems *)

\* Whatever the readings and the width of the clock, two rounds of loop() that
\* send a packet begin more than TIEMPO_ESPERA apart in real time, also when
\* millis() wraps once or many times between them.
THEOREM PacketsSpaced == Spec => []SendsSpaced
<1>1. TimeInv => SendsSpaced
  BY DEF TimeInv, GapInv, SendsSpaced
<1> QED BY <1>1, TimeInit, TimeStep, PTL DEF Spec

\* The debounce of STRUM in loop() measures real time, for every debounce
\* time and every spacing of the rounds: a state stable for longer than a
\* wrap of millis() does no harm.
THEOREM DebounceIsExact == Spec => DebounceExact
<1> DEFINE A == /\ lastStableStrum' # lastStableStrum => held' >= DEBOUNCE_MS
                /\ lastStableStrum' # lastReadStrum' => held' < DEBOUNCE_MS
<1>1. ASSUME TimeInv, [Next]_vars PROVE [A]_vars
  <2>1. CASE Loop
    <3>1. PICK dt \in MinStep..MaxStep, rawStrum \in BOOLEAN :
            now' = Millis(now + dt) /\ DebounceStrum(now', dt, rawStrum)
      BY <2>1 DEF Loop
    <3> QED BY <1>1, <3>1, DebounceStep
  <2>2. CASE Setup
    <3>1. UNCHANGED <<lastStableStrum, lastReadStrum>> /\ phase # "loop"
      BY <2>2 DEF Setup, SetupMpu, SetupEspNow, SetupPeer, strumVars
    <3>2. lastStableStrum = lastReadStrum
      BY <1>1, <3>1 DEF TimeInv, SetupInv
    <3> QED BY <3>1, <3>2
  <2> QED BY <1>1, <2>1, <2>2 DEF Next
<1>2. TimeInv /\ [Next]_vars => [A]_vars
  BY <1>1
<1> QED BY <1>2, TimeInit, TimeStep, PTL DEF Spec, DebounceExact

\* The pause test of loop() is exact in real time: a strum is detected if and
\* only if it comes more than TIEMPO_ESPERA after the last one detected,
\* wherever millis() wraps in between.
THEOREM StrumsHeard == Spec => StrumHeard
<1> DEFINE A == LET dt == Since(now', now)
                    real == Later(elapsed, dt, WRAP)
                IN  phase = "loop" /\ input'.magnitud # "baja" /\ now' # now /\ real < WRAP
                      => (elapsed' = 0 <=> real > TIEMPO_ESPERA)
<1>1. ASSUME TimeInv, [Next]_vars PROVE [A]_vars
  <2>1. CASE Loop
    <3>1. PICK dt \in MinStep..MaxStep, magnitud \in Magnitud :
            /\ now' = Millis(now + dt)
            /\ Detectar(now', dt, magnitud)
            /\ input'.magnitud = magnitud
      BY <2>1 DEF Loop
    <3>2. now \in Clock /\ dt \in Nat /\ dt > 0 /\ elapsed \in Nat /\ WRAP \in Nat
      BY <1>1, EmisoraAssumption DEF TimeInv, ClockType
    <3>3. Since(now', now) = dt
      BY <3>1, <3>2, MillisFacts
    <3> DEFINE real == Later(elapsed, dt, WRAP)
    <3>4. /\ elapsed + dt <= WRAP => real = elapsed + dt
          /\ elapsed + dt > WRAP => real = WRAP
      BY <3>2, LaterFacts
    <3>5. SUFFICES ASSUME magnitud # "baja", real < WRAP
                   PROVE  elapsed' = 0 <=> real > TIEMPO_ESPERA
      BY <3>1, <3>3
    <3> HIDE DEF real
    <3>6. elapsed + dt < WRAP /\ real = elapsed + dt
      BY <3>2, <3>4, <3>5
    <3>7. rasgueoDetectado(now', magnitud) <=> real > TIEMPO_ESPERA
      BY <1>1, <3>1, <3>5, <3>6, PausaExact DEF rasgueoDetectado
    <3>8. /\ rasgueoDetectado(now', magnitud) => elapsed' = 0
          /\ ~rasgueoDetectado(now', magnitud) => elapsed' = real
      BY <1>1, <3>1, DetectarStep DEF real
    <3> QED BY <3>2, <3>6, <3>7, <3>8
  <2>2. CASE Setup
    BY <2>2 DEF Setup, SetupMpu, SetupEspNow, SetupPeer
  <2> QED BY <1>1, <2>1, <2>2 DEF Next
<1>2. TimeInv /\ [Next]_vars => [A]_vars
  BY <1>1
<1> QED BY <1>2, TimeInit, TimeStep, PTL DEF Spec, StrumHeard

---------------------------------------------------------------------------
(* The LED, and the types *)

\* While the LED is lit and millis() has not wrapped, its age and the time
\* left until it is put out are together what it was lit for.
LedInv ==
  /\ ledVerdeEncendido \in BOOLEAN /\ ledVerdeApagarMs \in Clock
  /\ ledWrap \in BOOLEAN /\ ledAge \in 0..(LedLimit + 1)
  /\ ledVerdeEncendido /\ ~ledWrap =>
       /\ ledAge + ledVerdeApagarMs <= now + LedLimit
       /\ ledAge = 0 \/ now < ledVerdeApagarMs

\* What the time arguments leave open.
RestType ==
  /\ phase \in {"mpu", "espnow", "peer", "loop", "no_mpu", "no_espnow", "no_peer"}
  /\ mpuFound \in BOOLEAN
  /\ lastStableStrum \in BOOLEAN /\ lastReadStrum \in BOOLEAN
  /\ packet \in Message \cup {NoPacket}
  /\ input \in [magnitud : Magnitud, rawStrum : BOOLEAN, mask : Mask]

\* Until loop() runs the LED is dark.
DarkInv == phase # "loop" => ~ledVerdeEncendido

FullInv == TimeInv /\ LedInv /\ RestType /\ DarkInv

\* The LED after a round.
LEMMA LedStep ==
  ASSUME TimeInv, LedInv, NEW dt \in MinStep..MaxStep, NEW lag \in 0..MaxLag,
         NEW magnitud, now' = Millis(now + dt),
         LedVerde(now', dt, magnitud, lag)
  PROVE  LedInv'
<1>1. /\ now \in Clock /\ now' \in Clock /\ dt \in Nat /\ dt > 0 /\ dt < WRAP
      /\ lag \in Nat /\ lag <= MaxLag /\ MaxLag \in Nat
      /\ LED_VERDE_TIEMPO \in Nat /\ WRAP \in Nat /\ LedLimit \in Nat
  <2>1. now \in Clock
    BY DEF TimeInv, ClockType
  <2> QED BY <2>1, MillisFacts, EmisoraAssumption DEF LedLimit
<1>2. CASE rasgueoDetectado(now', magnitud)
  <2> DEFINE off == now' + lag + LED_VERDE_TIEMPO
  <2>1. /\ ledVerdeEncendido' = TRUE /\ ledVerdeApagarMs' = off % WRAP
        /\ ledAge' = 0
    BY <1>2 DEF LedVerde, encenderLedVerde, Millis
  <2>2. ledWrap' = (off >= WRAP)
    BY <1>2 DEF LedVerde, encenderLedVerde
  <2>3. off \in Nat /\ off <= now' + LedLimit
    BY <1>1 DEF LedLimit, Clock
  <2> HIDE DEF off
  <2>4. off % WRAP \in Clock /\ (off < WRAP => off % WRAP = off)
    BY <1>1, <2>3, Z3 DEF Clock
  <2>5. ledWrap' \in BOOLEAN /\ (~ledWrap' => off < WRAP)
    <3>0. (off >= WRAP) \in BOOLEAN
      BY <1>1, <2>3
    <3>1. ledWrap' \in BOOLEAN
      BY <2>2, <3>0, Zenon
    <3>2. ~ledWrap' => ~(off >= WRAP)
      BY <2>2, Zenon
    <3> QED BY <3>1, <3>2, <1>1, <2>3
  <2> QED BY <1>1, <2>1, <2>3, <2>4, <2>5 DEF LedInv, Clock
<1>3. CASE ~rasgueoDetectado(now', magnitud)
  <2>1. /\ ledVerdeApagarMs' = ledVerdeApagarMs
        /\ ledVerdeEncendido' => ledAge' = Later(ledAge, dt, LedLimit + 1)
        /\ ~ledVerdeEncendido' => ledAge' = 0
    BY <1>3 DEF LedVerde
  <2>2. /\ ledVerdeEncendido' = (ledVerdeEncendido /\ now' < ledVerdeApagarMs)
        /\ ledWrap' = (ledVerdeEncendido' /\ (ledWrap \/ now' < now))
    BY <1>3 DEF LedVerde
  <2>3. ledVerdeEncendido' \in BOOLEAN /\ ledWrap' \in BOOLEAN
    BY <2>2, Zenon
  <2>4. /\ ledVerdeEncendido' => ledVerdeEncendido /\ now' < ledVerdeApagarMs
        /\ ledVerdeEncendido' /\ ~ledWrap' => ~ledWrap /\ ~(now' < now)
    BY <2>2, Zenon
  <2>5. ledVerdeApagarMs \in Clock /\ ledAge \in 0..(LedLimit + 1)
    BY DEF LedInv
  <2>6. /\ Later(ledAge, dt, LedLimit + 1) \in 0..(LedLimit + 1)
        /\ Later(ledAge, dt, LedLimit + 1) <= ledAge + dt
    BY <1>1, <2>5 DEF Later
  <2>7. ledAge' \in 0..(LedLimit + 1)
    BY <1>1, <2>1, <2>6
  <2>8. ASSUME ledVerdeEncendido', ~ledWrap'
        PROVE  /\ ledAge' + ledVerdeApagarMs' <= now' + LedLimit
               /\ now' < ledVerdeApagarMs'
    <3>1. /\ ledVerdeEncendido /\ ~ledWrap
          /\ now' < ledVerdeApagarMs /\ now' >= now
      BY <1>1, <2>4, <2>8 DEF Clock
    <3>2. now' = now + dt
      <4>1. /\ now + dt < WRAP => (now + dt) % WRAP = now + dt
            /\ now + dt >= WRAP => (now + dt) % WRAP = now + dt - WRAP
        <5>1. now \in 0..(WRAP - 1) /\ dt \in 0..(WRAP - 1)
          BY <1>1 DEF Clock
        <5> QED BY <1>1, <5>1, ModAdd
      <4>2. now' = (now + dt) % WRAP
        BY DEF Millis
      <4> QED BY <1>1, <3>1, <4>1, <4>2 DEF Clock
    <3>3. ledAge + ledVerdeApagarMs <= now + LedLimit
      BY <3>1 DEF LedInv
    <3>4. ledAge' <= ledAge + dt
      BY <2>1, <2>6, <2>8
    <3> QED BY <1>1, <2>1, <2>5, <2>7, <3>1, <3>2, <3>3, <3>4 DEF Clock
  <2> QED BY <2>1, <2>3, <2>5, <2>7, <2>8 DEF LedInv
<1> QED BY <1>2, <1>3

\* The sender starts with the full invariant.
LEMMA FullInit == Init => FullInv
<1> SUFFICES ASSUME Init PROVE FullInv
  OBVIOUS
<1>1. TimeInv
  BY TimeInit
<1>2. LedInv /\ DarkInv
  <2>1. WRAP \in Nat /\ WRAP > 0 /\ LedLimit \in Nat
    BY EmisoraAssumption DEF LedLimit
  <2>2. /\ ledVerdeEncendido = FALSE /\ ledWrap = FALSE
        /\ ledVerdeApagarMs = 0 /\ ledAge = 0
    BY DEF Init
  <2>3. ledVerdeApagarMs \in Clock /\ ledAge \in 0..(LedLimit + 1)
    BY <2>1, <2>2 DEF Clock
  <2>4. ~ledVerdeEncendido /\ ledVerdeEncendido \in BOOLEAN /\ ledWrap \in BOOLEAN
    BY <2>2, Zenon
  <2> QED BY <2>3, <2>4, Zenon DEF LedInv, DarkInv
<1>3. RestType
  BY DEF Init, RestType, Magnitud, Mask
<1> QED BY <1>1, <1>2, <1>3 DEF FullInv

\* Every step keeps the full invariant.
LEMMA FullStep == FullInv /\ [Next]_vars => FullInv'
<1> SUFFICES ASSUME FullInv, [Next]_vars PROVE FullInv'
  OBVIOUS
<1>0. TimeInv /\ LedInv /\ RestType /\ DarkInv
  BY DEF FullInv
<1>1. TimeInv'
  BY <1>0, TimeStep
<1>2. CASE Loop
  <2>1. PICK dt \in MinStep..MaxStep, lag \in 0..MaxLag, magnitud \in Magnitud,
             rawStrum \in BOOLEAN, mask \in Masks :
          /\ now' = Millis(now + dt)
          /\ LedVerde(now', dt, magnitud, lag)
          /\ DebounceStrum(now', dt, rawStrum)
          /\ Enviar(now', dt, magnitud, mask)
          /\ input' = [magnitud |-> magnitud, rawStrum |-> rawStrum, mask |-> mask]
    BY <1>2 DEF Loop
  <2>2. LedInv'
    BY <1>0, <2>1, LedStep
  <2>3. phase' = "loop" /\ mpuFound' = mpuFound
    BY <1>2 DEF Loop, setupVars
  <2>4. lastReadStrum' = rawStrum /\ lastStableStrum' \in {rawStrum, lastStableStrum}
    BY <2>1 DEF DebounceStrum
  <2>5. packet' \in Message \cup {NoPacket}
    <3>1. velocityDetectada(magnitud) \in Velocity
      BY DEF velocityDetectada, Velocity
    <3> QED BY <2>1, <3>1, PacketFormat DEF Enviar
  <2>6. input' \in [magnitud : Magnitud, rawStrum : BOOLEAN, mask : Mask]
    BY <2>1, EmisoraAssumption
  <2>7. RestType'
    <3>1. lastReadStrum' \in BOOLEAN /\ lastStableStrum' \in BOOLEAN
      BY <1>0, <2>4 DEF RestType
    <3> QED BY <1>0, <2>3, <2>5, <2>6, <3>1 DEF RestType
  <2> QED BY <1>1, <2>2, <2>3, <2>7 DEF FullInv, DarkInv
<1>3. CASE Setup
  <2>1. /\ UNCHANGED <<lastStableStrum, lastReadStrum, ledVars, packet, input>>
        /\ phase # "loop"
    BY <1>3 DEF Setup, SetupMpu, SetupEspNow, SetupPeer, strumVars, sendVars
  <2>2. /\ phase' \in {"mpu", "espnow", "peer", "loop", "no_mpu", "no_espnow", "no_peer"}
        /\ mpuFound' \in BOOLEAN
    <3>1. CASE SetupMpu
      <4>1. PICK found \in BOOLEAN :
              mpuFound' = found /\ phase' = IF found THEN "no_mpu" ELSE "espnow"
        BY <3>1 DEF SetupMpu
      <4> QED BY <4>1
    <3>2. CASE SetupEspNow \/ SetupPeer
      BY <1>0, <3>2 DEF SetupEspNow, SetupPeer, RestType
    <3> QED BY <1>3, <3>1, <3>2 DEF Setup
  <2>3. RestType'
    BY <1>0, <2>1, <2>2 DEF RestType
  <2>4. ~ledVerdeEncendido
    BY <1>0, <2>1 DEF DarkInv
  <2>5. LedInv' /\ DarkInv'
    BY <1>0, <2>1, <2>4 DEF LedInv, DarkInv, ledVars
  <2> QED BY <1>1, <2>3, <2>5 DEF FullInv
<1>4. CASE UNCHANGED vars
  <2>1. UNCHANGED <<now, ledVars, phase, mpuFound, lastStableStrum, lastReadStrum, packet, input>>
    BY <1>4 DEF vars, setupVars, strumVars, sendVars
  <2>2. LedInv' /\ DarkInv'
    BY <1>0, <2>1 DEF LedInv, DarkInv, ledVars, Clock
  <2>3. RestType'
    BY <1>0, <2>1 DEF RestType
  <2> QED BY <1>1, <2>2, <2>3 DEF FullInv
<1> QED BY <1>2, <1>3, <1>4 DEF Next

\* setup() and loop() keep every variable in its range, for any clock width,
\* times and readings.
THEOREM TypeCorrect == Spec => []TypeOK
<1>1. FullInv => TypeOK
  BY DEF FullInv, TimeInv, ClockType, LedInv, RestType, TypeOK
<1> QED BY <1>1, FullInit, FullStep, PTL DEF Spec

\* The first round of loop() after LED_VERDE_TIEMPO puts the green LED out, for
\* any spacing of the rounds, unless millis() wraps before it.
THEOREM LedGoesOff == Spec => []LedOffOnTime
<1>1. FullInv => LedOffOnTime
  <2> SUFFICES ASSUME FullInv, ledVerdeEncendido, ~ledWrap PROVE ledAge <= LedLimit
    BY DEF LedOffOnTime
  <2>1. /\ ledAge \in Nat /\ ledVerdeApagarMs \in Nat /\ now \in Nat /\ LedLimit \in Nat
        /\ ledAge + ledVerdeApagarMs <= now + LedLimit
        /\ ledAge = 0 \/ now < ledVerdeApagarMs
    BY EmisoraAssumption DEF FullInv, LedInv, TimeInv, ClockType, Clock, LedLimit
  <2> QED BY <2>1
<1> QED BY <1>1, FullInit, FullStep, PTL DEF Spec
============================================================================
