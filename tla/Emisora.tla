------------------------------ MODULE Emisora ------------------------------
(***************************************************************************)
(* The sending ESP32 (esp32/imu-and-buttons/emisora.ino): setup(), and one *)
(* round of loop() per step.  A round reads millis(), the accelerometer,   *)
(* the STRUM button and the chord buttons, and may send one packet.        *)
(*                                                                         *)
(* millis() is a 32-bit counter that wraps; here it wraps at WRAP.  The    *)
(* history variables measure time as it really passes, so that the         *)
(* properties can tell a real delay from a wrapped difference; each stops  *)
(* counting at the value past which no property looks at it.               *)
(***************************************************************************)
EXTENDS ChordMessage, Integers

CONSTANTS
  WRAP,                 \* millis() is counted modulo WRAP (2^32)
  TIEMPO_ESPERA,        \* pause after a strum
  DEBOUNCE_MS,
  LED_VERDE_TIEMPO,
  MinStep, MaxStep,     \* bounds on the time from one round to the next
  MaxLag,               \* bound on the time between two millis() of one round
  BootTime,             \* millis() when setup() ends
  Masks,                \* chord masks the player presses, {} for none
  NoPacket

ASSUME EmisoraAssumption ==
  /\ WRAP \in Nat /\ TIEMPO_ESPERA \in Nat /\ DEBOUNCE_MS \in Nat
  /\ LED_VERDE_TIEMPO \in Nat /\ BootTime \in Nat /\ MaxLag \in Nat
  /\ MinStep \in Nat \ {0} /\ MaxStep \in Nat
  /\ MinStep <= MaxStep
  /\ BootTime < WRAP
  /\ TIEMPO_ESPERA + MaxStep < WRAP
  /\ DEBOUNCE_MS + MaxStep < WRAP
  /\ Masks \subseteq Mask
  /\ NoPacket \notin Message

\* What a reading is worth: below UMBRAL_NORMAL, from it on, from
\* UMBRAL_FUERTE on.
Magnitud == {"baja", "normal", "fuerte"}

VARIABLES
  phase,                \* where setup() or loop() is
  mpuFound,             \* what mpu.begin() returned
  now,                  \* millis() read by the last round
  ultimoRasgueoMs,
  lastStableStrum, lastReadStrum, lastChangeStrum,   \* TRUE is HIGH: released
  ledVerdeEncendido, ledVerdeApagarMs,
  packet,               \* what the last round sent, or NoPacket
  input,                \* history: what the last round read
  elapsed,              \* history: real time since ultimoRasgueoMs was set
  held,                 \* history: real time since lastReadStrum changed
  ledAge, ledWrap,      \* history: real time since the LED was lit, and
                        \* whether millis() wrapped around its switch-off time
  sincePacket, gap      \* history: real time since the millis() of the round
                        \* of the last packet, and between those of the last two

setupVars == <<phase, mpuFound>>
imuVars   == <<ultimoRasgueoMs, elapsed>>
strumVars == <<lastStableStrum, lastReadStrum, lastChangeStrum, held>>
ledVars   == <<ledVerdeEncendido, ledVerdeApagarMs, ledAge, ledWrap>>
sendVars  == <<packet, sincePacket, gap>>
vars      == <<setupVars, now, imuVars, strumVars, ledVars, sendVars, input>>

Clock == 0..(WRAP - 1)

\* Real time dt after t, counted up to cap.
Later(t, dt, cap) == IF t + dt > cap THEN cap ELSE t + dt

\* A round leaves the green LED lit for no longer than this.
LedLimit == LED_VERDE_TIEMPO + MaxLag

TypeOK ==
  /\ phase \in {"mpu", "espnow", "peer", "loop", "no_mpu", "no_espnow", "no_peer"}
  /\ mpuFound \in BOOLEAN
  /\ now \in Clock /\ ultimoRasgueoMs \in Clock
  /\ lastStableStrum \in BOOLEAN /\ lastReadStrum \in BOOLEAN
  /\ lastChangeStrum \in Clock
  /\ ledVerdeEncendido \in BOOLEAN /\ ledVerdeApagarMs \in Clock
  /\ packet \in Message \cup {NoPacket}
  /\ input \in [magnitud : Magnitud, rawStrum : BOOLEAN, mask : Mask]
  /\ elapsed \in 0..WRAP
  /\ held \in 0..DEBOUNCE_MS
  /\ ledAge \in 0..(LedLimit + 1)
  /\ ledWrap \in BOOLEAN
  /\ sincePacket \in 0..(TIEMPO_ESPERA + 1)
  /\ gap \in 0..(TIEMPO_ESPERA + 1)

Init ==
  /\ phase = "mpu"
  /\ mpuFound = FALSE
  /\ now = 0
  /\ ultimoRasgueoMs = 0
  /\ lastStableStrum = TRUE
  /\ lastReadStrum = TRUE
  /\ lastChangeStrum = 0
  /\ ledVerdeEncendido = FALSE
  /\ ledVerdeApagarMs = 0
  /\ packet = NoPacket
  /\ input = [magnitud |-> "baja", rawStrum |-> TRUE, mask |-> {}]
  /\ elapsed = 0
  /\ held = 0
  /\ ledAge = 0
  /\ ledWrap = FALSE
  /\ sincePacket = TIEMPO_ESPERA + 1
  /\ gap = TIEMPO_ESPERA + 1

---------------------------------------------------------------------------
(* setup() *)

\* The sensor is (or is not) found; the code stops when begin() says yes.
SetupMpu ==
  /\ phase = "mpu"
  /\ \E found \in BOOLEAN :
       /\ mpuFound' = found
       /\ phase' = IF found THEN "no_mpu" ELSE "espnow"
  /\ UNCHANGED <<now, imuVars, strumVars, ledVars, sendVars, input>>

SetupEspNow ==
  /\ phase = "espnow"
  /\ phase' \in {"peer", "no_espnow"}
  /\ UNCHANGED <<mpuFound, now, imuVars, strumVars, ledVars, sendVars, input>>

\* After the peer is added setup() ends and loop() is called from then on.
SetupPeer ==
  /\ phase = "peer"
  /\ \/ /\ phase' = "loop"
        /\ now' = BootTime
        /\ elapsed' = BootTime
        /\ held' = Later(held, BootTime, DEBOUNCE_MS)
     \/ /\ phase' = "no_peer"
        /\ UNCHANGED <<now, elapsed, held>>
  /\ UNCHANGED <<mpuFound, ultimoRasgueoMs, lastStableStrum, lastReadStrum,
                 lastChangeStrum, ledVars, sendVars, input>>

---------------------------------------------------------------------------
(* loop(): t is the millis() of this round, dt the real time since the last. *)

\* Unsigned difference of two millis() readings.
Since(t, t0) == (t - t0) % WRAP

\* millis() is 32 bits wide.
Millis64(t) == t

Millis(t) == t % WRAP

PausaNoModular(t) == t > ultimoRasgueoMs + TIEMPO_ESPERA

PausaUnoAntes(t) == Since(t, ultimoRasgueoMs) >= TIEMPO_ESPERA

PausaCumplida(t) == Since(t, ultimoRasgueoMs) > TIEMPO_ESPERA

rasgueoDetectado(t, magnitud) == PausaCumplida(t) /\ magnitud # "baja"

velocityDetectada(magnitud) ==
  IF magnitud = "fuerte" THEN VEL_FUERTE ELSE VEL_NORMAL

DetectarReiniciaSiempre(t, dt, magnitud) ==
  IF magnitud # "baja"
  THEN ultimoRasgueoMs' = t /\ elapsed' = 0
  ELSE UNCHANGED ultimoRasgueoMs /\ elapsed' = Later(elapsed, dt, WRAP)

\* The pause restarts at every strum detected, sent or not.
Detectar(t, dt, magnitud) ==
  IF rasgueoDetectado(t, magnitud)
  THEN ultimoRasgueoMs' = t /\ elapsed' = 0
  ELSE UNCHANGED ultimoRasgueoMs /\ elapsed' = Later(elapsed, dt, WRAP)

\* The LED is lit for LED_VERDE_TIEMPO from a second reading of millis(), lag
\* later than that of the round.
encenderLedVerde(t, lag) ==
  /\ ledVerdeEncendido' = TRUE
  /\ ledVerdeApagarMs' = Millis(t + lag + LED_VERDE_TIEMPO)
  /\ ledAge' = 0
  /\ ledWrap' = (t + lag + LED_VERDE_TIEMPO >= WRAP)

LedVerdeSoloTrasPausa(t, dt, magnitud, lag) ==
  IF rasgueoDetectado(t, magnitud)
  THEN encenderLedVerde(t, lag)
  ELSE /\ ledVerdeEncendido' = (ledVerdeEncendido /\ ~PausaCumplida(t))
       /\ ledAge' = IF ledVerdeEncendido' THEN Later(ledAge, dt, LedLimit + 1) ELSE 0
       /\ ledWrap' = (ledVerdeEncendido' /\ (ledWrap \/ t < now))
       /\ UNCHANGED ledVerdeApagarMs

\* The green LED goes off when now >= ledVerdeApagarMs, a comparison that
\* does not allow for the wrap; a strum lights it (again).
LedVerde(t, dt, magnitud, lag) ==
  IF rasgueoDetectado(t, magnitud)
  THEN encenderLedVerde(t, lag)
  ELSE /\ ledVerdeEncendido' = (ledVerdeEncendido /\ t < ledVerdeApagarMs)
       /\ ledAge' = IF ledVerdeEncendido' THEN Later(ledAge, dt, LedLimit + 1) ELSE 0
       /\ ledWrap' = (ledVerdeEncendido' /\ (ledWrap \/ t < now))
       /\ UNCHANGED ledVerdeApagarMs

DebounceNoModular(t, dt, rawStrum) ==
  LET change == IF rawStrum # lastReadStrum THEN t ELSE lastChangeStrum
  IN  /\ lastReadStrum' = rawStrum
      /\ lastChangeStrum' = change
      /\ held' = IF rawStrum # lastReadStrum THEN 0 ELSE Later(held, dt, DEBOUNCE_MS)
      /\ lastStableStrum' = IF t >= change + DEBOUNCE_MS
                            THEN rawStrum ELSE lastStableStrum

\* STRUM follows its reading once that has not changed for DEBOUNCE_MS.
DebounceStrum(t, dt, rawStrum) ==
  LET change == IF rawStrum # lastReadStrum THEN t ELSE lastChangeStrum
  IN  /\ lastReadStrum' = rawStrum
      /\ lastChangeStrum' = change
      /\ held' = IF rawStrum # lastReadStrum THEN 0 ELSE Later(held, dt, DEBOUNCE_MS)
      /\ lastStableStrum' = IF Since(t, change) >= DEBOUNCE_MS
                            THEN rawStrum ELSE lastStableStrum

\* A packet leaves when STRUM is pressed (LOW), some chord button is pressed
\* and this round detected a strum.  The result of esp_now_send is printed
\* and otherwise ignored.  A packet is timed by the millis() its round began
\* with; esp_now_send is called a little later in the round.
Enviar(t, dt, magnitud, mask) ==
  IF ~lastStableStrum' /\ mask # {} /\ rasgueoDetectado(t, magnitud)
  THEN /\ packet' = sendPacket(mask, velocityDetectada(magnitud))
       /\ gap' = Later(sincePacket, dt, TIEMPO_ESPERA + 1)
       /\ sincePacket' = 0
  ELSE /\ packet' = NoPacket
       /\ sincePacket' = Later(sincePacket, dt, TIEMPO_ESPERA + 1)
       /\ UNCHANGED gap

Loop ==
  /\ phase = "loop"
  /\ \E dt \in MinStep..MaxStep, lag \in 0..MaxLag, magnitud \in Magnitud,
        rawStrum \in BOOLEAN, mask \in Masks :
       LET t == Millis(now + dt)
       IN  /\ now' = t
           /\ Detectar(t, dt, magnitud)
           /\ LedVerde(t, dt, magnitud, lag)
           /\ DebounceStrum(t, dt, rawStrum)
           /\ Enviar(t, dt, magnitud, mask)
           /\ input' = [magnitud |-> magnitud, rawStrum |-> rawStrum, mask |-> mask]
  /\ UNCHANGED setupVars

Setup == SetupMpu \/ SetupEspNow \/ SetupPeer

Next == Setup \/ Loop

Spec == Init /\ [][Next]_vars

\* setup() runs to its end or stops; loop() is called again and again.
FairSpec == Spec /\ WF_vars(Setup) /\ WF_vars(Loop)

---------------------------------------------------------------------------
(* Properties *)

\* The rounds that send two packets begin more than TIEMPO_ESPERA of real time
\* apart, also when millis() wraps between them: the receiving board has about
\* that long, by as much as one esp_now_send comes later in its round than the
\* other more or less, to empty its one-frame buffer.
SendsSpaced == gap > TIEMPO_ESPERA

\* A strum in a round more than TIEMPO_ESPERA after the last one is detected,
\* also across a wrap of millis() (unless a whole wrap has gone by without
\* one), and a strum earlier than that never is.
StrumHeard ==
  [][LET dt == Since(now', now)
         real == Later(elapsed, dt, WRAP)
     IN  phase = "loop" /\ input'.magnitud # "baja" /\ now' # now /\ real < WRAP
           => (elapsed' = 0 <=> real > TIEMPO_ESPERA)]_vars

\* The stable state of STRUM changes only when all readings of the last
\* DEBOUNCE_MS of real time agree, and it does not lag behind them for longer.
DebounceExact ==
  [][/\ lastStableStrum' # lastStableStrum => held' >= DEBOUNCE_MS
     /\ lastStableStrum' # lastReadStrum' => held' < DEBOUNCE_MS]_vars

\* The first round that finds LED_VERDE_TIEMPO over puts the green LED out, if
\* millis() does not wrap around the moment it should.
LedOffOnTime ==
  ledVerdeEncendido /\ ~ledWrap => ledAge <= LedLimit

Playing ==
  /\ phase = "loop"
  /\ input.magnitud # "baja"
  /\ ~input.rawStrum
  /\ input.mask # {}

\* As long as the player holds STRUM and a chord and keeps strumming, packets
\* keep being sent: no reading of the clock stalls the sender for ever.
PlayingKeepsSending == <>[]Playing => []<>(packet # NoPacket)
============================================================================
