------------------------ MODULE StrumSchedulerProofs ------------------------
(***************************************************************************)
(* Proofs about StrumScheduler, for every clock width, pause, length and   *)
(* spacing of the notes, number of slots and set of chords.                *)
(***************************************************************************)
EXTENDS StrumScheduler, FiniteSetTheorems, WellFoundedInduction, TLAPS

---------------------------------------------------------------------------
(* Clock arithmetic *)

\* The clock d later.
LEMMA ModAdd ==
  ASSUME NEW W \in Nat, NEW a \in 0..(W - 1), NEW d \in 0..(W - 1)
  PROVE  /\ a + d < W => (a + d) % W = a + d
         /\ a + d >= W => (a + d) % W = a + d - W
BY Z3

\* The difference of two readings.
LEMMA ModSub ==
  ASSUME NEW W \in Nat, NEW a \in 0..(W - 1), NEW b \in 0..(W - 1)
  PROVE  /\ b <= a => (a - b) % W = a - b
         /\ b > a => (a - b) % W = a - b + W
BY Z3

\* The time a strum keeps events in the queue.
Life == 2 * STRUM_GAP_MS + NOTE_LEN_MS

LEMMA Spans ==
  /\ WRAP \in Nat /\ Life \in Nat /\ MaxStep \in Nat /\ COOLDOWN \in Nat
  /\ STRUM_GAP_MS \in Nat /\ NOTE_LEN_MS \in Nat /\ QSIZE \in Nat
  /\ Life + MaxStep < WRAP \div 2 /\ 2 * (Life + MaxStep) < WRAP /\ COOLDOWN + MaxStep < WRAP
  /\ Life <= 2 * (COOLDOWN + 1) /\ QSIZE >= 12
<1>1. WRAP \in Nat /\ WRAP \div 2 \in Nat /\ 2 * (WRAP \div 2) <= WRAP
  BY StrumSchedulerAssumption, Z3
<1> QED BY <1>1, StrumSchedulerAssumption, RoomAssumption DEF Life

\* What is r ahead on the clock: dt later it is due, or r - dt ahead.
LEMMA RestLater ==
  ASSUME NEW n \in Clock, NEW t \in Clock, NEW dt \in 0..MaxStep,
         NEW r \in 0..Life, (t - n) % WRAP = r,
         NEW n2, n2 = (n + dt) % WRAP
  PROVE  /\ n2 \in Clock
         /\ dt >= r => (n2 - t) % WRAP < WRAP \div 2
         /\ dt < r => /\ ~((n2 - t) % WRAP < WRAP \div 2)
                      /\ (t - n2) % WRAP = r - dt
<1>1. /\ WRAP \in Nat /\ n \in 0..(WRAP - 1) /\ t \in 0..(WRAP - 1)
      /\ dt \in 0..(WRAP - 1) /\ r \in Nat /\ MaxStep \in Nat /\ dt <= MaxStep
      /\ r + MaxStep < WRAP \div 2
  BY Spans DEF Clock
<1>2. /\ n + dt < WRAP => n2 = n + dt
      /\ n + dt >= WRAP => n2 = n + dt - WRAP
  BY <1>1, ModAdd
<1>3. n2 \in 0..(WRAP - 1)
  BY <1>1, <1>2
<1>4. /\ n <= t => r = t - n
      /\ n > t => r = t - n + WRAP
  BY <1>1, ModSub
<1>5. /\ t <= n2 => (n2 - t) % WRAP = n2 - t
      /\ t > n2 => (n2 - t) % WRAP = n2 - t + WRAP
  BY <1>1, <1>3, ModSub
<1>6. /\ n2 <= t => (t - n2) % WRAP = t - n2
      /\ n2 > t => (t - n2) % WRAP = t - n2 + WRAP
  BY <1>1, <1>3, ModSub
<1>7. 2 * (WRAP \div 2) <= WRAP /\ WRAP < 2 * (WRAP \div 2) + 2 /\ WRAP \div 2 \in Nat
  BY <1>1, Z3
<1>8. dt >= r => (n2 - t) % WRAP = dt - r
  BY <1>1, <1>2, <1>3, <1>4, <1>5
<1>9. dt < r => (n2 - t) % WRAP = dt - r + WRAP /\ (t - n2) % WRAP = r - dt
  BY <1>1, <1>2, <1>3, <1>4, <1>5, <1>6
<1> DEFINE H == WRAP \div 2
<1>10. H \in Nat /\ 2 * H <= WRAP /\ r + MaxStep < H
  BY <1>1, <1>7
<1> HIDE DEF H
<1>11. /\ dt >= r => dt - r < H
       /\ dt < r => ~(dt - r + WRAP < H)
  BY <1>1, <1>10
<1>12. /\ dt >= r => (n2 - t) % WRAP < H
       /\ dt < r => ~((n2 - t) % WRAP < H) /\ (t - n2) % WRAP = r - dt
  BY <1>8, <1>9, <1>11
<1> QED BY <1>3, <1>12 DEF Clock, H

\* The time since a reading grows, until it comes round.
LEMMA AgeLater ==
  ASSUME NEW n \in Clock, NEW s \in Clock, NEW dt \in 0..(WRAP - 1),
         NEW a \in Nat, (n - s) % WRAP = a, a + dt < WRAP
  PROVE  (((n + dt) % WRAP) - s) % WRAP = a + dt
<1> DEFINE n2 == (n + dt) % WRAP
<1>1. /\ WRAP \in Nat /\ n \in 0..(WRAP - 1) /\ s \in 0..(WRAP - 1)
      /\ dt \in 0..(WRAP - 1)
  BY Spans DEF Clock
<1>2. /\ n + dt < WRAP => n2 = n + dt
      /\ n + dt >= WRAP => n2 = n + dt - WRAP
  BY <1>1, ModAdd
<1> HIDE DEF n2
<1>3. n2 \in 0..(WRAP - 1)
  BY <1>1, <1>2
<1>4. /\ s <= n => a = n - s
      /\ s > n => a = n - s + WRAP
  BY <1>1, ModSub
<1>5. /\ s <= n2 => (n2 - s) % WRAP = n2 - s
      /\ s > n2 => (n2 - s) % WRAP = n2 - s + WRAP
  BY <1>1, <1>3, ModSub
<1>6. (n2 - s) % WRAP = a + dt
  BY <1>1, <1>2, <1>3, <1>4, <1>5
<1> QED BY <1>6 DEF n2

\* A time off ahead.
LEMMA Ahead ==
  ASSUME NEW n \in Clock, NEW off \in 0..Life
  PROVE  /\ (n + off) % WRAP \in Clock
         /\ (((n + off) % WRAP) - n) % WRAP = off
<1> DEFINE t == (n + off) % WRAP
<1>1. /\ WRAP \in Nat /\ n \in 0..(WRAP - 1) /\ off \in 0..(WRAP - 1)
  BY Spans DEF Clock
<1>2. /\ n + off < WRAP => t = n + off
      /\ n + off >= WRAP => t = n + off - WRAP
  BY <1>1, ModAdd
<1> HIDE DEF t
<1>3. t \in 0..(WRAP - 1)
  BY <1>1, <1>2
<1>4. /\ n <= t => (t - n) % WRAP = t - n
      /\ n > t => (t - n) % WRAP = t - n + WRAP
  BY <1>1, <1>3, ModSub
<1>5. (t - n) % WRAP = off
  BY <1>1, <1>2, <1>3, <1>4
<1> QED BY <1>3, <1>5 DEF t, Clock

---------------------------------------------------------------------------
(* The slots of the queue *)

\* midiSchedProcess() looks for the highest slot: there is one.
LEMMA Highest ==
  ASSUME NEW S \in SUBSET Slot, S # {}
  PROVE  Max(S) \in S /\ \A y \in S : y <= Max(S)
<1> DEFINE T == {QSIZE - x : x \in S}
           R == OpToRel(<, Nat)
<1>1. \A x \in S : x \in Nat /\ QSIZE - x \in Nat
  BY Spans DEF Slot
<1>2. T \subseteq Nat /\ T # {}
  BY <1>1
<1>3. \E m \in T : \A y \in T : ~(<<y, m>> \in R)
  <2>1. IsWellFoundedOn(R, Nat)
    BY NatLessThanWellFounded
  <2> HIDE DEF T, R
  <2> QED BY <1>2, <2>1, WFMin
<1>4. PICK m \in T : \A y \in T : ~(y < m)
  BY <1>2, <1>3 DEF OpToRel
<1>5. PICK x \in S : m = QSIZE - x
  BY <1>4
<1>6. \A y \in S : y <= x
  <2> TAKE y \in S
  <2>1. ~(QSIZE - y < QSIZE - x)
    BY <1>4, <1>5
  <2> QED BY <1>1, <2>1, Spans
<1>7. \A y \in S : x >= y
  BY <1>1, <1>6
<1>8. Max(S) \in S /\ \A y \in S : Max(S) >= y
  BY <1>7 DEF Max
<1> QED BY <1>1, <1>8

LEMMA SlotsFinite ==
  ASSUME NEW S \in SUBSET Slot
  PROVE  IsFiniteSet(S) /\ Cardinality(S) \in Nat
<1>1. IsFiniteSet(Slot)
  BY Spans, FS_Interval DEF Slot
<1> QED BY <1>1, FS_Subset, FS_CardinalityType

\* The number of a slot among those of S.
Rank(S, i) == Cardinality({j \in S : j <= i})

\* The slots of S are numbered from 1 in their order.
LEMMA RankRange ==
  ASSUME NEW S \in SUBSET Slot, NEW i \in S
  PROVE  Rank(S, i) \in 1..Cardinality(S)
<1> DEFINE B == {j \in S : j <= i}
<1>1. B \in SUBSET S /\ B \in SUBSET Slot /\ i \in B
  <2>1. i \in Int
    BY Spans DEF Slot
  <2>2. i <= i
    BY <2>1
  <2> QED BY <2>2
<1> HIDE DEF B
<1>2. /\ IsFiniteSet(S) /\ IsFiniteSet(B) /\ Cardinality(B) \in Nat
      /\ Cardinality(S) \in Nat
  BY <1>1, SlotsFinite
<1>3. Cardinality(B) <= Cardinality(S)
  BY <1>1, <1>2, FS_Subset
<1>4. Cardinality(B) # 0
  BY <1>1, <1>2, FS_EmptySet
<1>5. Cardinality(B) \in 1..Cardinality(S)
  BY <1>2, <1>3, <1>4
<1> QED BY <1>5 DEF Rank, B

LEMMA RankGrows ==
  ASSUME NEW S \in SUBSET Slot, NEW i \in S, NEW j \in S, i < j
  PROVE  Rank(S, i) < Rank(S, j)
<1> DEFINE A == {k \in S : k <= i}
           B == {k \in S : k <= j}
<1>1. /\ A \in SUBSET B /\ A \in SUBSET Slot /\ B \in SUBSET Slot
      /\ j \in B /\ j \notin A
  <2>1. \A k \in Slot : k \in Int
    BY Spans DEF Slot
  <2> QED BY <2>1
<1> HIDE DEF A, B
<1>2. /\ IsFiniteSet(A) /\ IsFiniteSet(B)
      /\ Cardinality(A) \in Nat /\ Cardinality(B) \in Nat
  BY <1>1, SlotsFinite
<1>3. Cardinality(A) <= Cardinality(B) /\ (Cardinality(B) = Cardinality(A) => B = A)
  BY <1>1, <1>2, FS_Subset
<1>4. Cardinality(A) < Cardinality(B)
  BY <1>1, <1>2, <1>3
<1> QED BY <1>4 DEF Rank, A, B

\* Two slots compare as their numbers do.
LEMMA RankOrder ==
  ASSUME NEW S \in SUBSET Slot, NEW i \in S, NEW j \in S
  PROVE  /\ Rank(S, i) < Rank(S, j) => i < j
         /\ Rank(S, i) = Rank(S, j) => i = j
<1>1. i \in Int /\ j \in Int /\ Rank(S, i) \in Int /\ Rank(S, j) \in Int
  <2>1. /\ Rank(S, i) \in 1..Cardinality(S) /\ Rank(S, j) \in 1..Cardinality(S)
        /\ Cardinality(S) \in Nat
    BY RankRange, SlotsFinite
  <2> QED BY <2>1 DEF Slot
<1>2. i < j => Rank(S, i) < Rank(S, j)
  BY RankGrows
<1>3. j < i => Rank(S, j) < Rank(S, i)
  BY RankGrows
<1> QED BY <1>1, <1>2, <1>3

\* Every number up to that of the slots is one of theirs.
LEMMA RankOnto ==
  ASSUME NEW S \in SUBSET Slot, NEW k \in 1..Cardinality(S)
  PROVE  \E i \in S : Rank(S, i) = k
<1> DEFINE c == Cardinality(S)
           f == [i \in S |-> Rank(S, i)]
<1>1. IsFiniteSet(S) /\ c \in Nat
  BY SlotsFinite
<1>2. IsFiniteSet(1..c) /\ Cardinality(1..c) = c
  BY <1>1, FS_Interval
<1>3. f \in [S -> 1..c]
  BY RankRange
<1>4. \A i, j \in S : f[i] = f[j] => i = j
  BY RankOrder
<1>5. f \in Injection(S, 1..c)
  BY <1>3, <1>4 DEF Injection, IsInjective
<1> HIDE DEF f
<1>6. f \in Surjection(S, 1..c)
  BY <1>1, <1>2, <1>5, FS_Injection
<1>7. PICK i \in S : f[i] = k
  BY <1>6 DEF Surjection
<1> QED BY <1>7 DEF f

\* As many slots have a number up to k as k says, or fewer.
LEMMA RankCount ==
  ASSUME NEW S \in SUBSET Slot, NEW k \in Nat
  PROVE  Cardinality({i \in S : Rank(S, i) <= k}) <= k
<1> DEFINE B == {i \in S : Rank(S, i) <= k}
           f == [i \in B |-> Rank(S, i)]
<1>1. IsFiniteSet(1..k) /\ Cardinality(1..k) = k
  BY FS_Interval
<1>2. \A i \in B : Rank(S, i) \in 1..k
  BY RankRange, SlotsFinite
<1>3. f \in [B -> 1..k]
  BY <1>2
<1>4. \A i, j \in B : f[i] = f[j] => i = j
  BY RankOrder
<1>5. f \in Injection(B, 1..k)
  BY <1>3, <1>4 DEF Injection, IsInjective
<1> HIDE DEF f, B
<1>6. Cardinality(B) <= Cardinality(1..k)
  BY <1>1, <1>5, FS_Injection
<1> QED BY <1>1, <1>6 DEF B

Used == {i \in Slot : q[i] # FREE}
Free == {i \in Slot : q[i] = FREE}

\* Where there is room, the events are put into the free slots in order, and
\* the other slots keep theirs.
LEMMA Scheduled ==
  ASSUME NEW evs, Len(evs) \in Nat, Len(evs) <= Cardinality(Free),
         refused \in BOOLEAN, Schedule(evs)
  PROVE  /\ refused' = refused
         /\ q' = [i \in Slot |-> q'[i]]
         /\ \A i \in Used : q'[i] = q[i]
         /\ \A i \in Free : IF Rank(Free, i) <= Len(evs)
                            THEN /\ Rank(Free, i) \in 1..Len(evs)
                                 /\ q'[i] = evs[Rank(Free, i)]
                            ELSE q'[i] = FREE
         /\ \A k \in 1..Len(evs) : \E i \in Free : Rank(Free, i) = k /\ q'[i] = evs[k]
<1>1. Free \in SUBSET Slot /\ Used \in SUBSET Slot /\ Cardinality(Free) \in Nat
  BY SlotsFinite DEF Free, Used
<1>2. refused' = (refused \/ Cardinality(Free) < Len(evs))
  BY DEF Schedule, Free
<1>3. q' = [i \in Slot |-> IF i \in Free /\ Rank(Free, i) <= Len(evs)
                           THEN evs[Rank(Free, i)] ELSE q[i]]
  BY DEF Schedule, Free, Rank
<1>4. refused' = refused
  <2>1. ~(Cardinality(Free) < Len(evs))
    BY <1>1
  <2> QED BY <1>2, <2>1, Zenon
<1>5. \A i \in Used : q'[i] = q[i]
  BY <1>3 DEF Used, Free
<1>6. \A i \in Free : Rank(Free, i) \in 1..Cardinality(Free)
  BY <1>1, RankRange
<1>7. \A i \in Free : IF Rank(Free, i) <= Len(evs)
                      THEN Rank(Free, i) \in 1..Len(evs) /\ q'[i] = evs[Rank(Free, i)]
                      ELSE q'[i] = FREE
  <2> TAKE i \in Free
  <2>1. Rank(Free, i) <= Len(evs) => q'[i] = evs[Rank(Free, i)]
    BY <1>1, <1>3
  <2>2. ~(Rank(Free, i) <= Len(evs)) => q'[i] = FREE
    BY <1>1, <1>3 DEF Free
  <2>3. Rank(Free, i) <= Len(evs) => Rank(Free, i) \in 1..Len(evs)
    BY <1>1, <1>6
  <2> QED BY <2>1, <2>2, <2>3
<1>8. ASSUME NEW k \in 1..Len(evs)
      PROVE  \E i \in Free : Rank(Free, i) = k /\ q'[i] = evs[k]
  <2>1. k \in 1..Cardinality(Free) /\ k <= Len(evs)
    BY <1>1
  <2>2. PICK i \in Free : Rank(Free, i) = k
    BY <1>1, <2>1, RankOnto
  <2> QED BY <1>7, <2>1, <2>2
<1>9. q' = [i \in Slot |-> q'[i]]
  BY <1>3
<1> QED BY <1>4, <1>5, <1>7, <1>8, <1>9

---------------------------------------------------------------------------
(* The inductive invariant *)

Age     == (now - lastStrumMs) % WRAP
Rest(e) == (e.t - now) % WRAP

\* An event waits at most as long as the strum it may belong to keeps events,
\* and those due are served before time goes on.
PendingInv ==
  \A i \in Used : /\ Rest(q[i]) + Age <= Life
                  /\ Rest(q[i]) = 0 => Age = 0

\* Of the last strum there are six events at most; those of earlier ones are
\* due before another strum is allowed.
RoomInv ==
  \E A \in SUBSET Slot :
    /\ Cardinality(A) <= 6
    /\ \A i \in Used \ A : Rest(q[i]) + Age <= COOLDOWN + 1

SchedInv == TypeOK /\ PendingInv /\ RoomInv /\ OffPending /\ ~refused

\* The numbers the time arguments are about.
LEMMA SchedNumbers ==
  ASSUME TypeOK
  PROVE  /\ Age \in Nat
         /\ \A i \in Used : /\ q[i] \in Event /\ q[i].t \in Clock
                            /\ Rest(q[i]) \in Nat
<1>1. \A a, b \in Clock : (a - b) % WRAP \in Nat
  <2> TAKE a, b \in Clock
  <2>1. a \in 0..(WRAP - 1) /\ b \in 0..(WRAP - 1) /\ WRAP \in Nat
    BY Spans DEF Clock
  <2>2. /\ b <= a => (a - b) % WRAP = a - b
        /\ b > a => (a - b) % WRAP = a - b + WRAP
    BY <2>1, ModSub
  <2> QED BY <2>1, <2>2
<1>2. now \in Clock /\ lastStrumMs \in Clock
  BY DEF TypeOK
<1>3. \A i \in Used : q[i] \in Event
  BY DEF TypeOK, Used
<1>4. \A i \in Used : q[i].t \in Clock
  BY <1>3 DEF Event
<1> QED BY <1>1, <1>2, <1>3, <1>4 DEF Age, Rest

LEMMA SchedInit == Init => SchedInv
<1> SUFFICES ASSUME Init PROVE SchedInv
  OBVIOUS
<1>1. 0 \in Clock
  BY Spans DEF Clock
<1>2. TypeOK
  <2>1. 0 \in 0..127
    OBVIOUS
  <2>2. /\ [i \in Slot |-> FREE] \in [Slot -> Event \cup {FREE}]
        /\ [n \in Note |-> 0] \in [Note -> 0..127]
    BY <2>1, Zenon
  <2>3. above \in BOOLEAN /\ refused \in BOOLEAN
    BY Zenon DEF Init
  <2> QED BY <1>1, <2>2, <2>3, Zenon DEF Init, TypeOK
<1>3. Used = {}
  BY DEF Init, Used
<1>4. PendingInv
  BY <1>3 DEF PendingInv
<1>5. RoomInv
  <2>1. Cardinality({}) <= 6 /\ {} \in SUBSET Slot
    BY FS_EmptySet
  <2> QED BY <1>3, <2>1 DEF RoomInv
<1>6. OffPending
  <2>1. \A n \in Note : ~(keys[n] > 0)
    BY DEF Init
  <2>2. \A i \in Slot : q[i] = FREE
    BY DEF Init
  <2> QED BY <2>1, <2>2 DEF OffPending
<1>7. ~refused
  BY DEF Init
<1> QED BY <1>2, <1>4, <1>5, <1>6, <1>7 DEF SchedInv

---------------------------------------------------------------------------
(* A round of main() *)

\* midiSchedProcess() sends what is due, and the rest waits dt less.
LEMMA Served ==
  ASSUME TypeOK, PendingInv, NEW dt \in 0..MaxStep,
         now' = (now + dt) % WRAP, midiSchedProcess(now')
  PROVE  /\ now' \in Clock
         /\ \A i \in Used : IF dt >= Rest(q[i]) THEN Due(q[i], now') /\ q'[i] = FREE
                            ELSE /\ ~Due(q[i], now') /\ q'[i] = q[i]
                                 /\ (q[i].t - now') % WRAP = Rest(q[i]) - dt
         /\ \A i \in Slot \ Used : q'[i] = FREE
         /\ q' = [i \in Slot |-> q'[i]]
<1>1. now \in Clock /\ \A i \in Used : q[i].t \in Clock /\ Rest(q[i]) \in 0..Life
  <2>1. \A i \in Used : q[i].t \in Clock /\ Rest(q[i]) \in Nat /\ Rest(q[i]) + Age <= Life
                        /\ Age \in Nat
    BY SchedNumbers DEF PendingInv
  <2> QED BY <2>1, Spans DEF TypeOK
<1>2. now' \in Clock
  <2>1. 0 \in 0..Life /\ (now - now) % WRAP = 0
    BY <1>1, Spans, ModSub DEF Clock
  <2> QED BY <1>1, <2>1, RestLater
<1>3. \A i \in Used : IF dt >= Rest(q[i]) THEN Due(q[i], now')
                      ELSE ~Due(q[i], now') /\ (q[i].t - now') % WRAP = Rest(q[i]) - dt
  <2> TAKE i \in Used
  <2> DEFINE t == q[i].t
             r == Rest(q[i])
  <2>1. t \in Clock /\ r \in 0..Life /\ (t - now) % WRAP = r /\ dt \in Int /\ r \in Int
    BY <1>1, Spans DEF Rest
  <2> HIDE DEF t, r
  <2>2. /\ dt >= r => (now' - t) % WRAP < WRAP \div 2
        /\ dt < r => ~((now' - t) % WRAP < WRAP \div 2) /\ (t - now') % WRAP = r - dt
    BY <1>1, <2>1, RestLater
  <2>3. dt >= r <=> ~(dt < r)
    BY <2>1
  <2>4. Due(q[i], now') <=> (now' - t) % WRAP < WRAP \div 2
    BY DEF Due, t
  <2> QED BY <2>2, <2>3, <2>4, Zenon DEF t, r
<1>4. q' = [i \in Slot |-> IF q[i] # FREE /\ Due(q[i], now') THEN FREE ELSE q[i]]
  BY DEF midiSchedProcess
<1>5. \A i \in Used : q'[i] = IF Due(q[i], now') THEN FREE ELSE q[i]
  BY <1>4 DEF Used
<1>6. \A i \in Slot \ Used : q'[i] = FREE
  BY <1>4 DEF Used
<1>7. q' = [i \in Slot |-> q'[i]]
  BY <1>4
<1>8. \A i \in Used : IF dt >= Rest(q[i]) THEN Due(q[i], now') /\ q'[i] = FREE
                      ELSE /\ ~Due(q[i], now') /\ q'[i] = q[i]
                           /\ (q[i].t - now') % WRAP = Rest(q[i]) - dt
  BY <1>3, <1>5, Zenon
<1> QED BY <1>2, <1>6, <1>7, <1>8

\* Of the events of a note that are due, that in the highest slot decides.
LEMMA Sounds ==
  ASSUME TypeOK, NEW n2, midiSchedProcess(n2), NEW n \in Note
  PROVE  \/ /\ \A i \in Used : q[i].note = n => ~Due(q[i], n2)
            /\ keys'[n] = keys[n]
         \/ \E m \in Used :
              /\ Due(q[m], n2) /\ q[m].note = n
              /\ keys'[n] = IF q[m].type = "on" THEN q[m].vel ELSE 0
              /\ \A j \in Used : Due(q[j], n2) /\ q[j].note = n => j <= m
<1> DEFINE D == {i \in Slot : q[i] # FREE /\ Due(q[i], n2)}
           O == {i \in D : q[i].note = n}
<1>1. keys'[n] = IF O = {} THEN keys[n]
                 ELSE IF q[Max(O)].type = "on" THEN q[Max(O)].vel ELSE 0
  BY DEF midiSchedProcess
<1>2. O \in SUBSET Slot /\ \A i : i \in O <=> i \in Used /\ Due(q[i], n2) /\ q[i].note = n
  BY DEF Used
<1> HIDE DEF O
<1>3. CASE O = {}
  BY <1>1, <1>2, <1>3
<1>4. CASE O # {}
  <2> DEFINE m == Max(O)
  <2>1. m \in O /\ \A j \in O : j <= m
    BY <1>2, <1>4, Highest
  <2> HIDE DEF m
  <2>2. keys'[n] = IF q[m].type = "on" THEN q[m].vel ELSE 0
    BY <1>1, <1>4 DEF m
  <2>3. m \in Used /\ Due(q[m], n2) /\ q[m].note = n
    BY <1>2, <2>1, Zenon
  <2>4. \A j \in Used : Due(q[j], n2) /\ q[j].note = n => j <= m
    BY <1>2, <2>1, Zenon
  <2> QED BY <2>2, <2>3, <2>4
<1> QED BY <1>3, <1>4

LEMMA RoundStep == SchedInv /\ Round => SchedInv'
<1> SUFFICES ASSUME SchedInv, Round PROVE SchedInv'
  OBVIOUS
<1>1. TypeOK /\ PendingInv /\ RoomInv /\ OffPending /\ ~refused
  BY Zenon DEF SchedInv
<1>2. PICK dt \in 0..MaxStep : now' = (now + dt) % WRAP /\ midiSchedProcess(now')
  BY DEF Round
<1>3. lastStrumMs' = lastStrumMs /\ above' = above /\ refused' = refused
  BY Zenon DEF Round
<1>4. /\ now' \in Clock /\ q' = [i \in Slot |-> q'[i]]
      /\ \A i \in Slot \ Used : q'[i] = FREE
      /\ \A i \in Used : IF dt >= Rest(q[i]) THEN Due(q[i], now') /\ q'[i] = FREE
                         ELSE /\ ~Due(q[i], now') /\ q'[i] = q[i]
                              /\ (q[i].t - now') % WRAP = Rest(q[i]) - dt
  BY <1>1, <1>2, Served
<1>5. \A i \in Used : /\ q[i] \in Event /\ q[i] # FREE
                      /\ Rest(q[i]) \in Nat /\ Age \in Nat
                      /\ Rest(q[i]) + Age <= Life
  BY <1>1, SchedNumbers, FreeAssumption DEF PendingInv
<1>6. dt \in Nat /\ dt <= MaxStep /\ Life \in Nat /\ 2 * (Life + MaxStep) < WRAP /\ WRAP \in Nat
  BY Spans
<1>7. \A i \in Slot : q'[i] # FREE => /\ i \in Used /\ q'[i] = q[i] /\ ~Due(q[i], now')
                                      /\ dt < Rest(q[i])
                                      /\ (q[i].t - now') % WRAP = Rest(q[i]) - dt
  <2> SUFFICES ASSUME NEW i \in Slot, q'[i] # FREE
               PROVE  /\ i \in Used /\ q'[i] = q[i] /\ ~Due(q[i], now')
                      /\ dt < Rest(q[i])
                      /\ (q[i].t - now') % WRAP = Rest(q[i]) - dt
    OBVIOUS
  <2>1. i \in Used
    BY <1>4
  <2>2. ~(dt >= Rest(q[i]))
    BY <1>4, <2>1
  <2>3. dt < Rest(q[i])
    BY <1>5, <1>6, <2>1, <2>2
  <2> QED BY <1>4, <2>1, <2>2, <2>3
<1>8. Used' \subseteq Used
  BY <1>7 DEF Used
<1>9. \A i \in Used' : /\ q'[i] = q[i] /\ dt < Rest(q[i])
                       /\ (q'[i].t - now') % WRAP = Rest(q[i]) - dt
                       /\ Age' = Age + dt
  <2> TAKE i \in Used'
  <2>1. /\ i \in Used /\ q'[i] = q[i] /\ dt < Rest(q[i])
        /\ (q'[i].t - now') % WRAP = Rest(q[i]) - dt
    BY <1>7 DEF Used
  <2>2. Age \in Nat /\ Age + dt < WRAP /\ dt \in 0..(WRAP - 1)
    <3> DEFINE r == Rest(q[i])
               a == Age
    <3>1. r \in Nat /\ a \in Nat /\ r + a <= Life /\ dt < r
      BY <1>5, <2>1
    <3> HIDE DEF r, a
    <3>2. a \in Nat /\ a + dt < WRAP /\ dt \in 0..(WRAP - 1)
      BY <1>6, <3>1, Spans
    <3> QED BY <3>2 DEF a
  <2>3. (((now + dt) % WRAP) - lastStrumMs) % WRAP = Age + dt
    <3>1. now \in Clock /\ lastStrumMs \in Clock /\ (now - lastStrumMs) % WRAP = Age
      BY <1>1 DEF TypeOK, Age
    <3> HIDE DEF Age
    <3> QED BY <2>2, <3>1, AgeLater
  <2>4. Age' = Age + dt
    BY <1>2, <1>3, <2>3 DEF Age
  <2> QED BY <2>1, <2>4
<1>10. \A i \in Used' : /\ i \in Used
                        /\ ((q'[i].t - now') % WRAP) + Age' = Rest(q[i]) + Age
                        /\ (q'[i].t - now') % WRAP # 0
  <2> TAKE i \in Used'
  <2>1. /\ i \in Used /\ dt < Rest(q[i])
        /\ (q'[i].t - now') % WRAP = Rest(q[i]) - dt
        /\ Age' = Age + dt
    BY <1>8, <1>9
  <2>2. Rest(q[i]) \in Int /\ Age \in Int /\ dt \in Int
    BY <1>5, <1>6, <2>1
  <2> HIDE DEF Rest, Age
  <2> QED BY <2>1, <2>2
<1>11. PendingInv'
  <2>1. \A i \in Used' : ((q'[i].t - now') % WRAP) + Age' <= Life
    BY <1>5, <1>10
  <2>2. Life' = Life /\ \A i \in Used' : (Rest(q[i]))' = (q'[i].t - now') % WRAP
    BY DEF Life, Rest
  <2>3. \A i \in Used' : (Rest(q[i]))' + Age' <= Life /\ (Rest(q[i]))' # 0
    BY <1>10, <2>1, <2>2
  <2> QED BY <2>2, <2>3 DEF PendingInv
<1>12. RoomInv'
  <2>1. PICK A \in SUBSET Slot : /\ Cardinality(A) <= 6
                                 /\ \A i \in Used \ A : Rest(q[i]) + Age <= COOLDOWN + 1
    BY <1>1 DEF RoomInv
  <2>2. \A i \in Used' : (Rest(q[i]))' = (q'[i].t - now') % WRAP
    BY DEF Rest
  <2>3. \A i \in Used' \ A : (Rest(q[i]))' + Age' <= COOLDOWN + 1
    BY <1>10, <2>1, <2>2
  <2>4. Slot' = Slot
    BY DEF Slot
  <2> QED BY <2>1, <2>3, <2>4 DEF RoomInv
<1>13. OffPending'
  <2>1. ASSUME NEW n \in Note, keys'[n] > 0
        PROVE  \E i \in Slot : q'[i] # FREE /\ q'[i].type = "off" /\ q'[i].note = n
    <3>1. CASE /\ \A i \in Used : q[i].note = n => ~Due(q[i], now')
               /\ keys'[n] = keys[n]
      <4>1. PICK i \in Slot : q[i] # FREE /\ q[i].type = "off" /\ q[i].note = n
        BY <1>1, <2>1, <3>1 DEF OffPending
      <4>2. i \in Used /\ q'[i] = q[i]
        BY <1>4, <3>1, <4>1 DEF Used
      <4> QED BY <4>1, <4>2
    <3>2. ASSUME NEW m \in Used, Due(q[m], now'), q[m].note = n,
                 keys'[n] = IF q[m].type = "on" THEN q[m].vel ELSE 0,
                 \A j \in Used : Due(q[j], now') /\ q[j].note = n => j <= m
          PROVE  \E i \in Slot : q'[i] # FREE /\ q'[i].type = "off" /\ q'[i].note = n
      <4>1. q[m].type = "on"
        BY <2>1, <3>2
      <4>2. PICK j \in Slot : /\ j > m /\ q[j] # FREE
                              /\ q[j].type = "off" /\ q[j].note = q[m].note
        BY <1>1, <4>1 DEF OffPending, Used
      <4>3. j \in Used /\ ~(j <= m)
        BY <4>2, Spans DEF Used, Slot
      <4>4. q'[j] = q[j]
        BY <1>4, <3>2, <4>2, <4>3, Zenon
      <4> QED BY <3>2, <4>2, <4>4
    <3> QED BY <1>1, <1>2, <3>1, <3>2, Sounds
  <2>2. ASSUME NEW i \in Slot, q'[i] # FREE, q'[i].type = "on"
        PROVE  \E j \in Slot : /\ j > i /\ q'[j] # FREE
                               /\ q'[j].type = "off" /\ q'[j].note = q'[i].note
                               /\ q'[j].t = (q'[i].t + NOTE_LEN_MS) % WRAP
    <3>1. i \in Used /\ q'[i] = q[i] /\ dt < Rest(q[i]) /\ q[i] # FREE
      BY <1>7, <2>2 DEF Used
    <3>2. PICK j \in Slot : /\ j > i /\ q[j] # FREE
                            /\ q[j].type = "off" /\ q[j].note = q[i].note
                            /\ q[j].t = (q[i].t + NOTE_LEN_MS) % WRAP
      BY <1>1, <2>2, <3>1 DEF OffPending
    <3>3. j \in Used
      BY <3>2 DEF Used
    <3>4. Rest(q[j]) = Rest(q[i]) + NOTE_LEN_MS
      <4> DEFINE a == Rest(q[i])
      <4>1. /\ q[i].t \in Clock /\ now \in Clock /\ a \in Nat
            /\ (q[i].t - now) % WRAP = a
        BY <1>1, <3>1, SchedNumbers DEF TypeOK, Rest
      <4>2. NOTE_LEN_MS \in 0..(WRAP - 1) /\ a + NOTE_LEN_MS < WRAP
        <5>1. a <= Life /\ NOTE_LEN_MS <= Life /\ NOTE_LEN_MS \in Nat
          BY <1>5, <3>1, <4>1, Spans DEF Life
        <5> HIDE DEF a
        <5>2. a \in Nat /\ 2 * Life < WRAP /\ WRAP \in Nat /\ Life \in Nat
          BY <4>1, Spans
        <5> QED BY <5>1, <5>2
      <4> HIDE DEF a
      <4>3. (((q[i].t + NOTE_LEN_MS) % WRAP) - now) % WRAP = a + NOTE_LEN_MS
        BY <4>1, <4>2, AgeLater
      <4> QED BY <3>2, <4>3 DEF a, Rest
    <3>5. ~(dt >= Rest(q[j]))
      BY <1>5, <1>6, <3>1, <3>3, <3>4, Spans
    <3>6. q'[j] = q[j]
      BY <1>4, <3>3, <3>5
    <3> QED BY <3>1, <3>2, <3>6
  <2>3. Slot' = Slot /\ Note' = Note
    BY DEF Slot, Note, buildTriad, buttonChordMap
  <2> QED BY <2>1, <2>2, <2>3 DEF OffPending
<1>14. TypeOK'
  <2>1. \A i \in Slot : q'[i] \in Event \cup {FREE}
    BY <1>5, <1>7
  <2>2. q' \in [Slot -> Event \cup {FREE}]
    BY <1>4, <2>1
  <2>3. \A n \in Note : keys'[n] \in 0..127
    <3> TAKE n \in Note
    <3>1. keys[n] \in 0..127
      BY <1>1 DEF TypeOK
    <3>2. \A m \in Used : q[m].vel \in 0..127
      BY <1>5 DEF Event
    <3> QED BY <1>1, <1>2, <3>1, <3>2, Sounds
  <2>4. keys' = [n \in Note |-> keys'[n]]
    BY <1>2 DEF midiSchedProcess
  <2>5. keys' \in [Note -> 0..127]
    BY <2>3, <2>4
  <2>6. lastStrumMs' \in Clock /\ above' \in BOOLEAN /\ refused' \in BOOLEAN
    BY <1>1, <1>3, Zenon DEF TypeOK
  <2>7. Slot' = Slot /\ Note' = Note /\ Clock' = Clock /\ Event' = Event
    BY DEF Slot, Note, Clock, Event, buildTriad, buttonChordMap
  <2> QED BY <1>4, <2>2, <2>5, <2>6, <2>7, Zenon DEF TypeOK
<1> QED BY <1>1, <1>3, <1>11, <1>12, <1>13, <1>14, Zenon DEF SchedInv

---------------------------------------------------------------------------
(* A strum *)

\* A time a ahead, and b more.
LEMMA AheadTwice ==
  ASSUME NEW n \in Clock, NEW a \in Nat, NEW b \in Nat, a + b < WRAP
  PROVE  (n + a + b) % WRAP = (((n + a) % WRAP) + b) % WRAP
<1> DEFINE t == (n + a) % WRAP
<1>1. /\ WRAP \in Nat /\ n \in 0..(WRAP - 1) /\ a \in 0..(WRAP - 1)
      /\ b \in 0..(WRAP - 1) /\ a + b \in 0..(WRAP - 1)
  BY Spans DEF Clock
<1>2. /\ n + a < WRAP => t = n + a
      /\ n + a >= WRAP => t = n + a - WRAP
  BY <1>1, ModAdd
<1>3. /\ n + (a + b) < WRAP => (n + (a + b)) % WRAP = n + (a + b)
      /\ n + (a + b) >= WRAP => (n + (a + b)) % WRAP = n + (a + b) - WRAP
  BY <1>1, ModAdd
<1> HIDE DEF t
<1>4. t \in 0..(WRAP - 1)
  BY <1>1, <1>2
<1>5. /\ t + b < WRAP => (t + b) % WRAP = t + b
      /\ t + b >= WRAP => (t + b) % WRAP = t + b - WRAP
  BY <1>1, <1>4, ModAdd
<1>6. n + a + b = n + (a + b)
  BY <1>1
<1>7. (n + (a + b)) % WRAP = (t + b) % WRAP
  BY <1>1, <1>2, <1>3, <1>4, <1>5
<1> QED BY <1>6, <1>7 DEF t

\* The six events of a strum, in the order in which they are put in the queue.
StrumEvents(chord, velocity) ==
  LET notes == buildTriad(chord)
  IN  <<OnEvent(notes[1], 1, velocity), OffEvent(notes[1], 1),
        OnEvent(notes[2], 2, velocity), OffEvent(notes[2], 2),
        OnEvent(notes[3], 3, velocity), OffEvent(notes[3], 3)>>

LEMMA OnFacts ==
  ASSUME TypeOK, NEW n \in Note, NEW i \in 1..3, NEW v \in 0..127
  PROVE  /\ OnEvent(n, i, v) \in Event
         /\ Rest(OnEvent(n, i, v)) <= Life
         /\ OnEvent(n, i, v).note = n
<1>1. (i - 1) * STRUM_GAP_MS \in 0..Life
  <2>1. i = 1 \/ i = 2 \/ i = 3
    OBVIOUS
  <2> QED BY <2>1, Spans DEF Life
<1>2. now \in Clock
  BY DEF TypeOK
<1> DEFINE off == (i - 1) * STRUM_GAP_MS
<1> HIDE DEF off
<1>3. (now + off) % WRAP \in Clock /\ (((now + off) % WRAP) - now) % WRAP = off
  BY <1>1, <1>2, Ahead DEF off
<1>4. off <= Life
  BY <1>1, Spans DEF off
<1>5. /\ OnEvent(n, i, v) = [t |-> (now + off) % WRAP, type |-> "on", note |-> n, vel |-> v]
  BY DEF OnEvent, off
<1>6. OnEvent(n, i, v) \in Event
  BY <1>3, <1>5 DEF Event
<1> QED BY <1>3, <1>4, <1>5, <1>6 DEF Rest

LEMMA OffFacts ==
  ASSUME TypeOK, NEW n \in Note, NEW i \in 1..3, NEW v
  PROVE  /\ OffEvent(n, i) \in Event
         /\ Rest(OffEvent(n, i)) <= Life
         /\ OffEvent(n, i).type = "off" /\ OffEvent(n, i).note = n
         /\ OffEvent(n, i).t = (OnEvent(n, i, v).t + NOTE_LEN_MS) % WRAP
<1>1. /\ (i - 1) * STRUM_GAP_MS \in Nat
      /\ (i - 1) * STRUM_GAP_MS + NOTE_LEN_MS \in 0..Life
  <2>1. i = 1 \/ i = 2 \/ i = 3
    OBVIOUS
  <2> QED BY <2>1, Spans DEF Life
<1>2. now \in Clock
  BY DEF TypeOK
<1> DEFINE off == (i - 1) * STRUM_GAP_MS
<1>3. off \in Nat /\ off + NOTE_LEN_MS \in 0..Life
  BY <1>1
<1>4. OffEvent(n, i) = [t |-> (now + off + NOTE_LEN_MS) % WRAP, type |-> "off",
                        note |-> n, vel |-> 64]
  BY DEF OffEvent
<1>5. OnEvent(n, i, v).t = (now + off) % WRAP
  BY DEF OnEvent
<1> HIDE DEF off
<1> DEFINE d == off + NOTE_LEN_MS
<1>6. (now + d) % WRAP \in Clock /\ (((now + d) % WRAP) - now) % WRAP = d
  <2> HIDE DEF d
  <2> QED BY <1>2, <1>3, Ahead DEF d
<1>7. d <= Life /\ d < WRAP
  BY <1>3, Spans
<1>8. now + off + NOTE_LEN_MS = now + d
  BY <1>2, <1>3, Spans DEF Clock
<1>9. (now + off + NOTE_LEN_MS) % WRAP = (((now + off) % WRAP) + NOTE_LEN_MS) % WRAP
  BY <1>2, <1>3, <1>7, Spans, AheadTwice
<1>10. OffEvent(n, i) \in Event
  <2>1. 64 \in 0..127
    OBVIOUS
  <2> QED BY <1>4, <1>6, <1>8, <2>1 DEF Event
<1>11. Rest(OffEvent(n, i)) <= Life
  BY <1>4, <1>6, <1>7, <1>8 DEF Rest
<1> QED BY <1>4, <1>5, <1>9, <1>10, <1>11

LEMMA ChordNotes ==
  ASSUME NEW b \in Botones, buttonChordMap[b].tipo # CHORD_NONE
  PROVE  \A i \in 1..3 : buildTriad(buttonChordMap[b])[i] \in Note
<1>1. b \in 0..15 /\ ~(b < 2)
  <2>1. b \in 0..15
    BY StrumSchedulerAssumption
  <2>2. b < 2 => buttonChordMap[b].tipo = CHORD_NONE
    BY <2>1 DEF buttonChordMap
  <2> QED BY <2>1, <2>2
<1>2. b \in Botones \ {0, 1}
  BY <1>1
<1> QED BY <1>2 DEF Note

LEMMA Velocities ==
  ASSUME NEW gz \in GZ
  PROVE  velocityFromGz(gz) \in 0..127
<1> DEFINE a == IF gz < 0 THEN -gz ELSE gz
<1>1. a \in Nat
  BY StrumSchedulerAssumption
<1> HIDE DEF a
<1>2. a \div 4 \in Nat
  BY <1>1
<1> DEFINE v == 40 + (a \div 4)
<1>3. velocityFromGz(gz) = CASE v < 20 -> 20 [] v > 127 -> 127 [] OTHER -> v
  BY DEF velocityFromGz, a
<1>4. v \in Nat
  BY <1>2
<1> HIDE DEF v
<1>5. velocityFromGz(gz) = IF v < 20 THEN 20 ELSE IF v > 127 THEN 127 ELSE v
  BY <1>3, <1>4
<1> QED BY <1>4, <1>5

\* Each NOTE ON is followed by its NOTE OFF.
PairsOnOff(evs) ==
  /\ Len(evs) = 6
  /\ \A k \in 1..6 : evs[k] \in Event /\ Rest(evs[k]) <= Life
  /\ \A k \in 1..6 : evs[k].type = "on" =>
       /\ k + 1 \in 1..6
       /\ evs[k + 1].type = "off" /\ evs[k + 1].note = evs[k].note
       /\ evs[k + 1].t = (evs[k].t + NOTE_LEN_MS) % WRAP

LEMMA StrumEventFacts ==
  ASSUME TypeOK, NEW b \in Botones, buttonChordMap[b].tipo # CHORD_NONE, NEW v \in 0..127
  PROVE  PairsOnOff(StrumEvents(buttonChordMap[b], v))
<1> DEFINE evs == StrumEvents(buttonChordMap[b], v)
           notes == buildTriad(buttonChordMap[b])
<1>1. notes[1] \in Note /\ notes[2] \in Note /\ notes[3] \in Note
  BY ChordNotes
<1>2. evs = <<OnEvent(notes[1], 1, v), OffEvent(notes[1], 1),
              OnEvent(notes[2], 2, v), OffEvent(notes[2], 2),
              OnEvent(notes[3], 3, v), OffEvent(notes[3], 3)>>
  BY DEF StrumEvents
<1> HIDE DEF notes, evs
<1>3. Len(evs) = 6
  BY <1>2
<1>4. /\ evs[1] = OnEvent(notes[1], 1, v) /\ evs[2] = OffEvent(notes[1], 1)
      /\ evs[3] = OnEvent(notes[2], 2, v) /\ evs[4] = OffEvent(notes[2], 2)
      /\ evs[5] = OnEvent(notes[3], 3, v) /\ evs[6] = OffEvent(notes[3], 3)
  BY <1>2
<1>5. \A k \in 1..6 : k = 1 \/ k = 2 \/ k = 3 \/ k = 4 \/ k = 5 \/ k = 6
  OBVIOUS
<1>6. ASSUME NEW n \in Note, NEW i \in 1..3
      PROVE  /\ OnEvent(n, i, v) \in Event /\ Rest(OnEvent(n, i, v)) <= Life
             /\ OnEvent(n, i, v).note = n
             /\ OffEvent(n, i) \in Event /\ Rest(OffEvent(n, i)) <= Life
             /\ OffEvent(n, i).type = "off" /\ OffEvent(n, i).note = n
             /\ OffEvent(n, i).t = (OnEvent(n, i, v).t + NOTE_LEN_MS) % WRAP
  <2>1. /\ OnEvent(n, i, v) \in Event /\ Rest(OnEvent(n, i, v)) <= Life
        /\ OnEvent(n, i, v).note = n
    BY OnFacts
  <2>2. /\ OffEvent(n, i) \in Event /\ Rest(OffEvent(n, i)) <= Life
        /\ OffEvent(n, i).type = "off" /\ OffEvent(n, i).note = n
        /\ OffEvent(n, i).t = (OnEvent(n, i, v).t + NOTE_LEN_MS) % WRAP
    BY OffFacts
  <2> QED BY <2>1, <2>2
<1>7. 1 \in 1..3 /\ 2 \in 1..3 /\ 3 \in 1..3
  OBVIOUS
<1>8. /\ evs[1] \in Event /\ Rest(evs[1]) <= Life /\ evs[1].note = notes[1]
      /\ evs[2] \in Event /\ Rest(evs[2]) <= Life /\ evs[2].note = notes[1]
      /\ evs[2].type = "off" /\ evs[2].t = (evs[1].t + NOTE_LEN_MS) % WRAP
  <2> DEFINE on == OnEvent(notes[1], 1, v)
             off == OffEvent(notes[1], 1)
  <2>1. /\ on \in Event /\ Rest(on) <= Life /\ on.note = notes[1]
        /\ off \in Event /\ Rest(off) <= Life /\ off.type = "off" /\ off.note = notes[1]
        /\ off.t = (on.t + NOTE_LEN_MS) % WRAP
    BY <1>1, <1>6, <1>7
  <2>2. evs[1] = on /\ evs[2] = off
    BY <1>4
  <2> HIDE DEF on, off
  <2> QED BY <2>1, <2>2
<1>9. /\ evs[3] \in Event /\ Rest(evs[3]) <= Life /\ evs[3].note = notes[2]
      /\ evs[4] \in Event /\ Rest(evs[4]) <= Life /\ evs[4].note = notes[2]
      /\ evs[4].type = "off" /\ evs[4].t = (evs[3].t + NOTE_LEN_MS) % WRAP
  <2> DEFINE on == OnEvent(notes[2], 2, v)
             off == OffEvent(notes[2], 2)
  <2>1. /\ on \in Event /\ Rest(on) <= Life /\ on.note = notes[2]
        /\ off \in Event /\ Rest(off) <= Life /\ off.type = "off" /\ off.note = notes[2]
        /\ off.t = (on.t + NOTE_LEN_MS) % WRAP
    BY <1>1, <1>6, <1>7
  <2>2. evs[3] = on /\ evs[4] = off
    BY <1>4
  <2> HIDE DEF on, off
  <2> QED BY <2>1, <2>2
<1>10. /\ evs[5] \in Event /\ Rest(evs[5]) <= Life /\ evs[5].note = notes[3]
       /\ evs[6] \in Event /\ Rest(evs[6]) <= Life /\ evs[6].note = notes[3]
       /\ evs[6].type = "off" /\ evs[6].t = (evs[5].t + NOTE_LEN_MS) % WRAP
  <2> DEFINE on == OnEvent(notes[3], 3, v)
             off == OffEvent(notes[3], 3)
  <2>1. /\ on \in Event /\ Rest(on) <= Life /\ on.note = notes[3]
        /\ off \in Event /\ Rest(off) <= Life /\ off.type = "off" /\ off.note = notes[3]
        /\ off.t = (on.t + NOTE_LEN_MS) % WRAP
    BY <1>1, <1>6, <1>7
  <2>2. evs[5] = on /\ evs[6] = off
    BY <1>4
  <2> HIDE DEF on, off
  <2> QED BY <2>1, <2>2
<1>11. \A k \in 1..6 : evs[k] \in Event /\ Rest(evs[k]) <= Life
  BY <1>5, <1>8, <1>9, <1>10, Zenon
<1>12. ASSUME NEW k \in 1..6, evs[k].type = "on"
       PROVE  /\ k + 1 \in 1..6
              /\ evs[k + 1].type = "off" /\ evs[k + 1].note = evs[k].note
              /\ evs[k + 1].t = (evs[k].t + NOTE_LEN_MS) % WRAP
  <2>1. k = 1 \/ k = 3 \/ k = 5
    BY <1>5, <1>8, <1>9, <1>10, <1>12
  <2>2. CASE k = 1
    BY <1>8, <2>2
  <2>3. CASE k = 3
    BY <1>9, <2>3
  <2>4. CASE k = 5
    BY <1>10, <2>4
  <2> QED BY <2>1, <2>2, <2>3, <2>4
<1>13. PairsOnOff(evs)
  BY <1>3, <1>11, <1>12 DEF PairsOnOff
<1> QED BY <1>13 DEF evs

\* When a strum is allowed, only the events of the last one are in the queue.
LEMMA Room ==
  ASSUME TypeOK, PendingInv, RoomInv, Age > COOLDOWN
  PROVE  /\ Cardinality(Free) \in Nat /\ 6 <= Cardinality(Free)
         /\ \A i \in Used : Rest(q[i]) <= COOLDOWN + 1
<1>1. PICK A \in SUBSET Slot : /\ Cardinality(A) <= 6
                               /\ \A i \in Used \ A : Rest(q[i]) + Age <= COOLDOWN + 1
  BY DEF RoomInv
<1>2. \A i \in Used : /\ Rest(q[i]) \in Nat /\ Age \in Nat
                      /\ Rest(q[i]) + Age <= Life
                      /\ Rest(q[i]) = 0 => Age = 0
  BY SchedNumbers DEF PendingInv
<1>3. Used \subseteq A
  <2> SUFFICES ASSUME NEW i \in Used, i \notin A PROVE FALSE
    OBVIOUS
  <2> DEFINE r == Rest(q[i])
             a == Age
  <2>1. /\ r \in Nat /\ a \in Nat /\ (r = 0 => a = 0) /\ r + a <= COOLDOWN + 1
        /\ a > COOLDOWN
    BY <1>1, <1>2
  <2> HIDE DEF r, a
  <2> QED BY <2>1, Spans
<1>4. \A i \in Used : Rest(q[i]) <= COOLDOWN + 1
  <2> TAKE i \in Used
  <2> DEFINE r == Rest(q[i])
             a == Age
  <2>1. r \in Nat /\ a \in Nat /\ r + a <= Life /\ a > COOLDOWN
    BY <1>2
  <2> HIDE DEF r, a
  <2>2. r <= COOLDOWN + 1
    BY <2>1, Spans
  <2> QED BY <2>2 DEF r
<1>5. /\ Used \in SUBSET A /\ Used \in SUBSET Slot
      /\ IsFiniteSet(A) /\ IsFiniteSet(Slot)
      /\ Cardinality(A) \in Nat /\ Cardinality(Used) \in Nat
  <2>1. Used \in SUBSET Slot
    BY DEF Used
  <2> QED BY <1>3, <2>1, SlotsFinite
<1>6. Cardinality(Used) <= Cardinality(A)
  BY <1>5, FS_Subset
<1>7. Free = Slot \ Used /\ Slot \cap Used = Used
  BY DEF Free, Used
<1>8. Cardinality(Free) = Cardinality(Slot) - Cardinality(Used)
  <2>1. Cardinality(Slot \ Used) = Cardinality(Slot) - Cardinality(Slot \cap Used)
    <3>1. IsFiniteSet(Slot)
      BY <1>5
    <3> QED BY <3>1, FS_Difference
  <2> QED BY <1>7, <2>1, Zenon
<1>9. Cardinality(Slot) = QSIZE
  BY Spans, FS_Interval DEF Slot
<1>10. 6 <= Cardinality(Free) /\ Cardinality(Free) \in Nat
  BY <1>1, <1>5, <1>6, <1>8, <1>9, Spans
<1> QED BY <1>4, <1>10

LEMMA StrumStep ==
  ASSUME SchedInv, NEW b \in Botones, buttonChordMap[b].tipo # CHORD_NONE, NEW gz \in GZ,
         CooldownOver, strumChord(buttonChordMap[b], velocityFromGz(gz)),
         lastStrumMs' = now, now' = now, keys' = keys, above' \in BOOLEAN
  PROVE  SchedInv'
<1> DEFINE v == velocityFromGz(gz)
           evs == StrumEvents(buttonChordMap[b], v)
<1>1. TypeOK /\ PendingInv /\ RoomInv /\ OffPending /\ ~refused
  BY Zenon DEF SchedInv
<1>2. v \in 0..127
  BY Velocities
<1>3. Schedule(evs)
  BY DEF strumChord, StrumEvents
<1> HIDE DEF evs
<1>4. /\ Len(evs) = 6
      /\ \A k \in 1..6 : evs[k] \in Event /\ Rest(evs[k]) <= Life
      /\ \A k \in 1..6 : evs[k].type = "on" =>
           /\ k + 1 \in 1..6
           /\ evs[k + 1].type = "off" /\ evs[k + 1].note = evs[k].note
           /\ evs[k + 1].t = (evs[k].t + NOTE_LEN_MS) % WRAP
  <2>1. PairsOnOff(StrumEvents(buttonChordMap[b], v))
    BY <1>1, <1>2, StrumEventFacts
  <2>2. PairsOnOff(evs)
    BY <2>1 DEF evs
  <2> QED BY <2>2 DEF PairsOnOff
<1> HIDE DEF v
<1>5. /\ Cardinality(Free) \in Nat /\ 6 <= Cardinality(Free)
      /\ \A i \in Used : Rest(q[i]) <= COOLDOWN + 1
  <2>1. Age > COOLDOWN
    BY DEF CooldownOver, Age
  <2> QED BY <1>1, <2>1, Room
<1>6. /\ refused' = refused /\ q' = [i \in Slot |-> q'[i]]
      /\ \A i \in Used : q'[i] = q[i]
      /\ \A i \in Free : IF Rank(Free, i) <= 6
                         THEN Rank(Free, i) \in 1..6 /\ q'[i] = evs[Rank(Free, i)]
                         ELSE q'[i] = FREE
      /\ \A k \in 1..6 : \E i \in Free : Rank(Free, i) = k /\ q'[i] = evs[k]
  <2>1. Len(evs) \in Nat /\ Len(evs) <= Cardinality(Free) /\ refused \in BOOLEAN
    BY <1>1, <1>4, <1>5 DEF TypeOK
  <2>2. /\ refused' = refused /\ q' = [i \in Slot |-> q'[i]]
        /\ \A i \in Used : q'[i] = q[i]
        /\ \A i \in Free : IF Rank(Free, i) <= Len(evs)
                           THEN Rank(Free, i) \in 1..Len(evs) /\ q'[i] = evs[Rank(Free, i)]
                           ELSE q'[i] = FREE
        /\ \A k \in 1..Len(evs) : \E i \in Free : Rank(Free, i) = k /\ q'[i] = evs[k]
    BY <1>3, <2>1, Scheduled
  <2> QED BY <1>4, <2>2
<1> DEFINE New == {i \in Free : Rank(Free, i) <= 6}
<1>7. \A i \in Slot : i \in Used \/ i \in Free
  BY DEF Used, Free
<1>8. \A i \in Used : q[i] \in Event /\ q[i] # FREE /\ Rest(q[i]) \in Nat /\ Age \in Nat
                      /\ Rest(q[i]) + Age <= Life
  BY <1>1, SchedNumbers, FreeAssumption DEF PendingInv
<1>9. \A k \in 1..6 : evs[k] # FREE
  BY <1>4, FreeAssumption
<1>10. \A i \in Slot : q'[i] # FREE =>
         \/ i \in Used /\ q'[i] = q[i]
         \/ i \in New /\ \E k \in 1..6 : Rank(Free, i) = k /\ q'[i] = evs[k]
  <2> TAKE i \in Slot
  <2>1. CASE i \in Used
    BY <1>6, <2>1
  <2>2. CASE i \in Free
    BY <1>6, <2>2
  <2> QED BY <1>7, <2>1, <2>2
<1> HIDE DEF New
<1>11. Age' = 0
  <2>1. now \in 0..(WRAP - 1) /\ WRAP \in Nat
    BY <1>1, Spans DEF TypeOK, Clock
  <2>2. (now - now) % WRAP = 0
    BY <2>1, ModSub
  <2> QED BY <2>2 DEF Age
<1>12. \A i \in Slot : (Rest(q[i]))' = Rest(q'[i])
  BY DEF Rest
<1>13. \A i \in Used' : i \in Slot /\ q'[i] # FREE /\ Rest(q'[i]) <= Life
  <2> TAKE i \in Used'
  <2>1. i \in Slot /\ q'[i] # FREE
    BY DEF Used, Slot
  <2>2. CASE i \in Used /\ q'[i] = q[i]
    <3> DEFINE r == Rest(q[i])
               a == Age
    <3>1. r \in Nat /\ a \in Nat /\ r + a <= Life /\ Life \in Nat
      BY <1>8, <2>2, Spans
    <3> HIDE DEF r, a
    <3>2. r <= Life
      BY <3>1
    <3> QED BY <2>1, <2>2, <3>2 DEF r
  <2>3. CASE \E k \in 1..6 : q'[i] = evs[k]
    BY <1>4, <2>1, <2>3
  <2> QED BY <1>10, <2>1, <2>2, <2>3
<1>14. \A i \in Used' : Rest(q'[i]) \in Int
  <2>1. \A e \in Event : Rest(e) \in Int
    <3>1. \A e \in Event : e.t \in Int
      BY Spans DEF Event, Clock
    <3>2. now \in Int /\ WRAP \in Nat /\ WRAP > 0
      BY <1>1, Spans DEF TypeOK, Clock
    <3> QED BY <3>1, <3>2 DEF Rest
  <2> QED BY <1>4, <1>8, <1>10, <1>13, <2>1
<1>15. PendingInv'
  <2>1. Life' = Life
    BY DEF Life
  <2>2. \A i \in Used' : (Rest(q[i]))' + Age' <= Life'
    <3> TAKE i \in Used'
    <3> DEFINE r == Rest(q'[i])
    <3>1. r \in Int /\ r <= Life /\ (Rest(q[i]))' = r
      BY <1>12, <1>13, <1>14
    <3> HIDE DEF r
    <3> QED BY <1>11, <2>1, <3>1, Spans
  <2> QED BY <1>11, <2>2 DEF PendingInv
<1>16. RoomInv'
  <2>1. Free \in SUBSET Slot
    BY DEF Free
  <2>2. Cardinality(New) <= 6 /\ New \in SUBSET Slot
    BY <2>1, RankCount DEF New
  <2>3. \A i \in Used' \ New : (Rest(q[i]))' + Age' <= COOLDOWN + 1
    <3> TAKE i \in Used' \ New
    <3>1. i \in Used /\ q'[i] = q[i]
      BY <1>10, <1>13
    <3> DEFINE r == Rest(q[i])
    <3>2. r \in Nat /\ r <= COOLDOWN + 1 /\ (Rest(q[i]))' = r
      BY <1>5, <1>8, <1>12, <1>13, <3>1
    <3> HIDE DEF r
    <3> QED BY <1>11, <3>2, Spans
  <2>4. Slot' = Slot
    BY DEF Slot
  <2> QED BY <2>2, <2>3, <2>4 DEF RoomInv
<1>17. OffPending'
  <2>1. ASSUME NEW n \in Note, keys'[n] > 0
        PROVE  \E i \in Slot : q'[i] # FREE /\ q'[i].type = "off" /\ q'[i].note = n
    <3>1. PICK i \in Slot : q[i] # FREE /\ q[i].type = "off" /\ q[i].note = n
      BY <1>1, <2>1 DEF OffPending
    <3>2. q'[i] = q[i]
      BY <1>6, <3>1 DEF Used
    <3> QED BY <3>1, <3>2
  <2>2. ASSUME NEW i \in Slot, q'[i] # FREE, q'[i].type = "on"
        PROVE  \E j \in Slot : /\ j > i /\ q'[j] # FREE
                               /\ q'[j].type = "off" /\ q'[j].note = q'[i].note
                               /\ q'[j].t = (q'[i].t + NOTE_LEN_MS) % WRAP
    <3>1. CASE i \in Used /\ q'[i] = q[i]
      <4>1. PICK j \in Slot : /\ j > i /\ q[j] # FREE
                              /\ q[j].type = "off" /\ q[j].note = q[i].note
                              /\ q[j].t = (q[i].t + NOTE_LEN_MS) % WRAP
        BY <1>1, <2>2, <3>1 DEF OffPending
      <4>2. q'[j] = q[j]
        BY <1>6, <4>1 DEF Used
      <4> QED BY <3>1, <4>1, <4>2
    <3>2. ASSUME i \in New, NEW k \in 1..6, Rank(Free, i) = k, q'[i] = evs[k]
          PROVE  \E j \in Slot : /\ j > i /\ q'[j] # FREE
                                 /\ q'[j].type = "off" /\ q'[j].note = q'[i].note
                                 /\ q'[j].t = (q'[i].t + NOTE_LEN_MS) % WRAP
      <4>1. /\ k + 1 \in 1..6
            /\ evs[k + 1].type = "off" /\ evs[k + 1].note = evs[k].note
            /\ evs[k + 1].t = (evs[k].t + NOTE_LEN_MS) % WRAP
        BY <1>4, <2>2, <3>2
      <4>2. PICK j \in Free : Rank(Free, j) = k + 1 /\ q'[j] = evs[k + 1]
        BY <1>6, <4>1
      <4>3. i \in Free /\ Free \in SUBSET Slot
        BY <3>2 DEF New, Free
      <4>4. Rank(Free, i) < Rank(Free, j)
        BY <3>2, <4>2
      <4>5. i < j
        BY <4>3, <4>4, RankOrder
      <4>6. j > i /\ j \in Slot
        BY <4>3, <4>5
      <4> QED BY <1>9, <3>2, <4>1, <4>2, <4>6
    <3> QED BY <1>10, <2>2, <3>1, <3>2
  <2>3. Slot' = Slot /\ Note' = Note
    BY DEF Slot, Note, buildTriad, buttonChordMap
  <2> QED BY <2>1, <2>2, <2>3 DEF OffPending
<1>18. TypeOK'
  <2>1. \A i \in Slot : q'[i] \in Event \cup {FREE}
    BY <1>4, <1>8, <1>10
  <2>2. q' \in [Slot -> Event \cup {FREE}]
    BY <1>6, <2>1
  <2>3. Slot' = Slot /\ Note' = Note /\ Clock' = Clock /\ Event' = Event
    BY DEF Slot, Note, Clock, Event, buildTriad, buttonChordMap
  <2>4. now' \in Clock /\ lastStrumMs' \in Clock /\ keys' \in [Note -> 0..127]
    BY <1>1 DEF TypeOK
  <2>5. refused' \in BOOLEAN
    BY <1>1, <1>6, Zenon DEF TypeOK
  <2> QED BY <2>2, <2>3, <2>4, <2>5, Zenon DEF TypeOK
<1> QED BY <1>1, <1>6, <1>15, <1>16, <1>17, <1>18, Zenon DEF SchedInv

\* Nothing but above changes.
LEMMA QuietStep ==
  ASSUME SchedInv, UNCHANGED <<now, q, lastStrumMs, keys, refused>>, above' \in BOOLEAN
  PROVE  SchedInv'
<1>1. TypeOK /\ PendingInv /\ RoomInv /\ OffPending /\ ~refused
  BY Zenon DEF SchedInv
<1>2. /\ Used' = Used /\ Life' = Life /\ Age' = Age /\ Slot' = Slot
      /\ Note' = Note /\ Clock' = Clock /\ Event' = Event
  BY DEF Used, Life, Age, Slot, Note, Clock, Event, buildTriad, buttonChordMap
<1>3. \A i : (Rest(q[i]))' = Rest(q[i])
  BY DEF Rest
<1>4. PendingInv'
  BY <1>1, <1>2, <1>3 DEF PendingInv
<1>5. RoomInv'
  BY <1>1, <1>2, <1>3 DEF RoomInv
<1>6. OffPending'
  BY <1>1, <1>2 DEF OffPending
<1>7. TypeOK'
  BY <1>1, <1>2, Zenon DEF TypeOK
<1>8. ~refused'
  BY <1>1, Zenon
<1> QED BY <1>4, <1>5, <1>6, <1>7, <1>8, Zenon DEF SchedInv

LEMMA SchedStep == SchedInv /\ [Next]_vars => SchedInv'
<1> SUFFICES ASSUME SchedInv, [Next]_vars PROVE SchedInv'
  OBVIOUS
<1>1. CASE Round
  BY <1>1, RoundStep
<1>2. CASE Packet
  <2>1. PICK b \in Botones, gz \in GZ :
          /\ buttonChordMap[b].tipo # CHORD_NONE
          /\ above' = (gz > TH)
          /\ \/ /\ detectStrum(gz)
                /\ lastStrumMs' = now
                /\ strumChord(buttonChordMap[b], velocityFromGz(gz))
             \/ /\ ~detectStrum(gz)
                /\ UNCHANGED <<lastStrumMs, q, refused>>
          /\ UNCHANGED <<now, keys>>
    BY <1>2, Zenon DEF Packet
  <2>2. above' \in BOOLEAN
    <3>1. (gz > TH) \in BOOLEAN
      BY StrumSchedulerAssumption
    <3> QED BY <2>1, <3>1, Zenon
  <2>3. CASE detectStrum(gz) /\ lastStrumMs' = now
             /\ strumChord(buttonChordMap[b], velocityFromGz(gz))
    <3>1. CooldownOver
      BY <2>3 DEF detectStrum
    <3> QED BY <2>1, <2>2, <2>3, <3>1, StrumStep
  <2>4. CASE UNCHANGED <<lastStrumMs, q, refused>>
    BY <2>1, <2>2, <2>4, QuietStep
  <2> QED BY <2>1, <2>3, <2>4, Zenon
<1>3. CASE UNCHANGED vars
  <2>1. above' \in BOOLEAN /\ UNCHANGED <<now, q, lastStrumMs, keys, refused>>
    BY <1>3 DEF SchedInv, TypeOK, vars
  <2> QED BY <2>1, QuietStep
<1> QED BY <1>1, <1>2, <1>3 DEF Next

---------------------------------------------------------------------------
(* Theorems *)

\* Events, velocities and the tick stay in their ranges, for any chords, any
\* gz and any spacing of the rounds.
THEOREM TypeCorrect == Spec => []TypeOK
<1>1. SchedInv => TypeOK
  BY DEF SchedInv
<1> QED BY <1>1, SchedInit, SchedStep, PTL DEF Spec

\* The queue never refuses an event of strumChord(): two pauses are as long as
\* a strum keeps its events, so that those of two strums meet at most.
THEOREM NeverRefused == Spec => []NothingRefused
<1>1. SchedInv => NothingRefused
  BY DEF SchedInv, NothingRefused
<1> QED BY <1>1, SchedInit, SchedStep, PTL DEF Spec

\* A note that sounds, or waits to, has its NOTE OFF in a slot that is served
\* after it, for any reuse of the slots and across the wrap of the tick.
THEOREM OffIsPending == Spec => []OffPending
<1>1. SchedInv => OffPending
  BY DEF SchedInv
<1> QED BY <1>1, SchedInit, SchedStep, PTL DEF Spec

\* That NOTE OFF is due within the time a strum lasts, for any spacing of the
\* rounds and wherever the tick wraps: the safety half of NotesEnd.
THEOREM OffIsInTime == Spec => []OffInTime
<1>1. SchedInv => OffInTime
  <2> SUFFICES ASSUME TypeOK, PendingInv, OffPending, NEW n \in Note, keys[n] > 0
               PROVE  \E i \in Slot : /\ q[i] # FREE /\ q[i].type = "off" /\ q[i].note = n
                                      /\ (q[i].t - now) % WRAP <= 2 * STRUM_GAP_MS + NOTE_LEN_MS
    BY DEF SchedInv, OffInTime
  <2>1. PICK i \in Slot : q[i] # FREE /\ q[i].type = "off" /\ q[i].note = n
    BY DEF OffPending
  <2>2. /\ Rest(q[i]) + Age <= Life /\ Rest(q[i]) \in Nat
        /\ Age \in Nat /\ Life \in Nat
    BY <2>1, SchedNumbers, Spans DEF PendingInv, Used
  <2>3. Rest(q[i]) <= Life
    BY <2>2
  <2> QED BY <2>1, <2>3 DEF Rest, Life
<1> QED BY <1>1, SchedInit, SchedStep, PTL DEF Spec
============================================================================
