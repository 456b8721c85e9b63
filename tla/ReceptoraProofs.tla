-------------------------- MODULE ReceptoraProofs --------------------------
(***************************************************************************)
(* Proofs about Receptora, for every set of frames, every way of cutting   *)
(* the copies into chunks, and frames that arrive at any time.             *)
(***************************************************************************)
EXTENDS Receptora, TLAPS

---------------------------------------------------------------------------
(* Types *)

\* Copying a chunk yields a message.
LEMMA CopyType ==
  ASSUME NEW dst \in Message, NEW src \in Message, NEW c
  PROVE  CopyChunk(dst, src, c) \in Message
BY DEF CopyChunk, Message

\* Every step keeps the types.
LEMMA TypeStep == TypeOK /\ [Next]_vars => TypeOK'
<1> SUFFICES ASSUME TypeOK, [Next]_vars PROVE TypeOK'
  OBVIOUS
<1> USE DEF TypeOK, shared, callback, loopVars
<1>0. Len(Chunks) \in Nat
  BY ReceptoraAssumption
<1>1. CASE WrongSize
  BY <1>1, ReceptoraAssumption DEF WrongSize, Arrives
<1>2. CASE RecvStart
  <2>1. crowded' \subseteq Nat
    <3>1. crowded' = crowded \cup {Len(received)} \/ crowded' = crowded \cup {}
      BY <1>2, Zenon DEF RecvStart
    <3>2. crowded \subseteq Nat /\ Len(received) \in Nat
      OBVIOUS
    <3> HIDE DEF TypeOK
    <3> QED BY <3>1, <3>2
  <2>2. data' \in Message /\ arrivals' \in 0..MaxFrames
    BY <1>2, ReceptoraAssumption DEF RecvStart, Arrives
  <2> QED BY <1>0, <1>2, <2>1, <2>2 DEF RecvStart
<1>3. CASE RecvCopy
  <2>1. lastMsg' \in Message
    BY <1>3, CopyType DEF RecvCopy
  <2>2. cbChunk' \in 1..(Len(Chunks) + 1) /\ cbPc' \in {"idle", "memcpy", "set"}
    BY <1>0, <1>3 DEF RecvCopy
  <2> QED BY <1>3, <2>1, <2>2 DEF RecvCopy
<1>4. CASE RecvSet
  <2>1. hasMsg' \in BOOLEAN
    BY <1>4, Zenon DEF RecvSet
  <2>2. received' \in Seq(Message)
    BY <1>4 DEF RecvSet, Stored
  <2>3. crowded' \subseteq Nat
    <3>1. crowded' = crowded \cup {Len(received) + 1} \/ crowded' = crowded \cup {}
      BY <1>4, Zenon DEF RecvSet, Stored
    <3>2. crowded \subseteq Nat /\ Len(received) + 1 \in Nat
      OBVIOUS
    <3> HIDE DEF TypeOK
    <3> QED BY <3>1, <3>2
  <2> QED BY <1>4, <2>1, <2>2, <2>3 DEF RecvSet
<1>5. CASE LoopPoll
  <2>1. polled' \in Nat
    BY <1>5 DEF LoopPoll
  <2> QED BY <1>0, <1>5, <2>1 DEF LoopPoll
<1>6. CASE LoopCopy
  <2>1. msg' \in Message
    BY <1>6, CopyType DEF LoopCopy
  <2>2. chunk' \in 1..(Len(Chunks) + 1)
    BY <1>0, <1>6 DEF LoopCopy
  <2>3. loopPc' \in {"poll", "copy", "clear", "process"}
    BY <1>6 DEF LoopCopy
  <2> QED BY <1>6, <2>1, <2>2, <2>3 DEF LoopCopy
<1>7. CASE LoopClear
  <2>1. hasMsg' \in BOOLEAN
    BY <1>7, Zenon DEF LoopClear
  <2>2. upto' \in Nat
    BY <1>7 DEF LoopClear, Begun
  <2> QED BY <1>7, <2>1, <2>2 DEF LoopClear
<1>8. CASE LoopProcess
  <2> DEFINE R == [from : Nat, to : Nat, msg : Message]
             r == [from |-> polled, to |-> upto, msg |-> msg]
  <2>1. uart' = Append(uart, r) \/ uart' = uart
    BY <1>8 DEF LoopProcess, Forward
  <2>2. r \in R /\ uart \in Seq(R)
    OBVIOUS
  <2> HIDE DEF r, R
  <2>3. Append(uart, r) \in Seq(R)
    BY <2>2
  <2>4. uart' \in Seq(R)
    BY <2>1, <2>2, <2>3, Zenon
  <2> QED BY <1>8, <2>4 DEF LoopProcess, R
<1>9. CASE UNCHANGED vars
  BY <1>9 DEF vars
<1> QED BY <1>1, <1>2, <1>3, <1>4, <1>5, <1>6, <1>7, <1>8, <1>9
        DEF Next, Recv, Loop

\* The board starts well typed.
LEMMA TypeInit == Init => TypeOK
<1> SUFFICES ASSUME Init PROVE TypeOK
  OBVIOUS
<1>1. Zero \in Message
  BY DEF Zero, Message, Byte
<1>2. hasMsg \in BOOLEAN
  BY Zenon DEF Init
<1> QED BY <1>1, <1>2, ReceptoraAssumption DEF Init, TypeOK

---------------------------------------------------------------------------
(* The order in which loop() sees the frames. *)

\* What loop() sees: while it copies, the flag is set, since only loop() clears
\* it; a flag stands for a frame that is stored; and a flag set after the clear
\* is of a frame no older than the last one begun then.
PassInv ==
  /\ hasMsg => Len(received) >= 1
  /\ loopPc \in {"copy", "clear"} => hasMsg
  /\ loopPc # "poll" => polled \in 1..Len(received)
  /\ loopPc = "process" =>
       /\ polled <= upto /\ upto <= Begun
       /\ hasMsg => upto <= Len(received) /\ polled < Len(received)

\* The packets written come from passes of their own, all of them over.
OrderInv ==
  \A j \in 1..Len(uart) :
    /\ uart[j].from \in 1..Len(received)
    /\ uart[j].from <= uart[j].to /\ uart[j].to <= Begun
    /\ hasMsg => uart[j].to <= Len(received) /\ uart[j].from < Len(received)
    /\ loopPc # "poll" => uart[j].to <= polled /\ uart[j].from < polled
    /\ \A i \in 1..(j - 1) : uart[i].to <= uart[j].from /\ uart[i].from < uart[j].from

SeenInv == TypeOK /\ PassInv /\ OrderInv

\* The numbers of the frames, as OnDataRecv goes on: none is taken back, and a
\* frame keeps its number when it is stored.
LEMMA FramesGrow ==
  ASSUME TypeOK, [Next]_vars
  PROVE  /\ Len(received) \in Nat /\ Len(received') \in Nat
         /\ Begun \in Nat /\ Begun' \in Nat
         /\ Len(received) <= Len(received') /\ Begun <= Begun'
         /\ Len(received) <= Begun /\ Len(received') <= Begun'
         /\ \A k \in 1..Len(received) : received'[k] = received[k]
         /\ \A m \in 1..Begun : Frame(m)' = Frame(m)
<1> USE DEF shared, callback, loopVars
<1>0. /\ received \in Seq(Message) /\ Len(received) \in Nat
      /\ cbPc \in {"idle", "memcpy", "set"}
  BY DEF TypeOK
<1>1. CASE RecvSet
  <2>1. /\ cbPc = "set" /\ cbPc' = "idle" /\ data' = data
        /\ received' = Append(received, data)
    BY <1>1 DEF RecvSet, Stored
  <2>2. /\ Len(received') = Len(received) + 1
        /\ \A k \in 1..Len(received) : received'[k] = received[k]
        /\ received'[Len(received) + 1] = data
    BY <1>0, <2>1
  <2>3. Begun = Len(received) + 1 /\ Begun' = Len(received) + 1
    BY <1>0, <2>1, <2>2 DEF Begun
  <2> QED BY <1>0, <2>2, <2>3 DEF Frame
<1>2. CASE RecvStart
  <2>1. cbPc = "idle" /\ cbPc' = "memcpy" /\ received' = received
    BY <1>2 DEF RecvStart, Arrives
  <2> QED BY <1>0, <2>1 DEF Begun, Frame
<1>3. CASE RecvCopy
  <2>1. UNCHANGED <<data, received>> /\ cbPc # "idle" /\ cbPc' # "idle"
    BY <1>3 DEF RecvCopy
  <2> QED BY <1>0, <2>1 DEF Begun, Frame
<1>4. CASE WrongSize \/ Loop \/ UNCHANGED vars
  <2>1. UNCHANGED <<data, received, cbPc>>
    BY <1>4 DEF WrongSize, Loop, LoopPoll, LoopCopy, LoopClear, LoopProcess, vars
  <2> QED BY <1>0, <2>1 DEF Begun, Frame
<1> QED BY <1>1, <1>2, <1>3, <1>4 DEF Next, Recv

\* Every step keeps what loop() has seen.
LEMMA PassStep == SeenInv /\ [Next]_vars => PassInv'
<1> SUFFICES ASSUME SeenInv, [Next]_vars PROVE PassInv'
  OBVIOUS
<1> USE DEF SeenInv, PassInv, shared, callback, loopVars
<1>0. /\ Len(received) \in Nat /\ Len(received') \in Nat
      /\ Begun \in Nat /\ Begun' \in Nat
      /\ Len(received) <= Len(received') /\ Begun <= Begun'
      /\ Len(received) <= Begun
      /\ polled \in Nat /\ upto \in Nat
  BY FramesGrow DEF TypeOK
<1>1. CASE WrongSize \/ RecvStart \/ RecvCopy
  <2>1. UNCHANGED <<hasMsg, received, loopVars>>
    BY <1>1 DEF WrongSize, RecvStart, RecvCopy
  <2> QED BY <1>0, <2>1
<1>2. CASE RecvSet
  <2>1. /\ received' = Append(received, data) /\ cbPc = "set" /\ cbPc' = "idle"
        /\ hasMsg' = TRUE /\ UNCHANGED loopVars
    BY <1>2 DEF RecvSet, Stored
  <2>2. Len(received') = Len(received) + 1 /\ Begun = Len(received')
    BY <1>0, <2>1 DEF Begun, TypeOK
  <2> QED BY <1>0, <2>1, <2>2
<1>3. CASE LoopPoll
  <2>1. hasMsg /\ loopPc' = "copy" /\ polled' = Len(received) /\ UNCHANGED <<hasMsg, received>>
    BY <1>3 DEF LoopPoll
  <2> QED BY <1>0, <2>1
<1>4. CASE LoopCopy
  <2>1. /\ loopPc = "copy" /\ loopPc' \in {"copy", "clear"}
        /\ UNCHANGED <<hasMsg, received, polled>>
    BY <1>4 DEF LoopCopy
  <2> QED BY <1>0, <2>1
<1>5. CASE LoopClear
  <2>1. /\ loopPc = "clear" /\ loopPc' = "process" /\ ~hasMsg' /\ upto' = Begun
        /\ UNCHANGED <<received, cbPc, polled>>
    BY <1>5 DEF LoopClear
  <2> QED BY <1>0, <2>1 DEF Begun
<1>6. CASE LoopProcess
  <2>1. loopPc' = "poll" /\ UNCHANGED <<hasMsg, received>>
    BY <1>6 DEF LoopProcess
  <2> QED BY <1>0, <2>1
<1>7. CASE UNCHANGED vars
  BY <1>7 DEF vars, Begun
<1> QED BY <1>1, <1>2, <1>3, <1>4, <1>5, <1>6, <1>7 DEF Next, Recv, Loop

\* Every step keeps the order of the packets written.
LEMMA OrderStep == SeenInv /\ [Next]_vars => OrderInv'
<1> SUFFICES ASSUME SeenInv, [Next]_vars PROVE OrderInv'
  OBVIOUS
<1> USE DEF SeenInv, shared, callback, loopVars
<1>0. /\ Len(received) \in Nat /\ Len(received') \in Nat
      /\ Begun \in Nat /\ Begun' \in Nat
      /\ Len(received) <= Len(received') /\ Begun <= Begun'
      /\ Len(received) <= Begun
      /\ polled \in Nat /\ upto \in Nat /\ Len(uart) \in Nat
      /\ uart \in Seq([from : Nat, to : Nat, msg : Message])
  BY FramesGrow DEF TypeOK
<1>n. \A j \in 1..Len(uart) : uart[j].from \in Nat /\ uart[j].to \in Nat
  <2> DEFINE R == [from : Nat, to : Nat, msg : Message]
  <2>1. \A x \in R : x.from \in Nat /\ x.to \in Nat
    OBVIOUS
  <2>2. uart \in Seq(R)
    BY <1>0
  <2> HIDE DEF R
  <2>3. \A j \in 1..Len(uart) : uart[j] \in R
    BY <2>2
  <2> QED BY <2>1, <2>3
<1>k. ASSUME uart' = uart,
             hasMsg' => hasMsg \/ (Begun <= Len(received') /\ Len(received) < Len(received')),
             \/ loopPc' = "poll"
             \/ loopPc # "poll" /\ polled' = polled
             \/ hasMsg /\ polled' = Len(received)
      PROVE  OrderInv'
  <2> SUFFICES ASSUME NEW j \in 1..Len(uart)
               PROVE  /\ uart[j].from \in 1..Len(received')
                      /\ uart[j].from <= uart[j].to /\ uart[j].to <= Begun'
                      /\ hasMsg' => uart[j].to <= Len(received') /\ uart[j].from < Len(received')
                      /\ loopPc' # "poll" => uart[j].to <= polled' /\ uart[j].from < polled'
                      /\ \A i \in 1..(j - 1) : uart[i].to <= uart[j].from
                                               /\ uart[i].from < uart[j].from
    BY <1>k DEF OrderInv
  <2> DEFINE a == uart[j].from
             b == uart[j].to
  <2>1. /\ a \in 1..Len(received) /\ a <= b /\ b <= Begun
        /\ hasMsg => b <= Len(received) /\ a < Len(received)
        /\ loopPc # "poll" => b <= polled /\ a < polled
    BY DEF OrderInv
  <2>2. \A i \in 1..(j - 1) : uart[i].to <= uart[j].from /\ uart[i].from < uart[j].from
    BY DEF OrderInv
  <2>3. a \in Nat /\ b \in Nat
    BY <1>n
  <2> HIDE DEF a, b
  <2>4. a \in 1..Len(received') /\ b <= Begun'
    BY <1>0, <2>1, <2>3
  <2>5. hasMsg' => b <= Len(received') /\ a < Len(received')
    BY <1>0, <1>k, <2>1, <2>3
  <2>6. loopPc' # "poll" => b <= polled' /\ a < polled'
    BY <1>0, <1>k, <2>1, <2>3
  <2> QED BY <2>1, <2>2, <2>4, <2>5, <2>6 DEF a, b
<1>1. CASE WrongSize \/ RecvStart \/ RecvCopy
  <2>1. UNCHANGED <<hasMsg, uart, loopPc, polled>>
    BY <1>1 DEF WrongSize, RecvStart, RecvCopy
  <2> QED BY <1>k, <2>1
<1>2. CASE RecvSet
  <2>1. /\ received' = Append(received, data) /\ cbPc = "set"
        /\ UNCHANGED <<uart, loopPc, polled>>
    BY <1>2 DEF RecvSet, Stored
  <2>2. Len(received') = Len(received) + 1 /\ Begun = Len(received')
    BY <1>0, <2>1 DEF Begun, TypeOK
  <2>3. Begun <= Len(received') /\ Len(received) < Len(received')
    BY <1>0, <2>2
  <2> QED BY <1>k, <2>1, <2>3
<1>3. CASE LoopPoll
  <2>1. hasMsg /\ polled' = Len(received) /\ UNCHANGED <<hasMsg, uart>>
    BY <1>3 DEF LoopPoll
  <2> QED BY <1>k, <2>1
<1>4. CASE LoopCopy
  <2>1. loopPc # "poll" /\ UNCHANGED <<hasMsg, uart, polled>>
    BY <1>4 DEF LoopCopy
  <2> QED BY <1>k, <2>1
<1>5. CASE LoopClear
  <2>1. loopPc # "poll" /\ ~hasMsg' /\ UNCHANGED <<uart, polled>>
    BY <1>5 DEF LoopClear
  <2> QED BY <1>k, <2>1
<1>6. CASE LoopProcess
  <2>0. /\ loopPc = "process" /\ loopPc' = "poll"
        /\ UNCHANGED <<hasMsg, received, cbPc>>
        /\ Begun' = Begun
    BY <1>6 DEF LoopProcess, Begun
  <2>1. CASE uart' = uart
    BY <1>k, <2>0, <2>1
  <2>2. CASE Forward
    <3> DEFINE r == [from |-> polled, to |-> upto, msg |-> msg]
               n == Len(uart) + 1
    <3>1. r.from = polled /\ r.to = upto
      OBVIOUS
    <3>2. uart' = Append(uart, r)
      BY <2>2 DEF Forward
    <3> HIDE DEF r
    <3>3. /\ Len(uart') = n
          /\ \A j \in 1..Len(uart) : uart'[j] = uart[j]
          /\ uart'[n] = r
      BY <1>0, <3>2
    <3>4. /\ polled \in 1..Len(received) /\ polled <= upto /\ upto <= Begun
          /\ hasMsg => upto <= Len(received) /\ polled < Len(received)
      BY <2>0 DEF PassInv
    <3>5. SUFFICES ASSUME NEW j \in 1..n
                   PROVE  /\ uart'[j].from \in 1..Len(received)
                          /\ uart'[j].from <= uart'[j].to /\ uart'[j].to <= Begun
                          /\ hasMsg => uart'[j].to <= Len(received)
                                       /\ uart'[j].from < Len(received)
                          /\ \A i \in 1..(j - 1) : uart'[i].to <= uart'[j].from
                                                   /\ uart'[i].from < uart'[j].from
      BY <2>0, <3>3 DEF OrderInv
    <3>6. CASE j = n
      <4>1. uart'[j].from = polled /\ uart'[j].to = upto
        BY <3>1, <3>3, <3>6
      <4>2. \A i \in 1..(j - 1) : uart[i].to <= polled /\ uart[i].from < polled
        BY <1>0, <2>0, <3>6 DEF OrderInv
      <4>3. \A i \in 1..(j - 1) : uart'[i] = uart[i]
        BY <1>0, <3>3, <3>6
      <4> QED BY <3>4, <4>1, <4>2, <4>3
    <3>7. CASE j \in 1..Len(uart)
      <4>1. uart'[j] = uart[j] /\ \A i \in 1..(j - 1) : uart'[i] = uart[i]
        BY <1>0, <3>3, <3>7
      <4> QED BY <1>0, <3>7, <4>1 DEF OrderInv
    <3> QED BY <1>0, <3>6, <3>7
  <2> QED BY <1>6, <2>1, <2>2 DEF LoopProcess
<1>7. CASE UNCHANGED vars
  <2>1. UNCHANGED <<hasMsg, uart, loopPc, polled>>
    BY <1>7 DEF vars
  <2> QED BY <1>k, <2>1
<1> QED BY <1>1, <1>2, <1>3, <1>4, <1>5, <1>6, <1>7 DEF Next, Recv, Loop

---------------------------------------------------------------------------
(* Where the bytes come from. *)

\* What memcpy() in OnDataRecv has moved, and what is left of the frame before.
StoreInv ==
  /\ cbPc = "memcpy" =>
       \A c \in 1..(cbChunk - 1) : \A i \in Chunks[c] : lastMsg[i] = data[i]
  /\ cbPc = "set" => lastMsg = data
  /\ Len(received) >= 1 =>
       \A i \in 0..(SIZE - 1) :
         \E m \in Len(received)..Begun : lastMsg[i] = Frame(m)[i]

\* What loop() has copied comes from the frames of its pass.
CopyInv ==
  /\ loopPc = "copy" =>
       \A c \in 1..(chunk - 1) : \A i \in Chunks[c] :
         \E m \in polled..Begun : msg[i] = Frame(m)[i]
  /\ loopPc = "clear" =>
       \A i \in 0..(SIZE - 1) : \E m \in polled..Begun : msg[i] = Frame(m)[i]
  /\ loopPc = "process" =>
       \A i \in 0..(SIZE - 1) : \E m \in polled..upto : msg[i] = Frame(m)[i]

CopiesInv == SeenInv /\ StoreInv /\ CopyInv /\ ForwardedInOrder

\* Messages with the same bytes are the same.
LEMMA SameBytes ==
  ASSUME NEW x \in Message, NEW y \in Message, \A i \in 0..(SIZE - 1) : x[i] = y[i]
  PROVE  x = y
<1>1. /\ x = [i \in 0..(SIZE - 1) |-> x[i]]
      /\ y = [i \in 0..(SIZE - 1) |-> y[i]]
  BY DEF Message
<1>2. [i \in 0..(SIZE - 1) |-> x[i]] = [i \in 0..(SIZE - 1) |-> y[i]]
  BY Zenon
<1> QED BY <1>1, <1>2, Zenon

\* One more chunk of a copy.
LEMMA CopyMore ==
  ASSUME NEW dst \in Message, NEW src \in Message, NEW n \in 1..Len(Chunks),
         \A c \in 1..(n - 1) : \A i \in Chunks[c] : dst[i] = src[i]
  PROVE  \A c \in 1..n : \A i \in Chunks[c] : CopyChunk(dst, src, n)[i] = src[i]
<1>1. /\ Len(Chunks) \in Nat
      /\ \A c \in 1..Len(Chunks) : Chunks[c] \subseteq 0..(SIZE - 1)
  BY ReceptoraAssumption
<1> SUFFICES ASSUME NEW c \in 1..n, NEW i \in Chunks[c]
             PROVE  CopyChunk(dst, src, n)[i] = src[i]
  OBVIOUS
<1>2. i \in 0..(SIZE - 1)
  BY <1>1
<1>3. CopyChunk(dst, src, n)[i] = IF i \in Chunks[n] THEN src[i] ELSE dst[i]
  BY <1>2 DEF CopyChunk
<1>4. i \notin Chunks[n] => dst[i] = src[i]
  BY <1>1
<1> QED BY <1>3, <1>4

\* All chunks copied make the whole message.
LEMMA CopyAll ==
  ASSUME NEW dst \in Message, NEW src \in Message, NEW n \in Nat, n > Len(Chunks),
         \A c \in 1..(n - 1) : \A i \in Chunks[c] : dst[i] = src[i]
  PROVE  dst = src
<1>1. Len(Chunks) \in Nat
  BY ReceptoraAssumption
<1>2. ASSUME NEW i \in 0..(SIZE - 1) PROVE dst[i] = src[i]
  <2>1. PICK c \in 1..Len(Chunks) : i \in Chunks[c]
    BY ReceptoraAssumption
  <2> QED BY <1>1, <2>1
<1> QED BY <1>2, SameBytes

\* While the callback is on a frame, that frame is the last one begun.
LEMMA InFlight ==
  ASSUME TypeOK, cbPc # "idle"
  PROVE  Begun = Len(received) + 1 /\ Begun \in Nat /\ Frame(Begun) = data
<1>1. Len(received) \in Nat
  BY DEF TypeOK
<1> QED BY <1>1 DEF Begun, Frame

\* Every step of either thread keeps what the callback has stored.
LEMMA StoreStep == SeenInv /\ StoreInv /\ [Next]_vars => StoreInv'
<1> SUFFICES ASSUME SeenInv, StoreInv, [Next]_vars PROVE StoreInv'
  OBVIOUS
<1> USE DEF SeenInv, shared, callback, loopVars
<1>0. /\ Len(Chunks) \in Nat /\ cbChunk \in 1..(Len(Chunks) + 1)
      /\ lastMsg \in Message /\ data \in Message /\ received \in Seq(Message)
  BY ReceptoraAssumption DEF TypeOK
<1>f. /\ Len(received) \in Nat /\ Len(received') \in Nat
      /\ Begun \in Nat /\ Begun' \in Nat
      /\ Len(received) <= Len(received') /\ Begun <= Begun'
      /\ Len(received) <= Begun /\ Len(received') <= Begun'
      /\ \A m \in 1..Begun : Frame(m)' = Frame(m)
  BY FramesGrow
<1>k. ASSUME lastMsg' = lastMsg, received' = received
      PROVE  Len(received') >= 1 =>
               \A i \in 0..(SIZE - 1) :
                 \E m \in Len(received')..Begun' : lastMsg'[i] = Frame(m)'[i]
  <2>1. SUFFICES ASSUME Len(received) >= 1, NEW i \in 0..(SIZE - 1)
                 PROVE  \E m \in Len(received')..Begun' : lastMsg'[i] = Frame(m)'[i]
    BY <1>k
  <2>2. PICK m \in Len(received)..Begun : lastMsg[i] = Frame(m)[i]
    BY <2>1 DEF StoreInv
  <2>3. Frame(m)' = Frame(m) /\ m \in Len(received')..Begun'
    BY <1>f, <1>k, <2>1, <2>2
  <2> QED BY <1>k, <2>2, <2>3
<1>1. CASE WrongSize
  BY <1>1, <1>k DEF WrongSize, StoreInv
<1>2. CASE RecvStart
  <2>1. cbPc' = "memcpy" /\ cbChunk' = 1 /\ UNCHANGED <<lastMsg, received>>
    BY <1>2 DEF RecvStart
  <2> QED BY <1>k, <2>1 DEF StoreInv
<1>3. CASE RecvCopy
  <2>1. CASE cbChunk <= Len(Chunks)
    <3>1. /\ lastMsg' = CopyChunk(lastMsg, data, cbChunk) /\ cbChunk' = cbChunk + 1
          /\ cbPc = "memcpy" /\ cbPc' = "memcpy" /\ UNCHANGED <<data, received>>
      BY <1>0, <1>3, <2>1 DEF RecvCopy
    <3>0. \A c \in 1..(cbChunk - 1) : \A i \in Chunks[c] : lastMsg[i] = data[i]
      BY <3>1 DEF StoreInv
    <3>2. \A c \in 1..cbChunk : \A i \in Chunks[c] : lastMsg'[i] = data[i]
      BY <1>0, <2>1, <3>0, <3>1, CopyMore
    <3>3. Len(received') >= 1 =>
            \A i \in 0..(SIZE - 1) :
              \E m \in Len(received')..Begun' : lastMsg'[i] = Frame(m)'[i]
      <4>1. SUFFICES ASSUME Len(received) >= 1, NEW i \in 0..(SIZE - 1)
                     PROVE  \E m \in Len(received')..Begun' : lastMsg'[i] = Frame(m)'[i]
        BY <3>1
      <4>2. lastMsg'[i] = data[i] \/ lastMsg'[i] = lastMsg[i]
        BY <3>1 DEF CopyChunk
      <4>3. CASE lastMsg'[i] = data[i]
        <5>1. PICK b \in 1..Begun : b >= Len(received) /\ Frame(b) = data
          BY <1>f, <3>1, InFlight
        <5>2. Frame(b)' = data /\ b \in Len(received')..Begun'
          BY <1>f, <3>1, <5>1
        <5> QED BY <4>3, <5>2
      <4>4. CASE lastMsg'[i] = lastMsg[i]
        <5>1. PICK m \in Len(received)..Begun : lastMsg[i] = Frame(m)[i]
          BY <4>1 DEF StoreInv
        <5>2. Frame(m)' = Frame(m) /\ m \in Len(received')..Begun'
          BY <1>f, <3>1, <4>1, <5>1
        <5> QED BY <4>4, <5>1, <5>2
      <4> QED BY <4>2, <4>3, <4>4
    <3>4. \A c \in 1..(cbChunk' - 1) : \A i \in Chunks[c] : lastMsg'[i] = data'[i]
      BY <1>0, <3>1, <3>2
    <3> QED BY <3>1, <3>3, <3>4 DEF StoreInv
  <2>2. CASE cbChunk > Len(Chunks)
    <3>1. /\ cbPc = "memcpy" /\ cbPc' = "set" /\ UNCHANGED <<lastMsg, data, received>>
      BY <1>0, <1>3, <2>2 DEF RecvCopy
    <3>0. \A c \in 1..(cbChunk - 1) : \A i \in Chunks[c] : lastMsg[i] = data[i]
      BY <3>1 DEF StoreInv
    <3>2. lastMsg = data
      BY <1>0, <2>2, <3>0, CopyAll
    <3> QED BY <1>k, <3>1, <3>2 DEF StoreInv
  <2> QED BY <1>0, <2>1, <2>2
<1>4. CASE RecvSet
  <2>1. /\ cbPc = "set" /\ cbPc' = "idle" /\ lastMsg' = lastMsg
        /\ received' = Append(received, data)
    BY <1>4 DEF RecvSet, Stored
  <2>2. PICK n \in Nat : n = Len(received')
    BY <1>f
  <2>3. received'[n] = data
    BY <1>0, <2>1, <2>2
  <2>4. lastMsg' = Frame(n)'
    BY <2>1, <2>2, <2>3 DEF StoreInv, Frame
  <2>5. n \in Len(received')..Begun'
    BY <1>f, <2>2
  <2> QED BY <2>1, <2>4, <2>5 DEF StoreInv
<1>5. CASE Loop
  <2>1. UNCHANGED <<lastMsg, callback>>
    BY <1>5 DEF Loop, LoopPoll, LoopCopy, LoopClear, LoopProcess
  <2> QED BY <1>k, <2>1 DEF StoreInv
<1>6. CASE UNCHANGED vars
  BY <1>6, <1>k DEF vars, StoreInv
<1> QED BY <1>1, <1>2, <1>3, <1>4, <1>5, <1>6 DEF Next, Recv

\* The frames of a pass go on naming the bytes copied from them.
LEMMA SourceKept ==
  ASSUME SeenInv, [Next]_vars, loopPc # "poll"
  PROVE  \A m \in polled..Begun : Frame(m)' = Frame(m)
<1>1. polled \in 1..Len(received) /\ Len(received) \in Nat /\ Begun \in Nat
  BY FramesGrow DEF SeenInv, PassInv
<1>2. \A m \in polled..Begun : m \in 1..Begun
  BY <1>1
<1> QED BY <1>2, FramesGrow DEF SeenInv

\* Every step of either thread keeps what loop() has copied.
LEMMA CopyStep == SeenInv /\ StoreInv /\ CopyInv /\ [Next]_vars => CopyInv'
<1> SUFFICES ASSUME SeenInv, StoreInv, CopyInv, [Next]_vars PROVE CopyInv'
  OBVIOUS
<1> USE DEF shared, callback, loopVars
<1>0. /\ Len(Chunks) \in Nat /\ chunk \in 1..(Len(Chunks) + 1)
      /\ \A c \in 1..Len(Chunks) : Chunks[c] \subseteq 0..(SIZE - 1)
      /\ polled \in Nat /\ upto \in Nat
  BY ReceptoraAssumption DEF SeenInv, TypeOK
<1>f. /\ Len(received) \in Nat /\ Begun \in Nat /\ Begun' \in Nat /\ Begun <= Begun'
      /\ Len(received) <= Begun
  BY FramesGrow DEF SeenInv
<1>1. CASE UNCHANGED loopVars
  <2>1. SUFFICES ASSUME loopPc # "poll" PROVE CopyInv'
    BY <1>1 DEF CopyInv
  <2>2. ASSUME NEW i, \E m \in polled..Begun : msg[i] = Frame(m)[i]
        PROVE  \E m \in polled..Begun' : msg[i] = Frame(m)'[i]
    <3>1. PICK m \in polled..Begun : msg[i] = Frame(m)[i]
      BY <2>2
    <3>2. Frame(m)' = Frame(m) /\ m \in polled..Begun'
      BY <1>0, <1>f, <2>1, SourceKept
    <3> QED BY <3>1, <3>2
  <2>3. ASSUME NEW i, loopPc = "process", \E m \in polled..upto : msg[i] = Frame(m)[i]
        PROVE  \E m \in polled..upto : msg[i] = Frame(m)'[i]
    <3>1. upto <= Begun
      BY <2>3 DEF SeenInv, PassInv
    <3>2. PICK m \in polled..upto : msg[i] = Frame(m)[i]
      BY <2>3
    <3>3. Frame(m)' = Frame(m)
      BY <1>0, <1>f, <2>1, <3>1, SourceKept
    <3> QED BY <3>2, <3>3
  <2>4. /\ loopPc = "copy" => \A c \in 1..(chunk - 1) : \A i \in Chunks[c] :
                                \E m \in polled..Begun' : msg[i] = Frame(m)'[i]
        /\ loopPc = "clear" => \A i \in 0..(SIZE - 1) :
                                 \E m \in polled..Begun' : msg[i] = Frame(m)'[i]
    BY <2>2 DEF CopyInv
  <2>5. loopPc = "process" => \A i \in 0..(SIZE - 1) :
                                \E m \in polled..upto : msg[i] = Frame(m)'[i]
    BY <2>3 DEF CopyInv
  <2>6. UNCHANGED <<loopPc, chunk, polled, upto, msg>>
    BY <1>1
  <2> QED BY <2>4, <2>5, <2>6 DEF CopyInv
<1>2. CASE LoopPoll
  <2>1. loopPc' = "copy" /\ chunk' = 1
    BY <1>2 DEF LoopPoll
  <2> QED BY <2>1 DEF CopyInv
<1>3. CASE LoopCopy
  <2>0. /\ loopPc = "copy" /\ UNCHANGED <<shared, callback, polled, upto>>
        /\ polled \in 1..Len(received)
    BY <1>3 DEF LoopCopy, SeenInv, PassInv
  <2>1. Begun' = Begun /\ \A m : Frame(m)' = Frame(m)
    BY <2>0 DEF Begun, Frame
  <2>c. \A c \in 1..(chunk - 1) : \A i \in Chunks[c] :
          \E m \in polled..Begun : msg[i] = Frame(m)[i]
    BY <2>0 DEF CopyInv
  <2>2. CASE chunk <= Len(Chunks)
    <3>1. /\ msg' = CopyChunk(msg, lastMsg, chunk) /\ chunk' = chunk + 1
          /\ loopPc' = "copy"
      BY <1>0, <1>3, <2>2 DEF LoopCopy
    <3>2. ASSUME NEW c \in 1..chunk, NEW i \in Chunks[c]
          PROVE  \E m \in polled..Begun : msg'[i] = Frame(m)[i]
      <4>1. i \in 0..(SIZE - 1)
        BY <1>0, <2>2
      <4>2. msg'[i] = IF i \in Chunks[chunk] THEN lastMsg[i] ELSE msg[i]
        BY <3>1, <4>1 DEF CopyChunk
      <4>3. CASE i \in Chunks[chunk]
        <5>1. PICK m \in Len(received)..Begun : lastMsg[i] = Frame(m)[i]
          BY <1>f, <2>0, <4>1 DEF StoreInv
        <5>2. m \in polled..Begun
          BY <1>f, <2>0
        <5> QED BY <4>2, <4>3, <5>1, <5>2
      <4>4. CASE i \notin Chunks[chunk]
        <5>1. c \in 1..(chunk - 1)
          BY <1>0, <4>4
        <5> QED BY <2>c, <4>2, <4>4, <5>1
      <4> QED BY <4>3, <4>4
    <3>3. \A c \in 1..(chunk' - 1) : \A i \in Chunks[c] :
            \E m \in polled'..Begun' : msg'[i] = Frame(m)'[i]
      BY <1>0, <2>0, <2>1, <3>1, <3>2
    <3> QED BY <3>1, <3>3 DEF CopyInv
  <2>3. CASE chunk > Len(Chunks)
    <3>1. loopPc' = "clear" /\ msg' = msg
      BY <1>0, <1>3, <2>3 DEF LoopCopy
    <3>2. ASSUME NEW i \in 0..(SIZE - 1)
          PROVE  \E m \in polled..Begun : msg[i] = Frame(m)[i]
      <4>1. PICK c \in 1..Len(Chunks) : i \in Chunks[c]
        BY ReceptoraAssumption
      <4>2. c \in 1..(chunk - 1)
        BY <1>0, <2>3
      <4> QED BY <2>c, <4>1, <4>2
    <3>3. \A i \in 0..(SIZE - 1) : \E m \in polled'..Begun' : msg'[i] = Frame(m)'[i]
      BY <2>0, <2>1, <3>1, <3>2
    <3> QED BY <3>1, <3>3 DEF CopyInv
  <2> QED BY <1>0, <2>2, <2>3
<1>4. CASE LoopClear
  <2>1. /\ loopPc = "clear" /\ loopPc' = "process" /\ upto' = Begun
        /\ UNCHANGED <<callback, polled, msg>>
    BY <1>4 DEF LoopClear
  <2>2. \A m : Frame(m)' = Frame(m)
    BY <2>1 DEF Frame
  <2>3. \A i \in 0..(SIZE - 1) : \E m \in polled..Begun : msg[i] = Frame(m)[i]
    BY <2>1 DEF CopyInv
  <2>4. \A i \in 0..(SIZE - 1) : \E m \in polled'..upto' : msg'[i] = Frame(m)'[i]
    BY <2>1, <2>2, <2>3
  <2> QED BY <2>1, <2>4 DEF CopyInv
<1>5. CASE LoopProcess
  <2>1. loopPc' = "poll"
    BY <1>5 DEF LoopProcess
  <2> QED BY <2>1 DEF CopyInv
<1>6. CASE WrongSize \/ RecvStart \/ Recv \/ UNCHANGED vars
  <2>1. UNCHANGED loopVars
    BY <1>6 DEF WrongSize, RecvStart, Recv, RecvCopy, RecvSet, vars
  <2> QED BY <1>1, <2>1
<1> QED BY <1>2, <1>3, <1>4, <1>5, <1>6 DEF Next, Loop

\* A packet written has the bytes of its copy, and keeps them.
LEMMA ForwardStep == CopiesInv /\ [Next]_vars => ForwardedInOrder'
<1> SUFFICES ASSUME CopiesInv, [Next]_vars PROVE ForwardedInOrder'
  OBVIOUS
<1> USE DEF CopiesInv
<1>0. OrderInv'
  BY OrderStep
<1>1. /\ uart \in Seq([from : Nat, to : Nat, msg : Message]) /\ Len(uart) \in Nat
      /\ Begun \in Nat
  BY FramesGrow DEF SeenInv, TypeOK
<1>2. SUFFICES ASSUME NEW j \in 1..Len(uart')
               PROVE  \A i \in 0..(SIZE - 1) :
                        \E m \in uart'[j].from .. uart'[j].to :
                          uart'[j].msg[i] = Frame(m)'[i]
  BY <1>0 DEF ForwardedInOrder, OrderInv
<1>3. ASSUME j \in 1..Len(uart), uart'[j] = uart[j]
      PROVE  \A i \in 0..(SIZE - 1) :
               \E m \in uart'[j].from .. uart'[j].to : uart'[j].msg[i] = Frame(m)'[i]
  <2> TAKE i \in 0..(SIZE - 1)
  <2>1. PICK m \in uart[j].from .. uart[j].to : uart[j].msg[i] = Frame(m)[i]
    BY <1>3 DEF ForwardedInOrder
  <2>2. uart[j].from \in 1..Len(received) /\ uart[j].to \in Nat /\ uart[j].to <= Begun
    <3> DEFINE R == [from : Nat, to : Nat, msg : Message]
    <3>1. \A x \in R : x.to \in Nat
      OBVIOUS
    <3>2. uart \in Seq(R)
      BY <1>1
    <3> HIDE DEF R
    <3>3. uart[j] \in R
      BY <1>3, <3>2
    <3> QED BY <1>3, <3>1, <3>3 DEF SeenInv, OrderInv
  <2>3. m \in 1..Begun
    BY <1>1, <2>2
  <2>4. Frame(m)' = Frame(m)
    BY <2>3, FramesGrow DEF SeenInv
  <2> QED BY <1>3, <2>1, <2>4
<1>4. CASE uart' = uart
  BY <1>3, <1>4
<1>5. CASE LoopProcess /\ Forward
  <2> DEFINE r == [from |-> polled, to |-> upto, msg |-> msg]
             n == Len(uart) + 1
  <2>1. r.from = polled /\ r.to = upto /\ r.msg = msg
    OBVIOUS
  <2>2. uart' = Append(uart, r)
    BY <1>5 DEF Forward
  <2> HIDE DEF r
  <2>3. /\ Len(uart') = n
        /\ \A q \in 1..Len(uart) : uart'[q] = uart[q]
        /\ uart'[n] = r
    BY <1>1, <2>2
  <2>4. CASE j = n
    <3>1. \A i \in 0..(SIZE - 1) : \E m \in polled..upto : msg[i] = Frame(m)[i]
      BY <1>5 DEF LoopProcess, CopyInv
    <3>2. \A m : Frame(m)' = Frame(m)
      BY <1>5 DEF LoopProcess, callback, Frame
    <3> QED BY <2>1, <2>3, <2>4, <3>1, <3>2
  <2>5. CASE j \in 1..Len(uart)
    BY <1>3, <2>3, <2>5
  <2> QED BY <1>1, <2>3, <2>4, <2>5
<1>6. uart' = uart \/ (LoopProcess /\ Forward)
  BY DEF Next, WrongSize, RecvStart, Recv, RecvCopy, RecvSet, Loop, LoopPoll, LoopCopy,
         LoopClear, LoopProcess, vars, loopVars
<1> QED BY <1>4, <1>5, <1>6

LEMMA CopiesInit == Init => CopiesInv
BY TypeInit DEF Init, CopiesInv, SeenInv, PassInv, OrderInv, StoreInv, CopyInv,
                ForwardedInOrder

LEMMA CopiesStep == CopiesInv /\ [Next]_vars => CopiesInv'
BY TypeStep, PassStep, OrderStep, StoreStep, CopyStep, ForwardStep DEF CopiesInv, SeenInv

\* For any frames at any times, and however the compiler cuts the two copies,
\* every byte loop() writes was stored by OnDataRecv during the pass that
\* copied it, and the frames of one pass are no older than the last of the pass
\* before: nothing comes from further back, and nothing is repeated but a frame
\* that was on its way in when hasMsg was cleared.
THEOREM BytesComeInOrder == Spec => []ForwardedInOrder
<1>1. CopiesInv => ForwardedInOrder
  BY DEF CopiesInv
<1> QED BY <1>1, CopiesInit, CopiesStep, PTL DEF Spec

\* When OnDataRecv stays away between the test of hasMsg and its clearing,
\* loop() forwards exactly the newest frame stored and never that one again,
\* whatever happens before and after.
THEOREM UndisturbedIsExact == Spec => []QuietExact
<1>1. CopiesInv => QuietExact
  <2> SUFFICES ASSUME CopiesInv, NEW j \in 1..Len(uart), uart[j].from = uart[j].to
               PROVE  /\ uart[j].from \in 1..Len(received)
                      /\ uart[j].msg = received[uart[j].from]
                      /\ \A i \in (j + 1)..Len(uart) : uart[i].from > uart[j].from
    BY DEF QuietExact
  <2> DEFINE k == uart[j].from
  <2>0. /\ uart \in Seq([from : Nat, to : Nat, msg : Message])
        /\ received \in Seq(Message) /\ Len(uart) \in Nat
    BY DEF CopiesInv, SeenInv, TypeOK
  <2>1. k \in 1..Len(received)
    BY DEF CopiesInv, SeenInv, OrderInv
  <2>2. ASSUME NEW i \in (j + 1)..Len(uart) PROVE uart[i].from > k
    <3>1. i \in 1..Len(uart) /\ j \in 1..(i - 1)
      BY <2>0
    <3>2. uart[i].from \in 1..Len(received) /\ uart[j].from < uart[i].from
      BY <3>1 DEF CopiesInv, SeenInv, OrderInv
    <3> QED BY <2>1, <3>2
  <2>3. ASSUME NEW i \in 0..(SIZE - 1) PROVE uart[j].msg[i] = received[k][i]
    <3>1. PICK m \in k..k : uart[j].msg[i] = Frame(m)[i]
      BY DEF CopiesInv, ForwardedInOrder
    <3>2. m = k
      BY <2>1
    <3> QED BY <2>1, <3>1, <3>2 DEF Frame
  <2>4. uart[j].msg \in Message /\ received[k] \in Message
    <3> DEFINE R == [from : Nat, to : Nat, msg : Message]
    <3>1. \A x \in R : x.msg \in Message
      OBVIOUS
    <3>2. uart \in Seq(R)
      BY <2>0
    <3> HIDE DEF R
    <3>3. uart[j] \in R
      BY <3>2
    <3> QED BY <2>0, <2>1, <3>1, <3>3
  <2> HIDE DEF k
  <2>5. uart[j].msg = received[k]
    BY <2>3, <2>4, SameBytes
  <2> QED BY <2>1, <2>2, <2>5 DEF k
<1> QED BY <1>1, CopiesInit, CopiesStep, PTL DEF Spec

---------------------------------------------------------------------------
(* Frames that stay apart are not lost. *)

\* The state form of ApartForwarded: such a frame is untouched in the buffer,
\* or in the pass that took it, or written.
ApartInv ==
  \A k \in (1..Len(received)) \ crowded :
    HeaderOK(received[k]) /\ ChecksumOK(received[k]) =>
      \/ /\ k = Len(received) /\ hasMsg /\ cbPc = "idle"
         /\ loopPc \in {"copy", "clear"} => polled = k
      \/ k = polled /\ loopPc = "process" /\ upto = k
      \/ Forwarded(k)

\* What is written stays written.
LEMMA ForwardedKept ==
  ASSUME TypeOK, [Next]_vars, NEW k \in 1..Len(received), Forwarded(k)
  PROVE  Forwarded(k)'
<1>1. PICK j \in 1..Len(uart) : /\ uart[j].from = k /\ uart[j].to = k
                                /\ uart[j].msg = received[k]
  BY DEF Forwarded
<1>2. received'[k] = received[k]
  BY FramesGrow
<1>3. uart' = uart \/ \E r : uart' = Append(uart, r)
  BY DEF Next, WrongSize, RecvStart, Recv, RecvCopy, RecvSet, Loop, LoopPoll, LoopCopy,
         LoopClear, LoopProcess, Forward, vars, loopVars
<1>4. uart \in Seq([from : Nat, to : Nat, msg : Message])
  BY DEF TypeOK
<1>5. j \in 1..Len(uart') /\ uart'[j] = uart[j]
  <2>1. CASE uart' = uart
    BY <2>1
  <2>2. ASSUME NEW r, uart' = Append(uart, r) PROVE j \in 1..Len(uart') /\ uart'[j] = uart[j]
    BY <1>4, <2>2
  <2> QED BY <1>3, <2>1, <2>2
<1> QED BY <1>1, <1>2, <1>5 DEF Forwarded

\* Every step keeps a frame that stays apart.
LEMMA ApartStep == CopiesInv /\ ApartInv /\ [Next]_vars => ApartInv'
<1> SUFFICES ASSUME CopiesInv, ApartInv, [Next]_vars,
                    NEW k \in (1..Len(received')) \ crowded',
                    HeaderOK(received'[k]), ChecksumOK(received'[k])
             PROVE  \/ /\ k = Len(received') /\ hasMsg' /\ cbPc' = "idle"
                       /\ loopPc' \in {"copy", "clear"} => polled' = k
                    \/ k = polled' /\ loopPc' = "process" /\ upto' = k
                    \/ Forwarded(k)'
  BY DEF ApartInv, HeaderOK, ChecksumOK, Checksum, Xor
<1> USE DEF shared, callback, loopVars
<1>0. /\ TypeOK /\ SeenInv
      /\ Len(received) \in Nat /\ received \in Seq(Message)
      /\ \A q \in 1..Len(received) : received'[q] = received[q]
  BY FramesGrow DEF CopiesInv, SeenInv, TypeOK
<1>1. CASE k \in 1..Len(received) /\ Forwarded(k)
  BY <1>0, <1>1, ForwardedKept
<1>2. ASSUME k \in 1..Len(received), k \notin crowded, ~Forwarded(k)
      PROVE  \/ /\ k = Len(received) /\ hasMsg /\ cbPc = "idle"
                /\ loopPc \in {"copy", "clear"} => polled = k
             \/ k = polled /\ loopPc = "process" /\ upto = k
  <2>1. received'[k] = received[k]
    BY <1>0, <1>2
  <2>2. HeaderOK(received[k]) /\ ChecksumOK(received[k])
    BY <2>1
  <2> QED BY <1>2, <2>2 DEF ApartInv
<1>3. CASE RecvSet
  <2>1. /\ cbPc = "set" /\ hasMsg' /\ cbPc' = "idle" /\ received' = Append(received, data)
        /\ crowded' = crowded \cup (IF loopPc \in {"copy", "clear"}
                                    THEN {Len(received) + 1} ELSE {})
        /\ UNCHANGED loopVars
    BY <1>3 DEF RecvSet, Stored
  <2>2. Len(received') = Len(received) + 1
    BY <1>0, <2>1
  <2>3. CASE k = Len(received) + 1
    BY <2>1, <2>2, <2>3
  <2>4. CASE k \in 1..Len(received)
    BY <1>1, <1>2, <2>1, <2>4
  <2> QED BY <1>0, <2>2, <2>3, <2>4
<1>4. CASE RecvStart
  <2>1. /\ UNCHANGED <<shared, received, loopVars>>
        /\ crowded' = crowded \cup (IF hasMsg THEN {Len(received)} ELSE {})
    BY <1>4 DEF RecvStart
  <2> QED BY <1>1, <1>2, <2>1
<1>5. CASE WrongSize \/ RecvCopy
  <2>1. UNCHANGED <<hasMsg, received, crowded, loopVars>>
    BY <1>5 DEF WrongSize, RecvCopy
  <2>2. cbPc = "idle" => cbPc' = "idle"
    BY <1>5 DEF WrongSize, RecvCopy
  <2> QED BY <1>1, <1>2, <2>1, <2>2
<1>6. CASE LoopPoll
  <2>1. /\ loopPc = "poll" /\ loopPc' = "copy" /\ polled' = Len(received)
        /\ UNCHANGED <<shared, callback>>
    BY <1>6 DEF LoopPoll
  <2> QED BY <1>1, <1>2, <2>1
<1>7. CASE LoopCopy
  <2>1. /\ loopPc = "copy" /\ loopPc' \in {"copy", "clear"}
        /\ UNCHANGED <<shared, callback, polled>>
    BY <1>7 DEF LoopCopy
  <2> QED BY <1>1, <1>2, <2>1
<1>8. CASE LoopClear
  <2>1. /\ loopPc = "clear" /\ loopPc' = "process" /\ upto' = Begun
        /\ UNCHANGED <<callback, polled>>
    BY <1>8 DEF LoopClear
  <2>2. cbPc = "idle" => Begun = Len(received)
    BY <1>0 DEF Begun
  <2> QED BY <1>1, <1>2, <2>1, <2>2
<1>9. CASE LoopProcess
  <2>1. /\ loopPc = "process" /\ loopPc' = "poll"
        /\ UNCHANGED <<shared, callback, msg>>
    BY <1>9 DEF LoopProcess
  <2>2. CASE k = polled /\ upto = k
    <3>1. msg = received[k]
      <4>1. \A i \in 0..(SIZE - 1) : \E m \in k..k : msg[i] = Frame(m)[i]
        BY <2>1, <2>2 DEF CopiesInv, CopyInv
      <4>2. k \in 1..Len(received)
        BY <2>1
      <4>3. ASSUME NEW i \in 0..(SIZE - 1) PROVE msg[i] = received[k][i]
        <5>1. PICK m \in k..k : msg[i] = Frame(m)[i]
          BY <4>1
        <5>2. m = k
          BY <4>2
        <5> QED BY <4>2, <5>1, <5>2 DEF Frame
      <4>4. msg \in Message /\ received[k] \in Message
        BY <1>0, <4>2 DEF TypeOK
      <4> QED BY <4>3, <4>4, SameBytes
    <3>2. HeaderOK(msg) /\ ChecksumOK(msg)
      BY <2>1, <3>1
    <3> DEFINE r == [from |-> polled, to |-> upto, msg |-> msg]
    <3>3. r.from = polled /\ r.to = upto /\ r.msg = msg
      OBVIOUS
    <3>4. uart' = Append(uart, r)
      BY <1>9, <3>2 DEF LoopProcess, Forward
    <3>5. uart \in Seq([from : Nat, to : Nat, msg : Message])
      BY <1>0 DEF TypeOK
    <3> HIDE DEF r
    <3>6. Len(uart) + 1 \in 1..Len(uart') /\ uart'[Len(uart) + 1] = r
      BY <3>4, <3>5
    <3>7. Forwarded(k)'
      BY <2>1, <2>2, <3>1, <3>3, <3>6 DEF Forwarded
    <3> QED BY <3>7
  <2> QED BY <1>1, <1>2, <2>1, <2>2
<1>10. CASE UNCHANGED vars
  BY <1>1, <1>2, <1>10 DEF vars
<1> QED BY <1>3, <1>4, <1>5, <1>6, <1>7, <1>8, <1>9, <1>10 DEF Next, Recv, Loop

\* A valid frame that no other one comes too close to is forwarded as it was
\* received: with one buffer and one flag, loop() loses or tears a frame only
\* when another arrives before its clear, or when it comes in during a copy.
THEOREM ApartAreForwarded == Spec => []ApartForwarded
<1>1. Init => ApartInv
  BY DEF Init, ApartInv
<1>2. ApartInv => ApartForwarded
  BY DEF ApartInv, ApartForwarded
<1> QED BY <1>1, <1>2, CopiesInit, CopiesStep, ApartStep, PTL DEF Spec
============================================================================
