--------------------------- MODULE MyncPartsProofs ---------------------------
(***************************************************************************)
(* Theorems about two parts of mync that share no state: its id generator  *)
(* (Snowflake), for every number of threads and every width of the fields  *)
(* of an id, and its standard input (MyncStdin), for every number of       *)
(* workers and chunks.                                                     *)
(***************************************************************************)
EXTENDS Snowflake, MyncStdin, TLAPS

-----------------------------------------------------------------------------
(***************************************************************************)
(* The id generator.                                                       *)
(***************************************************************************)

(* The order of ids is that of their timestamps and sequence numbers.      *)

Sequences == 0..MAX_SEQUENCE

LEMMA Product ==
  ASSUME NEW a \in Nat, NEW b \in Nat, NEW k \in Nat, a < b
  PROVE  a * k + k <= b * k
<1>1. PICK d \in Nat : b = a + 1 + d
  <2>1. b - a - 1 \in Nat /\ b = a + 1 + (b - a - 1)
    OBVIOUS
  <2> QED BY <2>1
<1>2. b * k = a * k + k + d * k
  BY <1>1
<1>3. d * k \in Nat
  OBVIOUS
<1>4. a * k \in Nat
  OBVIOUS
<1> QED BY <1>2, <1>3, <1>4

\* The timestamp and the worker id, without the sequence number.
Prefix(ts) == (ts - EPOCH) * WORKER_IDS + WORKER_ID

LEMMA PrefixType ==
  ASSUME NEW ts \in Clocks
  PROVE  Prefix(ts) \in Nat /\ Prefix(ts) < TIMESTAMPS * WORKER_IDS
<1>1. ts - EPOCH \in Nat /\ ts - EPOCH < TIMESTAMPS
  BY ClockAssumption, FieldsAssumption DEF Clocks
<1>2. (ts - EPOCH) * WORKER_IDS + WORKER_IDS <= TIMESTAMPS * WORKER_IDS
  BY <1>1, Product, FieldsAssumption
<1>3. (ts - EPOCH) * WORKER_IDS \in Nat /\ TIMESTAMPS * WORKER_IDS \in Nat
  BY <1>1, FieldsAssumption
<1> QED BY <1>2, <1>3, FieldsAssumption DEF Prefix

LEMMA PrefixOrder ==
  ASSUME NEW a \in Clocks, NEW b \in Clocks, a < b
  PROVE  Prefix(a) < Prefix(b)
<1>1. a - EPOCH \in Nat /\ b - EPOCH \in Nat /\ a - EPOCH < b - EPOCH
  BY ClockAssumption DEF Clocks
<1>2. (a - EPOCH) * WORKER_IDS + WORKER_IDS <= (b - EPOCH) * WORKER_IDS
  BY <1>1, Product, FieldsAssumption
<1>3. (a - EPOCH) * WORKER_IDS \in Nat /\ (b - EPOCH) * WORKER_IDS \in Nat
  BY <1>1, FieldsAssumption
<1>4. WORKER_IDS > 0
  BY FieldsAssumption
<1> QED BY <1>2, <1>3, <1>4, FieldsAssumption DEF Prefix

\* While the clock is within the timestamps' range no field overflows: the
\* id is its fields side by side.
LEMMA IdValue ==
  ASSUME NEW ts \in Clocks, NEW seq \in Sequences
  PROVE  /\ Id(ts, seq) = Prefix(ts) * Sequence + seq
         /\ Prefix(ts) * Sequence \in Nat
         /\ Id(ts, seq) \in Int
<1> DEFINE p == Prefix(ts)
           n == TIMESTAMPS * WORKER_IDS
<1>1. p \in Nat /\ p < n
  BY PrefixType
<1>2. /\ n \in Nat /\ Sequence \in Nat /\ Sequence > 0
      /\ seq \in Nat /\ seq < Sequence
  BY FieldsAssumption DEF Sequence, Sequences
<1>3. IdLimit = n * Sequence
  BY FieldsAssumption DEF IdLimit, Sequence
<1>4. Id(ts, seq) = (p * Sequence + seq) % IdLimit
  BY DEF Id, Prefix
<1> HIDE DEF p, n
<1>5. p * Sequence + Sequence <= n * Sequence
  BY <1>1, <1>2, Product
<1>6. p * Sequence \in Nat /\ n * Sequence \in Nat
  BY <1>1, <1>2
<1>7. p * Sequence + seq \in Nat /\ p * Sequence + seq < n * Sequence
  BY <1>2, <1>5, <1>6
<1>8. \A x \in Nat, m \in Nat : x < m => x % m = x
  OBVIOUS
<1>9. Id(ts, seq) = p * Sequence + seq
  BY <1>3, <1>4, <1>6, <1>7, <1>8
<1> QED BY <1>6, <1>7, <1>9 DEF p

\* Id orders by timestamp first, then by sequence number.
LEMMA IdOrder ==
  ASSUME NEW a \in Clocks, NEW s \in Sequences,
         NEW b \in Clocks, NEW u \in Sequences,
         a < b \/ (a = b /\ s < u)
  PROVE  Id(a, s) < Id(b, u)
<1>1. /\ Id(a, s) = Prefix(a) * Sequence + s
      /\ Id(b, u) = Prefix(b) * Sequence + u
      /\ Prefix(a) * Sequence \in Nat
      /\ Prefix(b) * Sequence \in Nat
  BY IdValue
<1>2. s \in Nat /\ u \in Nat /\ s < Sequence /\ Sequence \in Nat
  BY FieldsAssumption DEF Sequence, Sequences
<1>3. CASE a < b
  <2>1. Prefix(a) \in Nat /\ Prefix(b) \in Nat /\ Prefix(a) < Prefix(b)
    BY <1>3, PrefixType, PrefixOrder
  <2>2. Prefix(a) * Sequence + Sequence <= Prefix(b) * Sequence
    BY <2>1, <1>2, Product
  <2> QED BY <1>1, <1>2, <2>2
<1>4. CASE a = b /\ s < u
  BY <1>1, <1>2, <1>4
<1> QED BY <1>3, <1>4

-----------------------------------------------------------------------------
(* Types.                                                                  *)

LEMMA InitGeneratorType == GeneratorInit => GeneratorType
BY ClockAssumption, FieldsAssumption DEF GeneratorInit, GeneratorType, Clocks

LEMMA NextGeneratorType ==
  GeneratorType /\ [GeneratorNext]_generator => GeneratorType'
<1> SUFFICES ASSUME GeneratorType, [GeneratorNext]_generator
             PROVE  GeneratorType'
  OBVIOUS
<1> USE ClockAssumption, FieldsAssumption DEF GeneratorType, Clocks
<1>1. CASE Tick
  BY <1>1 DEF Tick
<1>2. CASE SetBack
  BY <1>2 DEF SetBack
<1>3. ASSUME NEW t \in Callers, next_id(t) PROVE GeneratorType'
  <2>1. ASSUME NEW ts \in Clocks, NEW seq \in Sequences, Return(t, ts, seq)
        PROVE  /\ last_timestamp_ms_' \in 0..MaxClock
               /\ issued' \in Seq(Int)
               /\ mtx_' = {}
               /\ place' \in [Callers -> {"idle", "decide", "wait"}]
    <3>1. Id(ts, seq) \in Int
      BY IdValue
    <3> QED BY <2>1, <3>1 DEF Return, Release
  <2>2. 0 \in Sequences /\ sequence_ \in Sequences
    BY DEF Sequences
  <2>3. CASE Call(t)
    BY <2>3 DEF Call
  <2>4. CASE Refuse(t)
    BY <2>4 DEF Refuse, Release
  <2>5. CASE SameMs(t)
    <3>1. NextSequence \in Sequences
      BY DEF NextSequence, Sequence, Sequences
    <3> QED BY <2>5, <2>1, <3>1 DEF SameMs, Sequences
  <2>6. CASE Overflow(t)
    BY <2>6 DEF Overflow
  <2>7. CASE NewMs(t)
    BY <2>7, <2>1, <2>2 DEF NewMs
  <2>8. CASE Await(t)
    BY <2>8, <2>1, <2>2 DEF Await
  <2> QED BY <1>3, <2>3, <2>4, <2>5, <2>6, <2>7, <2>8 DEF next_id
<1>4. CASE UNCHANGED generator
  BY <1>4 DEF generator
<1> QED BY <1>1, <1>2, <1>3, <1>4 DEF GeneratorNext

\* The generator's state stays within its fields: no sequence number needs
\* more bits than it has, and one thread at a time is in next_id().
THEOREM GeneratorTypeCorrect == GeneratorSafety => []GeneratorType
BY InitGeneratorType, NextGeneratorType, PTL DEF GeneratorSafety

-----------------------------------------------------------------------------
(* No id is issued twice.                                                  *)

Locked == \A t \in Callers : place[t] # "idle" => mtx_ = {t}

\* id was issued before the state the generator is in: in an earlier
\* millisecond, or in the last one with a sequence number up to sequence_,
\* or with any when sequence_ has overflowed and the next one is awaited.
Past(id) ==
  \E a \in Clocks, s \in Sequences :
    /\ id = Id(a, s)
    /\ \/ a < last_timestamp_ms_
       \/ /\ a = last_timestamp_ms_
          /\ s <= sequence_ \/ \E t \in Callers : place[t] = "wait"

\* IdsIncrease says nothing of the ids to come; what is inductive is that
\* all the issued ones are in the past.
IdsInv ==
  /\ GeneratorType
  /\ Locked
  /\ \A i \in 1..Len(issued) : Past(issued[i])
  /\ IdsIncrease

LEMMA InitIdsInv == GeneratorInit => IdsInv
BY InitGeneratorType DEF GeneratorInit, IdsInv, Locked, IdsIncrease

\* What every return from next_id() has to show.
LEMMA ReturnIdsInv ==
  ASSUME IdsInv, GeneratorType', NEW t \in Callers, place[t] # "idle",
         NEW ts \in Clocks, NEW seq \in Sequences,
         Return(t, ts, seq), sequence_' = seq,
         \/ ts > last_timestamp_ms_
         \/ ts = last_timestamp_ms_ /\ seq > sequence_ /\ place[t] # "wait"
  PROVE  IdsInv'
<1> USE DEF IdsInv
<1>1. /\ issued \in Seq(Int)
      /\ Id(ts, seq) \in Int
      /\ issued' = Append(issued, Id(ts, seq))
      /\ last_timestamp_ms_' = ts
      /\ mtx_' = {}
      /\ place' = [place EXCEPT ![t] = "idle"]
  BY IdValue DEF Return, Release, GeneratorType
<1>2. ASSUME NEW u \in Callers, u # t PROVE place[u] = "idle"
  BY <1>2 DEF Locked
<1>3. Locked'
  BY <1>1, <1>2 DEF Locked, GeneratorType
<1>4. ASSUME NEW i \in 1..Len(issued)
      PROVE  issued[i] < Id(ts, seq) /\ Past(issued[i])'
  <2>1. PICK a \in Clocks, s \in Sequences :
          /\ issued[i] = Id(a, s)
          /\ \/ a < last_timestamp_ms_
             \/ /\ a = last_timestamp_ms_
                /\ s <= sequence_ \/ \E u \in Callers : place[u] = "wait"
    BY DEF Past
  <2>2. a < ts \/ (a = ts /\ s < seq)
    <3>1. /\ a \in Int /\ ts \in Int /\ last_timestamp_ms_ \in Int
          /\ s \in Int /\ seq \in Int /\ sequence_ \in Int
      BY FieldsAssumption, ClockAssumption DEF GeneratorType, Clocks, Sequences
    <3>2. place[t] # "wait" => ~\E u \in Callers : place[u] = "wait"
      BY <1>2
    <3> QED BY <2>1, <3>1, <3>2
  <2>3. issued'[i] = issued[i]
    BY <1>1
  <2>4. issued[i] < Id(ts, seq)
    BY <2>1, <2>2, IdOrder
  <2>5. a < ts \/ (a = ts /\ s <= seq)
    BY <2>2 DEF Sequences
  <2>6. Past(issued[i])'
    BY <1>1, <2>1, <2>3, <2>5 DEF Past
  <2> QED BY <2>4, <2>6
<1>5. /\ Len(issued') = Len(issued) + 1
      /\ Len(issued) \in Nat
      /\ \A i \in 1..Len(issued) : issued'[i] = issued[i]
      /\ issued'[Len(issued) + 1] = Id(ts, seq)
  BY <1>1
<1>6. Past(issued[Len(issued)])'
  <2>1. seq <= seq
    BY DEF Sequences
  <2> QED BY <1>1, <1>5, <2>1 DEF Past
<1>7. \A i \in 1..Len(issued') : Past(issued[i])'
  BY <1>4, <1>5, <1>6
<1>8. IdsIncrease'
  <2> SUFFICES ASSUME NEW i \in 1..Len(issued'), NEW j \in 1..Len(issued'), i < j
               PROVE  issued'[i] < issued'[j]
    BY DEF IdsIncrease
  <2>1. CASE j = Len(issued) + 1
    BY <2>1, <1>4, <1>5
  <2>2. CASE j # Len(issued) + 1
    BY <2>2, <1>5 DEF IdsIncrease
  <2> QED BY <2>1, <2>2
<1> QED BY <1>3, <1>7, <1>8

\* Without SnowflakeGenerator's comparison it takes a clock that is not behind
\* the last id: then another millisecond is a later one.
LEMMA NextIdsInv ==
  ASSUME WaitForLater \/ last_timestamp_ms_ <= clock,
         IdsInv, [GeneratorNext]_generator
  PROVE  IdsInv'
<1> GeneratorType /\ GeneratorType'
  BY NextGeneratorType DEF IdsInv
<1>1. ASSUME UNCHANGED <<mtx_, place, last_timestamp_ms_, sequence_, issued>>
      PROVE  IdsInv'
  BY <1>1 DEF IdsInv, Locked, Past, IdsIncrease
<1>2. ASSUME NEW t \in Callers, next_id(t) PROVE IdsInv'
  <2>0. 0 \in Sequences /\ sequence_ \in Sequences
    BY FieldsAssumption DEF GeneratorType, Sequences
  <2>1. CASE Call(t)
    <3>1. \A u \in Callers : place[u] = "idle"
      BY <2>1 DEF Call, IdsInv, Locked
    <3>2. Locked'
      BY <2>1, <3>1 DEF Call, Locked, GeneratorType
    <3>3. \A u \in Callers : place[u] = "wait" => place'[u] = "wait"
      BY <3>1
    <3> QED BY <2>1, <3>2, <3>3 DEF Call, IdsInv, Past, IdsIncrease
  <2>2. CASE Refuse(t)
    <3>1. \A u \in Callers : place[u] = "wait" => u # t
      BY <2>2 DEF Refuse
    <3>2. \A u \in Callers : u # t => place'[u] = place[u] /\ place[u] = "idle"
      BY <2>2 DEF Refuse, Release, GeneratorType, IdsInv, Locked
    <3>3. Locked'
      BY <2>2, <3>2 DEF Refuse, Release, Locked, GeneratorType
    <3> QED BY <2>2, <3>1, <3>2, <3>3 DEF Refuse, IdsInv, Past, IdsIncrease
  <2>3. CASE SameMs(t)
    <3>0. sequence_ \in 0..MAX_SEQUENCE /\ NextSequence # 0
      BY <2>3 DEF SameMs, GeneratorType
    <3>1. NextSequence \in Sequences /\ NextSequence > sequence_
      BY <3>0, FieldsAssumption DEF NextSequence, Sequence, Sequences
    <3>2. timestamp[t] \in Clocks
      BY DEF GeneratorType
    <3> QED BY <2>3, <3>1, <3>2, ReturnIdsInv DEF SameMs
  <2>4. CASE Overflow(t)
    <3>1. Locked'
      BY <2>4 DEF Overflow, Locked, GeneratorType, IdsInv
    <3>2. place'[t] = "wait"
      BY <2>4 DEF Overflow, GeneratorType
    <3> QED BY <2>4, <3>1, <3>2 DEF Overflow, IdsInv, Past, IdsIncrease
  <2>5. CASE NewMs(t)
    <3>1. timestamp[t] \in Clocks
      BY DEF GeneratorType
    <3> QED BY <2>0, <2>5, <3>1, ReturnIdsInv DEF NewMs
  <2>6. CASE Await(t)
    <3>1. CASE LaterMs(clock)
      <4>1. /\ Return(t, clock, sequence_)
            /\ sequence_' = sequence_ /\ place[t] # "idle"
        <5>1. LaterMs(clock) => OtherMs(clock)
          BY ClockAssumption DEF LaterMs, OtherMs, GeneratorType, Clocks
        <5> QED BY <2>6, <3>1, <5>1 DEF Await
      <4>2. clock \in Clocks /\ clock > last_timestamp_ms_
        BY <3>1 DEF LaterMs, GeneratorType
      <4> QED BY <2>0, <4>1, <4>2, ReturnIdsInv
    <3>2. CASE ~LaterMs(clock)
      <4>1. WaitForLater \/ ~OtherMs(clock)
        BY <3>2, ClockAssumption DEF LaterMs, OtherMs, GeneratorType, Clocks
      <4> QED BY <1>1, <2>6, <3>2, <4>1 DEF Await
    <3> QED BY <3>1, <3>2
  <2> QED BY <1>2, <2>1, <2>2, <2>3, <2>4, <2>5, <2>6 DEF next_id
<1>3. CASE Tick
  BY <1>1, <1>3 DEF Tick
<1>4. CASE SetBack
  BY <1>1, <1>4 DEF SetBack
<1>5. CASE UNCHANGED generator
  BY <1>1, <1>5 DEF generator
<1> QED BY <1>2, <1>3, <1>4, <1>5 DEF GeneratorNext

\* SnowflakeGenerator, whose wait ends with a later millisecond only, issues
\* strictly increasing ids to any number of threads, and however the clock
\* is set back.
THEOREM GeneratorIdsIncrease ==
  ASSUME WaitForLater
  PROVE  GeneratorSafety => []IdsIncrease
<1>1. IdsInv /\ [GeneratorNext]_generator => IdsInv'
  BY NextIdsInv
<1>2. IdsInv => IdsIncrease
  BY DEF IdsInv
<1> QED BY <1>1, <1>2, InitIdsInv, PTL DEF GeneratorSafety

-----------------------------------------------------------------------------
(* The other generator, and what it needs of the clock.                    *)

\* A clock that was never set back is not behind what was read from it.
Steady ==
  setBacks = 0 =>
    /\ last_timestamp_ms_ <= clock
    /\ \A t \in Callers : timestamp[t] <= clock

SteadyInv == GeneratorType /\ Steady /\ (setBacks = 0 => IdsInv)

LEMMA SteadyStep ==
  GeneratorType /\ Steady /\ [GeneratorNext]_generator => Steady'
<1> SUFFICES ASSUME GeneratorType, Steady, [GeneratorNext]_generator,
                    setBacks' = 0
             PROVE  /\ last_timestamp_ms_' <= clock'
                    /\ \A t \in Callers : timestamp'[t] <= clock'
  BY DEF Steady
<1> USE ClockAssumption DEF GeneratorType, Clocks
<1>1. ~SetBack
  BY DEF SetBack
<1>2. setBacks = 0
  BY <1>1 DEF GeneratorNext, Tick, next_id, Call, Refuse, SameMs, Overflow,
     NewMs, Await, generator
<1>3. /\ last_timestamp_ms_ <= clock
      /\ \A t \in Callers : timestamp[t] <= clock
  BY <1>2 DEF Steady
<1>4. CASE Tick
  BY <1>3, <1>4 DEF Tick
<1>5. ASSUME NEW t \in Callers, next_id(t)
      PROVE  /\ last_timestamp_ms_' <= clock'
             /\ \A u \in Callers : timestamp'[u] <= clock'
  <2>0. CASE Call(t)
    BY <1>3, <2>0 DEF Call
  <2>1. CASE Refuse(t) \/ Overflow(t)
    BY <1>3, <2>1 DEF Refuse, Overflow
  <2>2. CASE SameMs(t) \/ NewMs(t)
    BY <1>3, <2>2 DEF SameMs, NewMs, Return
  <2>3. CASE Await(t)
    BY <1>3, <2>3 DEF Await, Return
  <2> QED BY <1>5, <2>0, <2>1, <2>2, <2>3 DEF next_id
<1>6. CASE UNCHANGED generator
  BY <1>3, <1>6 DEF generator
<1> QED BY <1>1, <1>4, <1>5, <1>6 DEF GeneratorNext

LEMMA SteadyInvStep == SteadyInv /\ [GeneratorNext]_generator => SteadyInv'
<1> SUFFICES ASSUME SteadyInv, [GeneratorNext]_generator PROVE SteadyInv'
  OBVIOUS
<1>1. GeneratorType' /\ Steady'
  BY NextGeneratorType, SteadyStep DEF SteadyInv
<1>2. ASSUME setBacks' = 0 PROVE IdsInv'
  <2>1. setBacks = 0
    BY <1>2 DEF GeneratorNext, SetBack, Tick, next_id, Call, Refuse, SameMs, Overflow,
       NewMs, Await, generator, SteadyInv, GeneratorType
  <2>2. IdsInv /\ last_timestamp_ms_ <= clock
    BY <2>1 DEF SteadyInv, Steady
  <2> QED BY <2>2, NextIdsInv
<1> QED BY <1>1, <1>2 DEF SteadyInv

\* A generator of either kind, the test container's too, whose wait ends with
\* any other millisecond, issues strictly increasing ids as long as the clock
\* has not been set back: the comparison is the only thing that makes the
\* other generator depend on the clock.
THEOREM SteadyIdsIncrease == GeneratorSafety => [](setBacks = 0 => IdsIncrease)
<1>1. GeneratorInit => SteadyInv
  BY InitGeneratorType, InitIdsInv, ClockAssumption
     DEF GeneratorInit, SteadyInv, Steady
<1>2. SteadyInv => (setBacks = 0 => IdsIncrease)
  BY DEF SteadyInv, IdsInv
<1> QED BY <1>1, <1>2, SteadyInvStep, PTL DEF GeneratorSafety
-----------------------------------------------------------------------------
(***************************************************************************)
(* Standard input in client mode.                                          *)
(***************************************************************************)
StdinPcs == {"none", "poll", "wait", "dispatch", "blocked", "fullstop", "gone", "join"}
StdinEventSets == SUBSET {"stdinIn", "stdinHup", "sockIn", "sockHup"}

StdinType ==
  /\ typed \in Nat /\ unread \in Nat /\ sent \in Nat
  /\ pc \in [Threads -> StdinPcs]
  /\ batch \in [Threads -> StdinEventSets]
  /\ stdin_closed \in [Threads -> BOOLEAN]

\* A client is alone with its terminal: no worker runs, and the number 0 stays
\* the terminal's, which never hangs up.
Alone ==
  /\ \A w \in Workers : pc[w] = "none"
  /\ zero = "stdin"
  /\ "stdinHup" \notin batch[Main]

\* What is typed is sent or still unread, unless a send has failed; nothing
\* is unread, or sent too little, once the end was read.
Accounted ==
  /\ stdin_closed[Main] => unread = 0 /\ sent = typed
  /\ proc # "threw" => sent + unread = typed

StdinInv == StdinType /\ (mode = "client" /\ kind = "tty" => Alone /\ Accounted)

LEMMA InitStdinInv == Init => StdinInv
BY DEF Init, StdinInv, StdinType, StdinPcs, StdinEventSets, Alone, Accounted,
   Threads, Workers, Main

LEMMA StdinTypeStep == StdinType /\ [Next]_vars => StdinType'
<1> SUFFICES ASSUME StdinType, [Next]_vars PROVE StdinType'
  OBVIOUS
<1> USE DEF StdinType, StdinPcs, StdinEventSets, input, number, socket, flags,
   Takes
<1>0. Main \in Threads /\ Workers \subseteq Threads
  BY DEF Threads
<1>1. CASE Environment
  BY <1>1 DEF Environment, Type, EndInput, PeerSends, PeerCloses, StopSignal
<1>2. CASE \/ BadArguments \/ CreateSocketFails
          \/ AcceptZero \/ Join
  BY <1>2 DEF BadArguments, CreateSocketFails, Exits, AcceptZero, Join
<1>3. CASE Start
  BY <1>3 DEF Start
<1>4. ASSUME NEW t \in Threads, Thread(t) PROVE StdinType'
  <2>1. CASE Wait(t)
    <3>1. PICK evs \in StdinEvents(t) :
            batch' = [batch EXCEPT ![t] = evs \cup SocketEvents]
      BY <2>1 DEF Wait
    <3>2. /\ evs \subseteq {"stdinIn", "stdinHup"}
          /\ SocketEvents \subseteq {"sockIn", "sockHup"}
      BY DEF StdinEvents, SocketEvents
    <3> QED BY <2>1, <3>1, <3>2 DEF Wait
  <2>2. CASE LoopGoesOn(t) \/ BatchDone(t) \/ LeaveExec(t)
    BY <2>2 DEF LoopGoesOn, BatchDone, LeaveExec
  <2>e. ASSUME NEW e, Takes(t, e)
        PROVE  batch' \in [Threads -> StdinEventSets]
    BY <2>e
  <2>3. CASE StdinHup(t) \/ SocketHup(t) \/ SocketData(t)
    <3> HIDE DEF Takes
    <3> QED BY <2>3, <2>e DEF StdinHup, SocketHup, SocketData
  <2>4. ReadReturns(t) => /\ unread' \in Nat /\ sent' \in Nat
                          /\ stdin_closed' \in [Threads -> BOOLEAN]
    <3>1. Chunk(t) => /\ unread' \in Nat /\ sent' \in Nat
                   /\ UNCHANGED stdin_closed
      BY DEF Chunk
    <3>2. EndOfInput(t) => /\ UNCHANGED <<unread, sent>>
                           /\ stdin_closed' \in [Threads -> BOOLEAN]
      BY DEF EndOfInput
    <3> QED BY <3>1, <3>2 DEF ReadReturns
  <2>5. CASE Stdin(t) \/ BlockedReadReturns(t)
    BY <2>4, <2>5 DEF Stdin, BlockedReadReturns
  <2>6. CASE StdinIsNot(t)
    BY <2>6 DEF StdinIsNot
  <2> QED BY <1>4, <2>1, <2>2, <2>3, <2>5, <2>6 DEF Thread
<1>5. ASSUME NEW w \in Workers, Fullstop(w) PROVE StdinType'
  BY <1>0, <1>5 DEF Fullstop
<1>6. CASE UNCHANGED vars
  BY <1>6 DEF vars
<1> QED BY <1>1, <1>2, <1>3, <1>4, <1>5, <1>6 DEF Next

LEMMA StdinInvStep == StdinInv /\ [Next]_vars => StdinInv'
<1> SUFFICES ASSUME StdinInv, [Next]_vars PROVE StdinInv'
  OBVIOUS
<1> USE DEF StdinInv, StdinType, StdinPcs, StdinEventSets, input, number,
   socket, flags, Takes
<1>0. /\ Main \in Threads /\ Main \notin Workers
      /\ Workers \subseteq Threads
  BY DEF Threads, Workers, Main
<1>m. UNCHANGED <<mode, kind>>
  BY DEF Next, Environment, Type, EndInput, PeerSends, PeerCloses, StopSignal,
     BadArguments, CreateSocketFails, Exits, Start, AcceptZero, Join,
     Fullstop, Thread, LoopGoesOn, Wait, BatchDone, StdinHup, SocketHup, SocketData,
     Stdin, BlockedReadReturns, StdinIsNot, LeaveExec, vars
<1>t. StdinType'
  BY StdinTypeStep
<1> SUFFICES ASSUME mode = "client", kind = "tty" PROVE Alone' /\ Accounted'
  BY <1>m, <1>t
<1>i. StdinType /\ Alone /\ Accounted
  OBVIOUS
<1> HIDE DEF StdinInv
<1>1. CASE Environment
  BY <1>i, <1>1 DEF Environment, Type, EndInput, PeerSends, PeerCloses,
     StopSignal, Alone, Accounted
<1>2. CASE BadArguments \/ CreateSocketFails \/ Join
  BY <1>i, <1>2 DEF BadArguments, CreateSocketFails, Exits, Join, Running,
     Alone, Accounted
<1>3. CASE Start
  BY <1>0, <1>i, <1>3 DEF Start, Alone, Accounted
<1>a. ~AcceptZero
  BY DEF AcceptZero
<1>4. ASSUME NEW t \in Threads, Thread(t) PROVE Alone' /\ Accounted'
  <2>0. t = Main
    BY <1>i, <1>4 DEF Threads, Alone, Thread, LoopGoesOn, Wait, BatchDone, StdinHup,
       SocketHup, SocketData, Stdin, BlockedReadReturns, StdinIsNot, LeaveExec
  <2>1. CASE Wait(t)
    <3>1. PICK evs \in StdinEvents(t) :
            batch' = [batch EXCEPT ![t] = evs \cup SocketEvents]
      BY <2>1 DEF Wait
    <3>2. "stdinHup" \notin evs \cup SocketEvents
      BY <1>i DEF StdinEvents, SocketEvents, Alone
    <3> QED BY <1>0, <1>i, <2>0, <2>1, <3>1, <3>2 DEF Wait, Alone, Accounted
  <2>2. CASE LoopGoesOn(t) \/ BatchDone(t) \/ LeaveExec(t)
    BY <1>0, <1>i, <2>0, <2>2 DEF LoopGoesOn, BatchDone, LeaveExec, Alone, Accounted
  <2>3. CASE SocketHup(t) \/ SocketData(t)
    BY <1>0, <1>i, <2>0, <2>3 DEF SocketHup, SocketData, Alone, Accounted,
       Running
  <2>4. ~StdinHup(t) /\ ~StdinIsNot(t)
    BY <1>i, <2>0 DEF StdinHup, StdinIsNot, Alone
  <2>5. ASSUME ReadReturns(t), Running, UNCHANGED typed
        PROVE  Accounted'
    <3>1. CASE Chunk(t)
      BY <1>i, <2>0, <2>5, <3>1 DEF Chunk, Accounted, Running
    <3>2. CASE EndOfInput(t)
      BY <1>i, <2>0, <2>5, <3>2 DEF EndOfInput, Accounted, Running
    <3> QED BY <2>5, <3>1, <3>2 DEF ReadReturns
  <2>6. CASE Stdin(t)
    <3>1. Alone'
      BY <1>0, <1>i, <2>0, <2>6 DEF Stdin, Alone
    <3>2. Accounted'
      BY <1>i, <2>5, <2>6 DEF Stdin, Accounted
    <3> QED BY <3>1, <3>2
  <2>7. CASE BlockedReadReturns(t)
    <3>1. Alone'
      BY <1>0, <1>i, <2>0, <2>7 DEF BlockedReadReturns, Alone
    <3> QED BY <2>5, <2>7, <3>1 DEF BlockedReadReturns
  <2> QED BY <1>4, <2>1, <2>2, <2>3, <2>4, <2>6, <2>7 DEF Thread
<1>5. ASSUME NEW w \in Workers PROVE ~Fullstop(w)
  BY <1>i DEF Fullstop, Alone
<1>6. CASE UNCHANGED vars
  BY <1>i, <1>6 DEF vars, Alone, Accounted
<1> QED BY <1>1, <1>2, <1>3, <1>a, <1>4, <1>5, <1>6 DEF Next

\* In client mode, everything typed at a terminal before its end has been sent
\* when the output is shut down: no chunk is skipped, whatever the socket, the
\* user and the peer do meanwhile.  (handle_stdin, client_mode_epoll.)
THEOREM TypedIsSent == Spec => []AllTypedSent
<1>1. StdinInv => AllTypedSent
  BY DEF StdinInv, Accounted, AllTypedSent
<1> QED BY <1>1, InitStdinInv, StdinInvStep, PTL DEF Spec
=============================================================================
