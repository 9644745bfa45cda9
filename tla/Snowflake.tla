------------------------------ MODULE Snowflake ------------------------------
(***************************************************************************)
(* The id generators SnowflakeGenerator (src/mync/snowflakeidgen.h) and    *)
(* SnowflakeIDGenerator (src/testcontainer/main.cpp), which differ in one  *)
(* comparison: what ends the wait for the next millisecond.  next_id()     *)
(* holds mtx_ from its first line to its last, the wait included.          *)
(*                                                                         *)
(* The clock is the system clock in milliseconds; it advances, and it may  *)
(* be set back at any moment, a bounded number of times.                   *)
(*                                                                         *)
(* A definition named X_Flaw, before a definition X, is X with a plausible *)
(* mistake in it: it shows that a property would notice the mistake.       *)
(***************************************************************************)
EXTENDS Integers, Sequences

CONSTANTS
  Callers,       \* the threads that call next_id()
  EPOCH,         \* EPOCH_START_MS, CUSTOM_EPOCH
  MAX_SEQUENCE,  \* greatest sequence number of a millisecond
  WORKER_IDS,    \* how many worker ids fit into their bits
  WORKER_ID,
  TIMESTAMPS,    \* how many timestamps fit into theirs
  WaitForLater,  \* SnowflakeGenerator's comparison, or the other one's
  MaxClock,      \* the last millisecond considered (bound)
  MaxSetBacks    \* how often the clock is set back (bound)

\* The id outlives the clock: 41 bits of milliseconds are 69 years.
ASSUME ClockAssumption ==
  /\ EPOCH \in Nat
  /\ MaxClock \in Nat
  /\ EPOCH <= MaxClock
  /\ MaxClock - EPOCH < TIMESTAMPS
  /\ MaxSetBacks \in Nat
ASSUME FieldsAssumption ==
  /\ MAX_SEQUENCE \in Nat
  /\ WORKER_IDS \in Nat
  /\ WORKER_ID \in 0..(WORKER_IDS - 1)
  /\ TIMESTAMPS \in Nat
ASSUME VariantAssumption == WaitForLater \in BOOLEAN

VARIABLES
  clock, setBacks,     \* the system clock, and how often it was set back
  mtx_,                \* the thread in next_id()
  place, timestamp,    \* where each thread is, and its local variable
  last_timestamp_ms_,
  sequence_,
  issued               \* the ids returned, oldest first

generator == <<clock, setBacks, mtx_, place, timestamp, last_timestamp_ms_,
               sequence_, issued>>

Sequence == MAX_SEQUENCE + 1
Clocks   == EPOCH..MaxClock
IdLimit  == TIMESTAMPS * (WORKER_IDS * Sequence)

GeneratorType ==
  /\ clock \in Clocks
  /\ setBacks \in 0..MaxSetBacks
  /\ mtx_ \in {{}} \cup {{t} : t \in Callers}
  /\ place \in [Callers -> {"idle", "decide", "wait"}]
  /\ timestamp \in [Callers -> Clocks]
  /\ last_timestamp_ms_ \in 0..MaxClock
  /\ sequence_ \in 0..MAX_SEQUENCE
  /\ issued \in Seq(Int)

GeneratorInit ==
  /\ clock = EPOCH
  /\ setBacks = 0
  /\ mtx_ = {}
  /\ place = [t \in Callers |-> "idle"]
  /\ timestamp = [t \in Callers |-> EPOCH]
  /\ last_timestamp_ms_ = 0
  /\ sequence_ = 0
  /\ issued = << >>

-----------------------------------------------------------------------------
Tick ==
  /\ clock < MaxClock
  /\ clock' = clock + 1
  /\ UNCHANGED <<setBacks, mtx_, place, timestamp, last_timestamp_ms_,
                 sequence_, issued>>

SetBack ==
  /\ setBacks < MaxSetBacks
  /\ clock' \in EPOCH..(clock - 1)
  /\ setBacks' = setBacks + 1
  /\ UNCHANGED <<mtx_, place, timestamp, last_timestamp_ms_, sequence_, issued>>

\* The fields of an id side by side in an unsigned 64-bit word: a shift is a
\* multiplication, and the | of disjoint fields a sum.
Id(ts, seq) ==
  (((ts - EPOCH) * WORKER_IDS + WORKER_ID) * Sequence + seq) % IdLimit

\* lock_guard without a mutex.
Call_NoLock(t) ==
  /\ place[t] = "idle"
  /\ timestamp' = [timestamp EXCEPT ![t] = clock]
  /\ place' = [place EXCEPT ![t] = "decide"]
  /\ UNCHANGED <<clock, setBacks, mtx_, last_timestamp_ms_, sequence_, issued>>

\* next_id() takes the mutex and reads the clock.
Call(t) ==
  /\ place[t] = "idle"
  /\ mtx_ = {}
  /\ mtx_' = {t}
  /\ timestamp' = [timestamp EXCEPT ![t] = clock]
  /\ place' = [place EXCEPT ![t] = "decide"]
  /\ UNCHANGED <<clock, setBacks, last_timestamp_ms_, sequence_, issued>>

Release(t) ==
  /\ mtx_' = {}
  /\ place' = [place EXCEPT ![t] = "idle"]

\* The end of next_id(): the state is updated, the id assembled.
Return(t, ts, seq) ==
  /\ last_timestamp_ms_' = ts
  /\ issued' = Append(issued, Id(ts, seq))
  /\ Release(t)

\* The clock moved backwards: an exception, nothing changes.
Refuse(t) ==
  /\ place[t] = "decide"
  /\ timestamp[t] < last_timestamp_ms_
  /\ Release(t)
  /\ UNCHANGED <<clock, setBacks, timestamp, last_timestamp_ms_, sequence_,
                 issued>>

\* & MAX_SEQUENCE
NextSequence == (sequence_ + 1) % Sequence

SameMs(t) ==
  /\ place[t] = "decide"
  /\ timestamp[t] = last_timestamp_ms_
  /\ NextSequence # 0
  /\ sequence_' = NextSequence
  /\ Return(t, timestamp[t], NextSequence)
  /\ UNCHANGED <<clock, setBacks, timestamp>>

\* The ids of this millisecond are used up: sequence_ is 0 already while
\* last_timestamp_ms_ still is the old one.
Overflow(t) ==
  /\ place[t] = "decide"
  /\ timestamp[t] = last_timestamp_ms_
  /\ NextSequence = 0
  /\ sequence_' = 0
  /\ place' = [place EXCEPT ![t] = "wait"]
  /\ UNCHANGED <<clock, setBacks, mtx_, timestamp, last_timestamp_ms_, issued>>

NewMs(t) ==
  /\ place[t] = "decide"
  /\ timestamp[t] > last_timestamp_ms_
  /\ sequence_' = 0
  /\ Return(t, timestamp[t], 0)
  /\ UNCHANGED <<clock, setBacks, timestamp>>

\* while (timestamp <= last_ts)
LaterMs(now) == now > last_timestamp_ms_

\* while (timestamp == last_timestamp_)
OtherMs(now) == now # last_timestamp_ms_

\* The clock is not read again.
Await_Stale(t) ==
  /\ place[t] = "wait"
  /\ IF LaterMs(timestamp[t])
       THEN Return(t, timestamp[t], sequence_)
       ELSE UNCHANGED <<mtx_, place, last_timestamp_ms_, issued>>
  /\ UNCHANGED <<clock, setBacks, timestamp, sequence_>>

\* One round of the wait: the clock is read, and the wait ends or goes on.
Await(t) ==
  /\ place[t] = "wait"
  /\ IF (IF WaitForLater THEN LaterMs(clock) ELSE OtherMs(clock))
       THEN /\ timestamp' = [timestamp EXCEPT ![t] = clock]
            /\ Return(t, clock, sequence_)
       ELSE UNCHANGED <<mtx_, place, timestamp, last_timestamp_ms_, issued>>
  /\ UNCHANGED <<clock, setBacks, sequence_>>

next_id(t) ==
  Call(t) \/ Refuse(t) \/ SameMs(t) \/ Overflow(t) \/ NewMs(t) \/ Await(t)

GeneratorNext == Tick \/ SetBack \/ \E t \in Callers : next_id(t)

GeneratorSafety == GeneratorInit /\ [][GeneratorNext]_generator

\* Time passes, and a thread inside next_id() is scheduled.
GeneratorSpec ==
  /\ GeneratorSafety
  /\ WF_generator(Tick)
  /\ \A t \in Callers : WF_generator(place[t] # "idle" /\ next_id(t))

-----------------------------------------------------------------------------
\* The ids increase in the order in which they are issued, so that no two are
\* equal, whichever threads ask for them and however the clock is set back.
IdsIncrease ==
  \A i, j \in 1..Len(issued) : i < j => issued[i] < issued[j]

\* A caller that waits for the next millisecond, everybody else behind it on
\* the mutex, gets its id although the clock is set back under its feet.
WaitEnds ==
  \A t \in Callers :
    place[t] = "wait" ~> place[t] = "idle" \/ last_timestamp_ms_ = MaxClock
=============================================================================
