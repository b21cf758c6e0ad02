-------------------------- MODULE StartLimitProofs --------------------------
(***************************************************************************)
(* The rate bound of StartLimit, for every burst, interval, delay, word    *)
(* size and horizon.                                                       *)
(***************************************************************************)
EXTENDS StartLimit, TLAPS

\* Burst is what the code indexes the ring by: at least two when the limiter is
\* on, so the ring and the cursor are well defined.
LEMMA BurstType == LimitOn => Burst \in Nat /\ Burst >= 2
  BY LimitAssumption DEF LimitOn, Burst

\* The cursor's step (monitor.c 836 and 865) written without the modulus.
LEMMA AdvanceStep ==
  ASSUME LimitOn, NEW c \in 0..(Burst - 1)
  PROVE  Advance(c) = IF c + 1 = Burst THEN 0 ELSE c + 1
  <1>1. Burst \in Nat /\ Burst >= 2
    BY BurstType
  <1>2. CASE c + 1 = Burst
    <2>1. Burst % Burst = 0
      BY <1>1
    <2> QED
      BY <1>2, <2>1 DEF Advance
  <1>3. CASE c + 1 < Burst
    <2>1. (c + 1) % Burst = c + 1
      BY <1>1, <1>3
    <2> QED
      BY <1>1, <1>3, <2>1 DEF Advance
  <1> QED
    BY <1>1, <1>2, <1>3

\* A sum or difference that fits the word is not changed by the wrap-around.
LEMMA WordFits ==
  ASSUME NEW n \in 0..(WordSize - 1)
  PROVE  n % WordSize = n
  BY LimitAssumption

-----------------------------------------------------------------------------
\* Every state of the limiter is well typed: the cursor never leaves the ring
\* and no time leaves the word (monitor.c 824-867).
THEOREM TypeCorrect == Spec => []TypeOK
  <1>1. Init => TypeOK
    <2> SUFFICES ASSUME Init PROVE TypeOK
      OBVIOUS
    <2>1. clock \in Word
      BY LimitAssumption DEF Init, Word
    <2>2. start_times \in [Slots -> Word]
      BY <2>1, LimitAssumption DEF Init, Word
    <2>3. start_time_cursor \in IF LimitOn THEN Slots ELSE {0}
      BY BurstType, AdvanceStep DEF Init, Slots
    <2> QED
      BY <2>1, <2>2, <2>3 DEF Init, TypeOK, Phases
  <1>2. TypeOK /\ [Next]_vars => TypeOK'
    <2> SUFFICES ASSUME TypeOK, [Next]_vars PROVE TypeOK'
      OBVIOUS
    <2>1. CASE Tick
      BY <2>1, LimitAssumption DEF Tick, TypeOK
    <2>2. CASE Restart
      <3> DEFINE next == (clock + delay) % WordSize
      <3>1. next \in Word
        BY LimitAssumption DEF TypeOK, Word
      <3>2. start_times' \in [Slots -> Word]
        BY <2>2, <3>1 DEF Restart, TypeOK
      <3>3. (start_time_cursor \in IF LimitOn THEN Slots ELSE {0})'
        <4>1. CASE LimitOn
          <5>1. Advance(start_time_cursor) \in Slots
            BY <4>1, BurstType, AdvanceStep DEF TypeOK, Slots
          <5> QED
            BY <2>2, <4>1, <5>1 DEF Restart, TypeOK
        <4>2. CASE ~LimitOn
          BY <2>2, <4>2 DEF Restart, TypeOK
        <4> QED
          BY <4>1, <4>2
      <3>4. (planned \in Seq(Word) /\ Len(planned) >= 1)'
        <4>1. planned' = planned \/ planned' = Append(planned, next)
          BY <2>2 DEF Restart
        <4>2. planned \in Seq(Word) /\ Len(planned) >= 1
          BY DEF TypeOK
        <4> HIDE DEF next
        <4> QED
          BY <3>1, <4>1, <4>2
      <3> QED
        BY <2>2, <3>1, <3>2, <3>3, <3>4 DEF Restart, TypeOK, Phases
    <2>3. CASE WaitOver
      BY <2>3 DEF WaitOver, TypeOK, Phases
    <2>4. CASE StopWhileWaiting
      BY <2>4 DEF StopWhileWaiting, TypeOK, Phases
    <2>5. CASE UNCHANGED vars
      BY <2>5 DEF vars, TypeOK
    <2> QED
      BY <2>1, <2>2, <2>3, <2>4, <2>5 DEF Next
  <1> QED
    BY <1>1, <1>2, PTL DEF Spec
-----------------------------------------------------------------------------
\* The ring invariant survives an accepted restart: the new start goes into the
\* slot under the cursor, which becomes the slot one place behind it, and every
\* other slot falls one place further behind (monitor.c 864-866).
LEMMA RestartKeepsRing ==
  ASSUME TypeOK, RingIsHistory, LimitOn, NoWrap, NEW next \in Word,
         planned' = Append(planned, next),
         start_times' = [start_times EXCEPT ![start_time_cursor] = next],
         start_time_cursor' = Advance(start_time_cursor)
  PROVE  \A d \in 1..Burst :
            start_times'[Behind(d)'] =
                IF d <= Len(planned') THEN planned'[Len(planned') + 1 - d] ELSE 0
  <1>1. Burst \in Nat /\ Burst >= 2
    BY BurstType
  <1>2. start_time_cursor \in 0..(Burst - 1) /\ Slots = 0..(Burst - 1)
    BY DEF TypeOK, Slots
  <1>3. start_time_cursor' =
          IF start_time_cursor + 1 = Burst THEN 0 ELSE start_time_cursor + 1
    BY <1>2, AdvanceStep
  <1>4. Len(planned') = Len(planned) + 1 /\ planned'[Len(planned) + 1] = next
    BY DEF TypeOK
  <1>5. \A i \in 1..Len(planned) : planned'[i] = planned[i]
    BY DEF TypeOK
  <1>6. Len(planned) \in Nat
    BY DEF TypeOK
  <1> SUFFICES ASSUME NEW d \in 1..Burst
               PROVE  start_times'[Behind(d)'] =
                        IF d <= Len(planned') THEN planned'[Len(planned') + 1 - d] ELSE 0
    OBVIOUS
  <1>7. CASE d = 1
    <2>1. Behind(1)' = start_time_cursor
      BY <1>1, <1>2, <1>3 DEF Behind
    <2>2. start_times'[start_time_cursor] = next
      BY <1>2 DEF TypeOK
    <2> QED
      BY <1>4, <1>6, <1>7, <2>1, <2>2
  <1>8. CASE d # 1
    <2>1. d - 1 \in 1..Burst
      BY <1>1, <1>8
    <2>2. Behind(d)' = Behind(d - 1)
      BY <1>1, <1>2, <1>3, <1>8 DEF Behind
    <2>3. Behind(d - 1) \in 0..(Burst - 1) /\ Behind(d - 1) # start_time_cursor
      BY <1>1, <1>2, <1>8 DEF Behind
    <2>4. start_times'[Behind(d - 1)] = start_times[Behind(d - 1)]
      BY <1>2, <2>3 DEF TypeOK
    <2>5. start_times[Behind(d - 1)] =
            IF d - 1 <= Len(planned) THEN planned[Len(planned) + 1 - (d - 1)] ELSE 0
      BY <2>1 DEF RingIsHistory
    <2>6. CASE d <= Len(planned')
      <3>1. Len(planned) + 1 - (d - 1) = Len(planned') + 1 - d
        BY <1>4, <1>6
      <3>2. Len(planned') + 1 - d \in 1..Len(planned)
        BY <1>4, <1>6, <1>8, <2>6
      <3> QED
        BY <1>4, <1>5, <1>6, <2>2, <2>4, <2>5, <2>6, <3>1, <3>2
    <2>7. CASE ~(d <= Len(planned'))
      BY <1>4, <1>6, <2>2, <2>4, <2>5, <2>7
    <2> QED
      BY <2>6, <2>7
  <1> QED
    BY <1>7, <1>8

\* With LimitExceeded false, the new start lies a full interval after the start
\* Burst starts ago: the unsigned difference is the true one.
LEMMA AcceptedIsFarEnough ==
  ASSUME TypeOK, RingIsHistory, PlannedNotAhead, LimitOn, NoWrap,
         ~LimitExceeded(clock + delay), Burst <= Len(planned)
  PROVE  clock + delay - planned[Len(planned) + 1 - Burst] >= start_limit_interval
  <1> DEFINE old == planned[Len(planned) + 1 - Burst]
  <1>1. Burst \in Nat /\ Burst >= 2
    BY BurstType
  <1>2. Len(planned) + 1 - Burst \in 1..Len(planned)
    BY <1>1 DEF TypeOK
  <1>3. old \in Word /\ old <= clock + delay
    BY <1>2 DEF TypeOK, PlannedNotAhead
  <1>4. start_times[start_time_cursor] = old
    <2>1. Behind(Burst) = start_time_cursor
      BY <1>1 DEF Behind, TypeOK, Slots
    <2>2. Burst \in 1..Burst
      BY <1>1
    <2> QED
      BY <2>1, <2>2 DEF RingIsHistory
  <1>5. clock + delay - old \in 0..(WordSize - 1)
    BY <1>3, LimitAssumption, SMTT(30) DEF TypeOK, NoWrap, Word
  <1>6. (clock + delay - old) % WordSize = clock + delay - old
    BY <1>5, WordFits
  <1> HIDE DEF old
  <1>7. ~((clock + delay - old) % WordSize < start_limit_interval)
    BY <1>3, <1>4, <1>5, LimitAssumption DEF LimitExceeded, TypeOK, Word
  <1> QED
    BY <1>5, <1>6, <1>7, LimitAssumption DEF old

\* The ring, what was planned and the rate bound, which need each other, hold
\* throughout (monitor.c 824-867).
THEOREM LimitInvariance == Spec => [](RingIsHistory /\ PlannedNotAhead /\ RateBound)
  <1> DEFINE Inv == RingIsHistory /\ PlannedNotAhead /\ RateBound
  <1>1. Init => Inv
    <2> SUFFICES ASSUME Init, NoWrap
                 PROVE  /\ LimitOn => RingIsHistory
                        /\ PlannedNotAhead /\ RateBound
      BY DEF RingIsHistory, PlannedNotAhead, RateBound
    <2>1. Len(planned) = 1 /\ planned[1] = clock /\ clock \in Nat
      BY DEF Init
    <2>2. PlannedNotAhead
      BY <2>1, LimitAssumption DEF PlannedNotAhead
    <2>3. RateBound
      BY <2>1, BurstType DEF RateBound
    <2>4. ASSUME LimitOn PROVE RingIsHistory
      <3>1. Burst \in Nat /\ Burst >= 2 /\ Slots = 0..(Burst - 1)
        BY <2>4, BurstType DEF Slots
      <3>2. start_time_cursor = 1 % Burst
        BY <2>4 DEF Init, Advance
      <3>3. start_time_cursor = IF 0 + 1 = Burst THEN 0 ELSE 0 + 1
        BY <2>4, <3>1, AdvanceStep DEF Init
      <3>4. \A s \in 0..(Burst - 1) : start_times[s] = IF s = 0 THEN clock ELSE 0
        BY <3>1 DEF Init
      <3>5. \A d \in 1..Burst : Behind(d) = IF d = 1 THEN 0 ELSE Burst + 1 - d
        BY <3>1, <3>3 DEF Behind
      <3> QED
        BY <2>1, <3>1, <3>4, <3>5 DEF RingIsHistory
    <2> QED
      BY <2>2, <2>3, <2>4
  <1>2. TypeOK /\ Inv /\ [Next]_vars => Inv'
    <2> SUFFICES ASSUME TypeOK, Inv, [Next]_vars PROVE Inv'
      OBVIOUS
    <2>1. CASE Tick
      BY <2>1, LimitAssumption
      DEF Tick, TypeOK, Word, RingIsHistory, PlannedNotAhead, RateBound, Behind
    <2>2. CASE Restart
      <3> SUFFICES ASSUME NoWrap PROVE Inv'
        BY DEF RingIsHistory, PlannedNotAhead, RateBound
      <3>1. clock + delay \in Word /\ (clock + delay) % WordSize = clock + delay
        <4>1. clock \in Nat /\ delay \in Nat /\ clock <= Horizon /\ Horizon \in Nat
          BY LimitAssumption DEF TypeOK
        <4>2. clock + delay \in Nat /\ clock + delay < WordSize
          BY <4>1, LimitAssumption DEF NoWrap
        <4> QED
          BY <4>2, WordFits, LimitAssumption DEF Word
      <3>2. CASE UNCHANGED <<start_times, start_time_cursor, planned>> /\ UNCHANGED clock
        BY <3>2 DEF RingIsHistory, PlannedNotAhead, RateBound, Behind
      <3>3. CASE /\ ~(LimitOn /\ LimitExceeded(clock + delay))
                 /\ UNCHANGED clock
                 /\ planned' = Append(planned, clock + delay)
                 /\ LimitOn => /\ start_times' =
                                  [start_times EXCEPT ![start_time_cursor] = clock + delay]
                               /\ start_time_cursor' = Advance(start_time_cursor)
        <4>1. Len(planned') = Len(planned) + 1 /\ planned'[Len(planned) + 1] = clock + delay
          BY <3>1, <3>3 DEF TypeOK
        <4>2. \A i \in 1..Len(planned) : planned'[i] = planned[i]
          BY <3>1, <3>3 DEF TypeOK
        <4>3. PlannedNotAhead'
          BY <3>1, <3>3, <4>1, <4>2 DEF PlannedNotAhead, TypeOK, Word
        <4>4. RingIsHistory'
          BY <3>1, <3>3, RestartKeepsRing DEF RingIsHistory
        <4>5. RateBound'
          <5> SUFFICES ASSUME LimitOn, NEW i \in 1..Len(planned'), i + Burst <= Len(planned')
                       PROVE  planned'[i + Burst] - planned'[i] >= start_limit_interval
            BY DEF RateBound
          <5>1. Burst \in Nat /\ Burst >= 2 /\ Len(planned) \in Nat
            BY BurstType DEF TypeOK
          <5>2. CASE i + Burst <= Len(planned)
            BY <4>1, <4>2, <5>1, <5>2 DEF RateBound
          <5>3. CASE i + Burst = Len(planned) + 1
            <6>1. i = Len(planned) + 1 - Burst /\ i \in 1..Len(planned)
              BY <4>1, <5>1, <5>3
            <6>2. Burst <= Len(planned)
              BY <4>1, <5>1, <5>3
            <6>3. clock + delay - planned[i] >= start_limit_interval
              BY <3>3, <6>1, <6>2, AcceptedIsFarEnough
            <6> DEFINE new == planned'[i + Burst]
                       old == planned'[i]
            <6>4. new = clock + delay
              BY <4>1, <5>3
            <6>5. old = planned[i]
              BY <4>2, <6>1
            <6>6. new \in Int /\ old \in Int
              BY <3>1, <6>1, <6>4, <6>5, LimitAssumption, SMTT(30) DEF TypeOK, Word
            <6>7. new - old >= start_limit_interval
              <7> HIDE DEF new, old
              <7> QED
                BY <6>3, <6>4, <6>5, <6>6, LimitAssumption DEF TypeOK
            <6> QED
              BY <6>7
          <5> QED
            BY <4>1, <5>1, <5>2, <5>3
        <4> QED
          BY <4>3, <4>4, <4>5
      <3> QED
        BY <2>2, <3>1, <3>2, <3>3 DEF Restart
    <2>3. CASE WaitOver
      BY <2>3 DEF WaitOver, RingIsHistory, PlannedNotAhead, RateBound, Behind
    <2>4. CASE StopWhileWaiting
      BY <2>4 DEF StopWhileWaiting, RingIsHistory, PlannedNotAhead, RateBound, Behind
    <2>5. CASE UNCHANGED vars
      BY <2>5 DEF vars, RingIsHistory, PlannedNotAhead, RateBound, Behind
    <2> QED
      BY <2>1, <2>2, <2>3, <2>4, <2>5 DEF Next
  <1> QED
    BY <1>1, <1>2, TypeCorrect, PTL DEF Spec

\* The start limiter keeps its promise for every burst, interval and delay that
\* do not overflow the clock's word: any Burst + 1 consecutive starts it lets
\* through span at least the interval (monitor.c 843-867).
THEOREM StartRateBounded == Spec => []RateBound
  BY LimitInvariance, PTL

\* The ring under the cursor is the history of the last Burst starts that were let
\* through, in order, for every burst (monitor.c 836, 864-866).
THEOREM RingHistory == Spec => []RingIsHistory
  BY LimitInvariance, PTL
=============================================================================
