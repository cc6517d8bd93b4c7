---------------------------- MODULE CallerProofs ----------------------------
(* Theorems about the two models of ScheduledCaller: module Schedule, with *)
(* the clock, for any interval, offset, resolution and early calls, and    *)
(* module ScheduledCaller, with the owner, for any number of operations.   *)
EXTENDS Schedule, ScheduledCaller, TLAPS

USE IntervalAssumption, TicksAssumption, OffsetAssumption

-----------------------------------------------------------------------------
(* Arithmetic.                                                             *)

(* The quotient and the remainder of a division.                           *)
LEMMA Division ==
    ASSUME NEW a \in Nat, NEW b \in Nat \ {0}
    PROVE  /\ a \div b \in Nat /\ a % b \in 0 .. (b - 1)
           /\ a = b * (a \div b) + (a % b)
OBVIOUS

(* Multiples of a positive number are a whole multiple apart.              *)
LEMMA Multiples ==
    ASSUME NEW k \in Int, NEW l \in Int, NEW b \in Nat \ {0}, b * k < b * l
    PROVE  b * k + b <= b * l
<1>1. k < l
  OBVIOUS
<1>2. k + 1 <= l
  BY <1>1
<1> QED BY <1>2

(* A number of whole seconds that has passed in ticks has passed in        *)
(* seconds.                                                                *)
LEMMA SecondsPassed ==
    ASSUME NEW t \in Nat, NEW s \in Int, s * TicksPerSecond <= t
    PROVE  s <= Seconds(t)
BY DEF Seconds

LEMMA SecondsType == ASSUME NEW t \in Nat PROVE Seconds(t) \in Nat
BY Division DEF Seconds

-----------------------------------------------------------------------------
(* The timestamps.                                                         *)

(* The current timestamp is a time of the schedule: a multiple of the      *)
(* interval, moved by the offset.                                          *)
LEMMA CurrentIsScheduled ==
    ASSUME NEW t \in Nat
    PROVE  \E k \in Int : Get_current_timestamp(t) = Interval * k + Offset
<1> DEFINE q == Seconds(t) \div Interval
<1>0. Seconds(t) \in Nat
  BY SecondsType
<1>a. /\ q \in Nat /\ Seconds(t) % Interval \in 0 .. (Interval - 1)
      /\ Seconds(t) = Interval * q + (Seconds(t) % Interval)
  BY <1>0, Division
<1> HIDE DEF q
<1>1. Interval * q \in Int /\ Seconds(t) - (Seconds(t) % Interval) = Interval * q
  BY <1>0, <1>a
<1>2. CASE Interval * q + Offset > Seconds(t)
  <2>1. Get_current_timestamp(t) = Interval * q + Offset - Interval
    BY <1>1, <1>2 DEF Get_current_timestamp
  <2>2. q - 1 \in Int /\ Interval * (q - 1) = Interval * q - Interval
    BY <1>a
  <2>4. Get_current_timestamp(t) = Interval * (q - 1) + Offset
    BY <1>1, <2>1, <2>2
  <2> QED BY <2>2, <2>4
<1>3. CASE ~(Interval * q + Offset > Seconds(t))
  <2>1. Get_current_timestamp(t) = Interval * q + Offset
    BY <1>1, <1>3 DEF Get_current_timestamp
  <2> QED BY <2>1, <1>a
<1> QED BY <1>2, <1>3

(* The current and the next timestamp enclose the time, one interval apart. *)
THEOREM TimestampsEnclose ==
    ASSUME NEW t \in Nat
    PROVE  /\ Get_current_timestamp(t) \in Int
           /\ Get_current_timestamp(t) <= Seconds(t)
           /\ Seconds(t) < Get_next_timestamp(t)
           /\ Get_next_timestamp(t) = Get_current_timestamp(t) + Interval
<1>1. Seconds(t) \in Nat /\ Seconds(t) % Interval \in 0 .. (Interval - 1)
  BY SecondsType, Division
<1> QED BY <1>1 DEF Get_current_timestamp, Get_next_timestamp

(* A time of the schedule that is not in the future is not after the       *)
(* current timestamp: no other could be the latest.                        *)
LEMMA CurrentIsLatest ==
    ASSUME NEW t \in Nat, NEW k \in Int, Interval * k + Offset <= Seconds(t)
    PROVE  Interval * k + Offset <= Get_current_timestamp(t)
<1>1. PICK l \in Int : Get_current_timestamp(t) = Interval * l + Offset
  BY CurrentIsScheduled
<1>2. Interval * k \in Int /\ Interval * l \in Int
  OBVIOUS
<1>3. Interval * k < Interval * l + Interval
  BY <1>1, <1>2, TimestampsEnclose, SecondsType
<1>4. CASE Interval * l < Interval * k
  BY <1>2, <1>3, <1>4, Multiples
<1> QED BY <1>1, <1>2, <1>4

(* A time of the schedule, as a multiple and by its remainder.             *)
LEMMA ByRemainder ==
    ASSUME NEW s \in Int
    PROVE  (s - Offset) % Interval = 0 <=> \E k \in Int : s = Interval * k + Offset
<1> DEFINE a == s - Offset
           q == a \div Interval
           r == a % Interval
<1>1. a \in Int /\ q \in Int /\ r \in 0 .. (Interval - 1) /\ a = Interval * q + r
  OBVIOUS
<1> HIDE DEF q, r
<1>2. r = 0 => s = Interval * q + Offset
  BY <1>1
<1>3. ASSUME NEW k \in Int, s = Interval * k + Offset PROVE r = 0
  <2>1. Interval * k = Interval * q + r /\ Interval * k \in Int /\ Interval * q \in Int
    BY <1>1, <1>3
  <2>2. CASE Interval * q < Interval * k
    BY <1>1, <2>1, <2>2, Multiples
  <2>3. CASE ~(Interval * q < Interval * k)
    BY <1>1, <2>1, <2>3
  <2> QED BY <2>2, <2>3
<1> QED BY <1>1, <1>2, <1>3 DEF r

(* Timestamps do not go back while the clock does not.                     *)
LEMMA CurrentMonotonic ==
    ASSUME NEW t \in Nat
    PROVE  Get_current_timestamp(t) <= Get_current_timestamp(t + 1)
<1>1. PICK k \in Int : Get_current_timestamp(t) = Interval * k + Offset
  BY CurrentIsScheduled
<1>2. Seconds(t) * TicksPerSecond <= t /\ Seconds(t) \in Nat
  BY SecondsType DEF Seconds
<1>3. Seconds(t) <= Seconds(t + 1)
  BY <1>2, SecondsPassed
<1>4. Interval * k \in Int /\ Interval * k + Offset <= Seconds(t + 1)
  BY <1>1, <1>2, <1>3, TimestampsEnclose, SecondsType
<1> QED BY <1>1, <1>4, CurrentIsLatest

(* When the next timestamp has passed, the current one is not before it.   *)
LEMMA NextPassed ==
    ASSUME NEW t \in Nat, NEW u \in Nat, Get_next_timestamp(t) * TicksPerSecond <= u
    PROVE  Get_next_timestamp(t) <= Get_current_timestamp(u)
<1>1. PICK k \in Int : Get_current_timestamp(t) = Interval * k + Offset
  BY CurrentIsScheduled
<1>2. k + 1 \in Int /\ Interval * k \in Int /\ Interval * (k + 1) = Interval * k + Interval
  OBVIOUS
<1>3. Get_next_timestamp(t) = Interval * (k + 1) + Offset
  BY <1>1, <1>2 DEF Get_next_timestamp
<1>4. Get_next_timestamp(t) <= Seconds(u)
  BY SecondsPassed, TimestampsEnclose
<1> QED BY <1>2, <1>3, <1>4, CurrentIsLatest

(* The wait for the schedule is a number of ticks, and ends after the next  *)
(* timestamp when it begins no earlier than the time it was computed for.   *)
LEMMA WaitLength ==
    ASSUME NEW t \in Nat
    PROVE  /\ Get_milliseconds_until_next_timestamp(t) \in Nat
           /\ \A u \in Nat : t <= u =>
                  u + Get_milliseconds_until_next_timestamp(t) >= Get_next_timestamp(t) * TicksPerSecond
<1> DEFINE s == Seconds(t)
           n == Get_next_timestamp(t)
<1>1. s \in Nat /\ n \in Nat /\ n - s \in Nat /\ s * TicksPerSecond <= t
  <2>1. s \in Nat /\ n \in Int /\ s < n
    BY TimestampsEnclose, SecondsType
  <2>2. s * TicksPerSecond <= t
    BY DEF Seconds
  <2> QED BY <2>1, <2>2
<1>2. Get_milliseconds_until_next_timestamp(t) = (n - s) * TicksPerSecond
  BY DEF Get_milliseconds_until_next_timestamp
<1> HIDE DEF s, n
<1>3. (n - s) * TicksPerSecond = n * TicksPerSecond - s * TicksPerSecond
  BY <1>1
<1>4. n * TicksPerSecond \in Nat /\ s * TicksPerSecond \in Nat /\ (n - s) * TicksPerSecond \in Nat
  BY <1>1
<1>5. Get_milliseconds_until_next_timestamp(t) \in Nat
  BY <1>2, <1>4
<1>6. ASSUME NEW u \in Nat, t <= u
      PROVE  u + Get_milliseconds_until_next_timestamp(t) >= n * TicksPerSecond
  BY <1>1, <1>2, <1>3, <1>4, <1>6
<1> QED BY <1>5, <1>6 DEF n

-----------------------------------------------------------------------------
(* The worker.                                                             *)

(* No scheduled call has been in an interval after the one of time t.      *)
ServedUpTo(t) == lastSlot = None \/ lastSlot <= Get_current_timestamp(t)

Inv ==
    /\ TimedTypeOK
    /\ time <= now
    /\ ServedUpTo(now)
    /\ pc \in {"wait", "sleep"} => ServedUpTo(time)
    /\ pc = "wait" /\ asked = None => wait = Get_milliseconds_until_next_timestamp(time)
    /\ NeverBeforeItsTime

LEMMA InvInit == TimedInit => Inv
<1> SUFFICES ASSUME TimedInit PROVE Inv
  OBVIOUS
<1>1. TimedTypeOK
  BY MaxTimeAssumption DEF TimedInit, TimedTypeOK, None
<1> QED BY <1>1 DEF TimedInit, Inv, ServedUpTo, NeverBeforeItsTime, TimedTypeOK

(* The wakeup for a scheduled call: the timestamp waited for has passed,   *)
(* and none from it on has been served.                                    *)
LEMMA WakeInNewInterval ==
    ASSUME Inv, pc = "sleep", now >= deadline, asked = None
    PROVE  Get_current_timestamp(now) > lastSlot /\ Get_current_timestamp(now) \in Int
<1>1. now \in Nat /\ time \in Nat /\ deadline \in Nat /\ lastSlot \in Int
  BY DEF Inv, TimedTypeOK
<1>2. Get_next_timestamp(time) \in Int /\ Get_next_timestamp(time) > Seconds(time)
      /\ Get_next_timestamp(time) > Get_current_timestamp(time)
      /\ Get_current_timestamp(time) \in Int /\ Seconds(time) \in Nat
      /\ Get_current_timestamp(now) \in Int
  BY <1>1, TimestampsEnclose, SecondsType
<1>3. Get_next_timestamp(time) * TicksPerSecond <= now
  <2>1. Get_next_timestamp(time) * TicksPerSecond \in Int
    BY <1>2
  <2> QED BY <1>1, <2>1 DEF Inv, NeverBeforeItsTime
<1>4. Get_next_timestamp(time) <= Get_current_timestamp(now)
  BY <1>1, <1>3, NextPassed
<1>5. lastSlot = None \/ lastSlot <= Get_current_timestamp(time)
  BY DEF Inv, ServedUpTo
<1> QED BY <1>1, <1>2, <1>4, <1>5 DEF None

LEMMA InvNext == Inv /\ [TimedNext]_timed => Inv'
<1> SUFFICES ASSUME Inv, [TimedNext]_timed PROVE Inv'
  OBVIOUS
<1>t. now \in Nat /\ time \in Nat /\ wait \in Nat /\ deadline \in Nat /\ lastSlot \in Int
      /\ pc \in {"lock", "wait", "sleep", "func"} /\ asked \in Nat \cup {None}
  BY DEF Inv, TimedTypeOK
<1>c. Get_current_timestamp(now) \in Int /\ Get_current_timestamp(time) \in Int
  BY <1>t, TimestampsEnclose
<1>1. CASE Tick
  <2>1. now' = now + 1 /\ now' \in Nat /\ UNCHANGED <<pc, time, asked, wait, deadline, lastSlot>>
    BY <1>t, <1>1 DEF Tick
  <2>2. ServedUpTo(now)'
    <3>1. Get_current_timestamp(now) <= Get_current_timestamp(now + 1)
          /\ Get_current_timestamp(now + 1) \in Int
      BY <1>t, CurrentMonotonic, TimestampsEnclose
    <3>2. lastSlot = None \/ lastSlot <= Get_current_timestamp(now)
      BY DEF Inv, ServedUpTo
    <3>3. lastSlot = None \/ lastSlot <= Get_current_timestamp(now + 1)
      BY <1>t, <1>c, <3>1, <3>2
    <3> QED BY <2>1, <3>3 DEF ServedUpTo
  <2>3. NeverBeforeItsTime'
    BY <2>1 DEF Inv, NeverBeforeItsTime
  <2>4. TimedTypeOK' /\ time' <= now'
    BY <1>t, <2>1 DEF Inv, TimedTypeOK
  <2> QED BY <2>1, <2>2, <2>3, <2>4 DEF Inv, ServedUpTo
<1>2. CASE Arm
  <2>1. pc' = "wait" /\ time' = now /\ UNCHANGED <<now, asked, deadline, lastSlot>>
    BY <1>2 DEF Arm
  <2>2. wait' = IF asked # None THEN asked ELSE Get_milliseconds_until_next_timestamp(now)
    BY <1>2 DEF Arm
  <2>3. wait' \in Nat
    BY <1>t, <2>2, WaitLength
  <2>4. TimedTypeOK' /\ time' <= now'
    BY <1>t, <2>1, <2>3 DEF TimedTypeOK
  <2>5. ServedUpTo(now)' /\ ServedUpTo(time)'
    BY <2>1 DEF Inv, ServedUpTo
  <2>6. NeverBeforeItsTime'
    BY <2>1 DEF NeverBeforeItsTime
  <2> QED BY <2>1, <2>2, <2>4, <2>5, <2>6 DEF Inv
<1>3. CASE Sleep
  <2>1. pc = "wait" /\ pc' = "sleep" /\ deadline' = now + wait
        /\ UNCHANGED <<now, time, asked, wait, lastSlot>>
    BY <1>3 DEF Sleep
  <2>2. TimedTypeOK' /\ time' <= now'
    BY <1>t, <2>1 DEF Inv, TimedTypeOK
  <2>3. ServedUpTo(now)' /\ ServedUpTo(time)'
    BY <2>1 DEF Inv, ServedUpTo
  <2>4. asked = None => deadline' >= Get_next_timestamp(time) * TicksPerSecond
    BY <1>t, <2>1, WaitLength DEF Inv
  <2>5. NeverBeforeItsTime'
    BY <2>1, <2>4 DEF NeverBeforeItsTime
  <2> QED BY <2>1, <2>2, <2>3, <2>5 DEF Inv
<1>4. CASE Wake
  <2>1. pc = "sleep" /\ now >= deadline /\ pc' = "func" /\ asked' = None
        /\ UNCHANGED <<now, time, wait, deadline>>
    BY <1>4 DEF Wake
  <2>2. lastSlot' = IF asked = None THEN Get_current_timestamp(now) ELSE lastSlot
    BY <1>4 DEF Wake
  <2>3. TimedTypeOK' /\ time' <= now'
    BY <1>t, <1>c, <2>1, <2>2 DEF Inv, TimedTypeOK, None
  <2>4. ServedUpTo(now)'
    <3>1. lastSlot' = None \/ lastSlot' <= Get_current_timestamp(now)
      BY <1>c, <2>2 DEF Inv, ServedUpTo
    <3> QED BY <2>1, <3>1 DEF ServedUpTo
  <2>5. NeverBeforeItsTime'
    BY <2>1 DEF NeverBeforeItsTime
  <2> QED BY <2>1, <2>3, <2>4, <2>5 DEF Inv
<1>5. CASE Func
  <2>1. pc' = "lock" /\ asked' \in Nat \cup {None} /\ UNCHANGED <<now, time, wait, deadline, lastSlot>>
    BY <1>5, DelaysAssumption DEF Func
  <2> QED BY <2>1 DEF Inv, TimedTypeOK, ServedUpTo, NeverBeforeItsTime
<1>6. CASE UNCHANGED timed
  BY <1>6 DEF timed, Inv, TimedTypeOK, ServedUpTo, NeverBeforeItsTime
<1> QED BY <1>1, <1>2, <1>3, <1>4, <1>5, <1>6 DEF TimedNext, Done

LEMMA InvHolds == TimedSpec => []Inv
BY InvInit, InvNext, PTL DEF TimedSpec

(* Times, waits and deadlines are numbers of milliseconds that no          *)
(* computation takes below zero.                                           *)
THEOREM TimesAreNatural == TimedSpec => []TimedTypeOK
<1>1. Inv => TimedTypeOK
  BY DEF Inv
<1> QED BY <1>1, InvHolds, PTL

(* At every time the timestamps are those that a search in the schedule    *)
(* finds, whatever the interval, the offset and the resolution.            *)
THEOREM TimestampsAreNeighbours == TimedSpec => []Enclosed
<1>1. ASSUME now \in Nat PROVE Enclosed
  <2> DEFINE scheduled == {s \in (Seconds(now) - Interval) .. (Seconds(now) + Interval) :
                              (s - Offset) % Interval = 0}
             c == Get_current_timestamp(now)
             n == Get_next_timestamp(now)
  <2>1. /\ Seconds(now) \in Nat /\ c \in Int /\ c <= Seconds(now) /\ Seconds(now) < n
        /\ n = c + Interval
    BY <1>1, TimestampsEnclose, SecondsType
  <2>2. PICK k \in Int : c = Interval * k + Offset
    BY <1>1, CurrentIsScheduled
  <2>3. k + 1 \in Int /\ Interval * k \in Int /\ Interval * (k + 1) = Interval * k + Interval
    OBVIOUS
  <2>4. n = Interval * (k + 1) + Offset
    BY <2>1, <2>2, <2>3
  <2>5. c \in scheduled
    BY <2>1, <2>2, ByRemainder
  <2>6. n \in scheduled
    BY <2>1, <2>3, <2>4, ByRemainder
  <2>7. ASSUME NEW s \in scheduled PROVE s <= c \/ s >= n
    <3>0. s \in Int /\ (s - Offset) % Interval = 0
      BY <2>1
    <3>1. PICK l \in Int : s = Interval * l + Offset
      BY <3>0, ByRemainder
    <3>2. CASE Interval * k < Interval * l
      <4>1. Interval * k + Interval <= Interval * l
        BY <3>2, Multiples
      <4> QED BY <2>2, <2>3, <2>4, <3>1, <4>1
    <3>3. CASE ~(Interval * k < Interval * l)
      BY <2>2, <2>3, <3>1, <3>3
    <3> QED BY <3>2, <3>3
  <2>8. \A s \in scheduled : s \in Int
    BY <2>1
  <2> HIDE DEF scheduled, c, n
  <2>9. c = CHOOSE s \in scheduled : s <= Seconds(now) /\ \A r \in scheduled : r <= Seconds(now) => r <= s
    <3>1. c <= Seconds(now) /\ \A r \in scheduled : r <= Seconds(now) => r <= c
      BY <2>1, <2>7, <2>8
    <3>2. \A s \in scheduled : s <= Seconds(now) /\ (\A r \in scheduled : r <= Seconds(now) => r <= s) => s = c
      BY <2>1, <2>5, <2>8, <3>1
    <3> QED BY <2>5, <3>1, <3>2
  <2>10. n = CHOOSE s \in scheduled : s > Seconds(now) /\ \A r \in scheduled : r > Seconds(now) => r >= s
    <3>1. n > Seconds(now) /\ \A r \in scheduled : r > Seconds(now) => r >= n
      BY <2>1, <2>7, <2>8
    <3>2. \A s \in scheduled : s > Seconds(now) /\ (\A r \in scheduled : r > Seconds(now) => r >= s) => s = n
      BY <2>1, <2>6, <2>8, <3>1
    <3> QED BY <2>6, <3>1, <3>2
  <2> QED BY <2>9, <2>10 DEF Enclosed, scheduled, c, n
<1>2. Inv => Enclosed
  BY <1>1 DEF Inv, TimedTypeOK
<1> QED BY <1>2, InvHolds, PTL

(* No wait for the schedule ends before the timestamp it was for.          *)
THEOREM NeverEarly == TimedSpec => []NeverBeforeItsTime
<1>1. Inv => NeverBeforeItsTime
  BY DEF Inv
<1> QED BY <1>1, InvHolds, PTL

(* The schedule is served at most once in each interval.                   *)
THEOREM AtMostOncePerInterval == TimedSpec => OneCallPerInterval
<1>1. Inv /\ [TimedNext]_timed =>
          [(pc = "sleep" /\ pc' = "func" /\ asked = None) => Get_current_timestamp(now) > lastSlot]_timed
  <2> SUFFICES ASSUME Inv, TimedNext, pc = "sleep", pc' = "func", asked = None
               PROVE  Get_current_timestamp(now) > lastSlot
    OBVIOUS
  <2>1. now >= deadline
    BY DEF TimedNext, Tick, Arm, Sleep, Wake, Func, Done, timed
  <2> QED BY <2>1, WakeInNewInterval
<1> QED BY <1>1, InvHolds, PTL DEF TimedSpec, OneCallPerInterval

-----------------------------------------------------------------------------
(* The worker and its owner.                                               *)

(* In a wait while a timely request stands, the wait is for it.            *)
ArmedForRequest == early = "timely" /\ InWait => armed = "early"

(* Who owns _mutex, and what the positions of the two threads say of the   *)
(* stop token and of the early request.                                    *)
CallerInv ==
    /\ TypeOK
    /\ mutex = "worker" <=> wpc \in {"check", "block", "due", "call"}
    /\ mutex = "owner" <=> opc = "call"
    /\ StoppedMeansGone
    /\ ArmedForRequest
    /\ opc \in {"notify", "join"} /\ wpc # "none" => stop

LEMMA CallerInvInit == Init => CallerInv
<1> SUFFICES ASSUME Init PROVE CallerInv
  OBVIOUS
<1>1. TypeOK
  BY DEF Init, TypeOK
<1>2. StoppedMeansGone /\ ArmedForRequest
  BY DEF Init, StoppedMeansGone, ArmedForRequest, InWait
<1>3. /\ mutex = "worker" <=> wpc \in {"check", "block", "due", "call"}
      /\ mutex = "owner" <=> opc = "call"
      /\ opc \in {"notify", "join"} /\ wpc # "none" => stop
  BY DEF Init
<1> QED BY <1>1, <1>2, <1>3 DEF CallerInv

LEMMA CallerInvNext == CallerInv /\ [Next]_vars => CallerInv'
<1> SUFFICES ASSUME CallerInv, [Next]_vars PROVE CallerInv'
  OBVIOUS
<1> USE DEF CallerInv, TypeOK, StoppedMeansGone, ArmedForRequest, InWait, AskEarly, AskStop
<1>1. CASE WorkerStep
  <2>1. CASE Worker_arm
    BY <2>1 DEF Worker_arm
  <2>2. CASE Worker_check
    BY <2>2 DEF Worker_check
  <2>3. CASE Worker_block
    BY <2>3 DEF Worker_block
  <2>4. CASE Worker_woken
    BY <2>4 DEF Worker_woken
  <2>5. CASE Worker_expired
    BY <2>5 DEF Worker_expired
  <2>6. CASE Worker_call
    BY <2>6 DEF Worker_call
  <2>7. CASE Worker_return
    BY <2>7 DEF Worker_return
  <2> QED BY <1>1, <2>1, <2>2, <2>3, <2>4, <2>5, <2>6, <2>7 DEF WorkerStep
<1>2. CASE Worker_timeout \/ Worker_spurious \/ Worker_func_asks \/ Call_immediately_asks
  <2>1. CASE Worker_timeout \/ Worker_spurious
    BY <2>1 DEF Worker_timeout, Worker_spurious
  <2>2. CASE Worker_func_asks
    <3>1. wpc = "call" /\ UNCHANGED <<running, mutex, armed, wpc, opc, ops>>
      BY <2>2 DEF Worker_func_asks
    <3>2. stop' \in BOOLEAN /\ (stop => stop') /\ early' \in {"none", "timely", "late"}
      BY <2>2 DEF Worker_func_asks
    <3> QED BY <3>1, <3>2
  <2>3. CASE Call_immediately_asks
    <3>1. opc = "call" /\ UNCHANGED <<running, mutex, armed, wpc, opc, ops>>
      BY <2>3 DEF Call_immediately_asks
    <3>2. stop' \in BOOLEAN /\ (stop => stop') /\ early' \in {"none", "timely", "late"}
      BY <2>3 DEF Call_immediately_asks
    <3>3. InWait /\ early' = "timely" => early = "timely"
      BY <2>3 DEF Call_immediately_asks
    <3> QED BY <3>1, <3>2, <3>3
  <2> QED BY <1>2, <2>1, <2>2, <2>3
<1>3. CASE OwnerBegins
  <2>1. CASE Start
    <3>1. CASE running
      <4>1. UNCHANGED <<running, stop, mutex, early, armed, wpc, opc>> /\ ops' \in Nat
        BY <2>1, <3>1 DEF Start, Begin
      <4> QED BY <4>1
    <3>2. CASE ~running
      <4>1. running' \in BOOLEAN /\ running' /\ stop' \in BOOLEAN /\ wpc' = "lock"
        BY <2>1, <3>2 DEF Start
      <4>2. UNCHANGED <<mutex, early, armed, opc>> /\ opc = "idle" /\ ops' \in Nat
        BY <2>1 DEF Start, Begin
      <4> QED BY <3>2, <4>1, <4>2
    <3> QED BY <3>1, <3>2
  <2>2. CASE Stop_request \/ Stop_after_call
    <3>1. UNCHANGED <<running, mutex, early, armed, wpc>>
      BY <2>2 DEF Stop_request, Stop_after_call
    <3>0. Begin
      BY <2>2 DEF Stop_request, Stop_after_call
    <3>4. opc = "idle" /\ ops' \in Nat
      BY <3>0 DEF Begin
    <3>5. opc' \in {"idle", "notify"}
      BY <2>2, <3>4 DEF Stop_request, Stop_after_call
    <3>2. stop' \in BOOLEAN
      BY <2>2 DEF Stop_request, Stop_after_call
    <3>3. wpc # "none" => stop'
      BY <2>2 DEF Stop_request, Stop_after_call
    <3> QED BY <3>1, <3>2, <3>3, <3>4, <3>5
  <2>4. CASE Request_call_early
    BY <2>4 DEF Request_call_early, Begin
  <2>5. CASE Call_immediately
    BY <2>5 DEF Call_immediately, Begin
  <2> QED BY <1>3, <2>1, <2>2, <2>4, <2>5 DEF OwnerBegins
<1>4. CASE OwnerContinues
  <2>1. CASE Stop_notify
    BY <2>1 DEF Stop_notify
  <2>2. CASE Stop_join
    BY <2>2 DEF Stop_join
  <2>3. CASE Call_immediately_done
    BY <2>3 DEF Call_immediately_done
  <2> QED BY <1>4, <2>1, <2>2, <2>3 DEF OwnerContinues
<1>5. CASE UNCHANGED vars
  BY <1>5 DEF vars
<1> QED BY <1>1, <1>2, <1>3, <1>4, <1>5 DEF Next, Terminated

LEMMA CallerInvHolds == Spec => []CallerInv
BY CallerInvInit, CallerInvNext, PTL DEF Spec

(* The variables keep their types.                                         *)
THEOREM CallerTypes == Spec => []TypeOK
<1>1. CallerInv => TypeOK
  BY DEF CallerInv
<1> QED BY <1>1, CallerInvHolds, PTL

(* A caller that is not running has no worker left: Stop returns when its  *)
(* worker is gone, and Start makes the only one.                           *)
THEOREM NotRunningIsGone == Spec => []StoppedMeansGone
<1>1. CallerInv => StoppedMeansGone
  BY DEF CallerInv
<1> QED BY <1>1, CallerInvHolds, PTL

(* Worker and owner are never in the function at once.                     *)
THEOREM FuncIsExclusive == Spec => []FuncExclusive
<1>1. CallerInv => FuncExclusive
  BY DEF CallerInv, FuncExclusive
<1> QED BY <1>1, CallerInvHolds, PTL

(* A request that does not come in the middle of a wait is forgotten only  *)
(* when a wait for it is over, whoever made it and on whichever thread.    *)
THEOREM TimelyRequestIsHonoured == Spec => TimelyRequestHonoured
<1>1. CallerInv /\ [Next]_vars =>
          [(early = "timely" /\ early' = "none") => (wpc = "due" /\ armed = "early")]_vars
  <2> SUFFICES ASSUME CallerInv, Next, early = "timely", early' = "none"
               PROVE  wpc = "due" /\ armed = "early"
    OBVIOUS
  <2>1. wpc = "due" => armed = "early"
    BY DEF CallerInv, ArmedForRequest, InWait
  <2>2. CASE WorkerStep
    BY <2>1, <2>2 DEF WorkerStep, Worker_arm, Worker_check, Worker_block, Worker_woken,
                      Worker_expired, Worker_call, Worker_return
  <2>3. CASE OwnerBegins
    BY <2>3 DEF OwnerBegins, Start, Stop_request, Stop_after_call, Request_call_early,
                Call_immediately, AskEarly
  <2>4. CASE \/ OwnerContinues \/ Call_immediately_asks \/ Worker_timeout \/ Worker_spurious
             \/ Worker_func_asks \/ Terminated
    BY <2>4 DEF OwnerContinues, Stop_notify, Stop_join, Call_immediately_done,
                Call_immediately_asks, Worker_timeout, Worker_spurious, Worker_func_asks,
                AskEarly, Terminated, vars
  <2> QED BY <2>2, <2>3, <2>4 DEF Next
<1> QED BY <1>1, CallerInvHolds, PTL DEF Spec, TimelyRequestHonoured

(* After Stop's request the worker decides on no further call.             *)
THEOREM StopDecidesTheLast == Spec => NoFurtherCall
<1>1. CallerInv /\ [Next]_vars =>
          [(opc \in {"notify", "join"} /\ wpc \notin {"due", "call"}) => wpc' \notin {"due", "call"}]_vars
  <2> SUFFICES ASSUME CallerInv, Next, opc \in {"notify", "join"}, wpc \notin {"due", "call"}
               PROVE  wpc' \notin {"due", "call"}
    OBVIOUS
  <2>1. wpc # "none" => stop
    BY DEF CallerInv
  <2>2. CASE WorkerStep
    BY <2>1, <2>2 DEF WorkerStep, Worker_arm, Worker_check, Worker_block, Worker_woken,
                      Worker_expired, Worker_call, Worker_return
  <2>3. CASE OwnerBegins
    BY <2>3 DEF OwnerBegins, Begin, Start, Stop_request, Stop_after_call, Request_call_early,
                Call_immediately
  <2>4. CASE \/ OwnerContinues \/ Call_immediately_asks \/ Worker_timeout \/ Worker_spurious
             \/ Worker_func_asks \/ Terminated
    BY <2>4 DEF OwnerContinues, Stop_notify, Stop_join, Call_immediately_done,
                Call_immediately_asks, Worker_timeout, Worker_spurious, Worker_func_asks,
                Terminated, vars
  <2> QED BY <2>2, <2>3, <2>4 DEF Next
<1> QED BY <1>1, CallerInvHolds, PTL DEF Spec, NoFurtherCall

=============================================================================
