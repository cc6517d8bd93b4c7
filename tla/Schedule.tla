------------------------------ MODULE Schedule ------------------------------
(***************************************************************************)
(* When ScheduledCaller calls its function: the loop of the worker with a  *)
(* clock.  Module ScheduledCaller has the same loop without the clock and  *)
(* with the thread that stops it.                                          *)
(*                                                                         *)
(* The clock is the wall clock; it is not set while the program runs, so   *)
(* that the steady clock wait_for uses and the wall clock advance alike.   *)
(***************************************************************************)
EXTENDS TimeInterval

CONSTANTS Delays,            \* what the function may pass to Request_call_early, in ticks
          MaxTime            \* bound: the last tick

ASSUME DelaysAssumption == Delays \subseteq Nat
ASSUME MaxTimeAssumption == MaxTime \in Nat

None == -1

VARIABLES
    now,               \* the clock
    pc,                \* where the worker is: "lock", "wait", "sleep" or "func"
    time,              \* _time of _interval
    asked,             \* _optional_call_time, or None
    wait,              \* the duration of this round's wait_for
    deadline,          \* when that wait ends
    lastSlot           \* history: the timestamp the last scheduled call was in, or None

timed == <<now, pc, time, asked, wait, deadline, lastSlot>>

TimedInit ==
    /\ now \in 0 .. MaxTime
    /\ pc = "lock"
    /\ time = now                     \* the constructor of TimeInterval
    /\ asked = None
    /\ wait = 0
    /\ deadline = 0
    /\ lastSlot = None

(* Time passes whatever the worker does.                                   *)
Tick ==
    /\ now < MaxTime
    /\ now' = now + 1
    /\ UNCHANGED <<pc, time, asked, wait, deadline, lastSlot>>

(* Mutant: the time stays the one of the last round.                       *)
Arm_stale ==
    /\ pc = "lock"
    /\ pc' = "wait"
    /\ wait' = IF asked # None THEN asked ELSE Get_milliseconds_until_next_timestamp(time)
    /\ UNCHANGED <<now, time, asked, deadline, lastSlot>>

(* Set_time_to_now, and the time to wait.                                  *)
Arm ==
    /\ pc = "lock"
    /\ pc' = "wait"
    /\ time' = now
    /\ wait' = IF asked # None THEN asked ELSE Get_milliseconds_until_next_timestamp(now)
    /\ UNCHANGED <<now, asked, deadline, lastSlot>>

(* wait_for computes its deadline once; it is kept over spurious wakeups.  *)
Sleep ==
    /\ pc = "wait"
    /\ pc' = "sleep"
    /\ deadline' = now + wait
    /\ UNCHANGED <<now, time, asked, wait, lastSlot>>

(* The worker wakes up at the deadline or any time later.                  *)
Wake ==
    /\ pc = "sleep"
    /\ now >= deadline
    /\ pc' = "func"
    /\ lastSlot' = IF asked = None THEN Get_current_timestamp(now) ELSE lastSlot
    /\ asked' = None
    /\ UNCHANGED <<now, time, wait, deadline>>

(* The function returns; it may have asked for an early call.              *)
Func ==
    /\ pc = "func"
    /\ pc' = "lock"
    /\ asked' \in Delays \cup {None}
    /\ UNCHANGED <<now, time, wait, deadline, lastSlot>>

(* The bound on the clock is reached.                                      *)
Done == now = MaxTime /\ pc = "sleep" /\ UNCHANGED timed

TimedNext == Tick \/ Arm \/ Sleep \/ Wake \/ Func \/ Done

TimedSpec == TimedInit /\ [][TimedNext]_timed

-----------------------------------------------------------------------------

(* Every variable has its type.                                            *)
TimedTypeOK ==
    /\ now \in Nat
    /\ pc \in {"lock", "wait", "sleep", "func"}
    /\ time \in Nat
    /\ asked \in Nat \cup {None}
    /\ wait \in Nat
    /\ deadline \in Nat
    /\ lastSlot \in Int

(* A wait for the schedule does not end before the timestamp it was for:   *)
(* to_time_t cuts the fraction of the second off the present time, and the *)
(* wait is the longer for it.                                              *)
NeverBeforeItsTime ==
    pc = "sleep" /\ asked = None => deadline >= Get_next_timestamp(time) * TicksPerSecond

(* The schedule is served at most once in each interval, however long the  *)
(* function and the wakeups take and whatever early calls come in between: *)
(* each scheduled call is at a timestamp later than the one before.        *)
OneCallPerInterval ==
    [][(pc = "sleep" /\ pc' = "func" /\ asked = None) => Get_current_timestamp(now) > lastSlot]_timed

(* The timestamps around the present are of the schedule and enclose it:   *)
(* the reference definition, by search.                                    *)
Enclosed ==
    LET scheduled == {s \in (Seconds(now) - Interval) .. (Seconds(now) + Interval) :
                          (s - Offset) % Interval = 0}
    IN  /\ Get_current_timestamp(now) =
               CHOOSE s \in scheduled : s <= Seconds(now) /\ \A r \in scheduled : r <= Seconds(now) => r <= s
        /\ Get_next_timestamp(now) =
               CHOOSE s \in scheduled : s > Seconds(now) /\ \A r \in scheduled : r > Seconds(now) => r >= s

=============================================================================
