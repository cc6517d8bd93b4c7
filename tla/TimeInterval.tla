---------------------------- MODULE TimeInterval ----------------------------
(***************************************************************************)
(* The arithmetic of TimeInterval: the timestamps of a repeating interval  *)
(* with an offset.  A time is a number of ticks of the system clock; a     *)
(* timestamp is a number of seconds, as to_time_t yields it.  Times are    *)
(* after 1970.                                                             *)
(***************************************************************************)
EXTENDS Integers

CONSTANTS Interval,          \* _interval, in seconds
          Offset,            \* _offset, in seconds
          TicksPerSecond     \* the resolution of std::chrono::system_clock

ASSUME IntervalAssumption == Interval \in Nat \ {0}
ASSUME TicksAssumption == TicksPerSecond \in Nat \ {0}

(* Set_offset refuses the rest; the constructor does not look.             *)
ASSUME OffsetAssumption == Offset \in 0 .. (Interval - 1)

(* Mutant: to_time_t rounds to the nearest second, as it is free to.       *)
Seconds_rounded(time) == (time + TicksPerSecond \div 2) \div TicksPerSecond

(* system_clock::to_time_t: the libraries the code is built with cut the   *)
(* fraction off.                                                           *)
Seconds(time) == time \div TicksPerSecond

(* Mutant: the offset is added and not taken back.                         *)
Get_current_timestamp_no_borrow(time) ==
    Seconds(time) - (Seconds(time) % Interval) + Offset

(* Get_current_timestamp: rounded down to the interval, then moved by the  *)
(* offset, one interval back if that is past the time.                     *)
Get_current_timestamp(time) ==
    LET offseted == Seconds(time) - (Seconds(time) % Interval) + Offset
    IN  IF offseted > Seconds(time) THEN offseted - Interval ELSE offseted

(* Get_next_timestamp.                                                     *)
Get_next_timestamp(time) == Get_current_timestamp(time) + Interval

(* Get_milliseconds_until_next_timestamp, in ticks: whole seconds.         *)
Get_milliseconds_until_next_timestamp(time) ==
    (Get_next_timestamp(time) - Seconds(time)) * TicksPerSecond

=============================================================================
