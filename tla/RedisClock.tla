----------------------------- MODULE RedisClock -----------------------------
(***************************************************************************)
(* The clock of Redis, TIME of the rate limiters' Lua scripts, in ticks of *)
(* 0.1 ms: the precision with which Lua's tostring stores a time.  The     *)
(* rounding to that precision is left out.                                 *)
(***************************************************************************)
EXTENDS Integers

CONSTANTS
    Milli,   \* ticks in a millisecond: waits are whole milliseconds
    Second,  \* ticks in a second: times to live are whole seconds
    MaxTime  \* bound: the clock

ASSUME TimeAssumption == Milli \in Nat \ {0} /\ Second \in Nat \ {0} /\ MaxTime \in Nat

VARIABLE now

\* math.ceil of a time in the given unit, back in ticks.
Ceil(t, unit) == ((t + unit - 1) \div unit) * unit

TimePasses == now < MaxTime /\ now' = now + 1
=============================================================================
