------------------------------ MODULE Runtime ------------------------------
(***************************************************************************)
(* What the synchronous components take from the process they run in: its  *)
(* clock, in ticks, and null.  A token's expiry is kept in whole seconds.  *)
(***************************************************************************)
EXTENDS Integers

CONSTANTS
  Second,   \* ticks in a second; milliseconds in the code
  MaxTime,  \* bound on the clock
  NULL

ASSUME RuntimeAssumption == Second \in Nat \ {0} /\ MaxTime \in Nat

VARIABLE now  \* Date.now()

Tick ==
  /\ now < MaxTime
  /\ now' = now + 1
=============================================================================
