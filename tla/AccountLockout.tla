--------------------------- MODULE AccountLockout ---------------------------
(***************************************************************************)
(* account-lockout.ts for one key: the entry of the Map, or NoEntry, is    *)
(* [count, until], with until = NoLock where lockedUntil is undefined.     *)
(***************************************************************************)
EXTENDS Naturals

CONSTANTS
  MaxAttempts,      \* maxAttempts
  LockoutDuration,  \* lockoutDurationMs, in ticks
  NoLock

ASSUME LockoutAssumption ==
  MaxAttempts \in Nat \ {0} /\ LockoutDuration \in Nat \ {0} /\ NoLock \notin Nat

NoEntry == [count |-> 0, until |-> NoLock]

IsLocked(entry, now) == entry.until # NoLock /\ now < entry.until
LockIsOver(entry, now) == entry.until # NoLock /\ now >= entry.until

\* check() forgets a lock that is over, with its count.
Checked(entry, now) == IF LockIsOver(entry, now) THEN NoEntry ELSE entry

Counted(entry) == (IF entry.until = NoLock THEN entry.count ELSE 0) + 1

\* A plausible bug: a failure while locked locks again.
FailureRelocks(entry, now) ==
  LET count == IF IsLocked(entry, now) THEN entry.count ELSE Counted(entry)
  IN  [count |-> count, until |-> IF count >= MaxAttempts THEN now + LockoutDuration ELSE NoLock]

\* A plausible bug: the last allowed failure does not lock yet.
FailureOffByOne(entry, now) ==
  IF IsLocked(entry, now) THEN entry
  ELSE [count |-> Counted(entry),
        until |-> IF Counted(entry) > MaxAttempts THEN now + LockoutDuration ELSE NoLock]

\* recordFailedAttempt(): nothing counts while locked, and after a lock the
\* count starts anew.
FailureRecorded(entry, now) ==
  IF IsLocked(entry, now) THEN entry
  ELSE [count |-> Counted(entry),
        until |-> IF Counted(entry) >= MaxAttempts THEN now + LockoutDuration ELSE NoLock]
=============================================================================
