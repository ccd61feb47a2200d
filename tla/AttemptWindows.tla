--------------------------- MODULE AttemptWindows ---------------------------
(***************************************************************************)
(* The attempt counters of one key, each a list of times:                  *)
(*   "middleware"  rate-limit.ts of the node package, which checks and     *)
(*                 counts a request in one step;                           *)
(*   "window"      rate-limit.ts and ip-rate-limit.ts, where the caller    *)
(*                 counts an attempt itself, some time after the check;    *)
(*   "bruteForce"  brute-force.ts, whose delay doubles with each failure   *)
(*                 that is still in the window.                            *)
(***************************************************************************)
EXTENDS Runtime, Sequences, Lists

CONSTANTS
  Window,      \* windowMs
  MaxInWindow, \* max, maxAttempts
  BaseDelay, MaxDelay, \* baseDelayMs, maxDelayMs
  MaxCounted   \* bound on the attempts counted in all

ASSUME WindowAssumption ==
  /\ {Window, MaxInWindow, BaseDelay, MaxDelay} \subseteq Nat \ {0}
  /\ MaxCounted \in Nat /\ NULL \notin Nat

VARIABLES
  counter,  \* which of the three it is
  attempts, \* the times counted, oldest first
  passes,   \* when the middleware let a request through (history)
  promised  \* when the first refusal since the last attempt said to come back, or NULL (history)

windowVars == <<counter, attempts, passes, promised>>

WindowInit ==
  /\ counter \in {"middleware", "window", "bruteForce"}
  /\ attempts = <<>> /\ passes = <<>> /\ promised = NULL

\* A plausible bug: an attempt is dropped one tick before it leaves the window.
PrunedEarly(times, at) == Keep(times, {i \in DOMAIN times : times[i] > at - Window + 1})

\* prune
Pruned(times, at) == Keep(times, {i \in DOMAIN times : times[i] > at - Window})

\* delayMsForFailureCount
Delay(count) ==
  LET doubled == BaseDelay * 2 ^ (count - 1)
  IN  IF doubled > MaxDelay THEN MaxDelay ELSE doubled

\* When the next attempt is allowed, given the ones still in the window.
AllowedFrom(times) ==
  CASE counter = "bruteForce" /\ times # <<>> -> times[Len(times)] + Delay(Len(times))
    [] counter # "bruteForce" /\ Len(times) >= MaxInWindow -> Head(times) + Window
    [] OTHER -> now

Allows(times) == AllowedFrom(times) <= now

\* A plausible bug: the seconds to wait are rounded down.
RetryAfterFloor(times) == (AllowedFrom(times) - now) \div Second

\* retryAfterSeconds, rounded up; the middleware says 1 at least.
RetryAfter(times) == (AllowedFrom(times) - now + Second - 1) \div Second

\* A refusal announces when to come back.  The window's is not a promise where
\* callers that had been allowed before counted more than the limit meanwhile: it
\* is the time at which the oldest attempt leaves, and too many are left then.
Refused(kept) ==
  promised' = IF promised # NULL \/ (counter = "window" /\ Len(kept) > MaxInWindow)
              THEN promised
              ELSE now + RetryAfter(kept) * Second

\* check
Check ==
  LET kept == Pruned(attempts, now)
  IN  /\ counter # "middleware"
      /\ attempts' = kept
      /\ IF Allows(kept) THEN promised' = promised ELSE Refused(kept)
      /\ UNCHANGED <<now, counter, passes>>

\* recordAttempt, recordFailedAttempt
RecordAttempt ==
  /\ counter # "middleware"
  /\ Len(attempts) < MaxCounted
  /\ attempts' = Pruned(Append(attempts, now), now)
  /\ promised' = NULL
  /\ UNCHANGED <<now, counter, passes>>

\* clear, clearFailedAttempts
ClearAttempts ==
  /\ counter # "middleware"
  /\ attempts' = <<>> /\ promised' = NULL
  /\ UNCHANGED <<now, counter, passes>>

\* rateLimitMiddleware
Middleware ==
  LET kept == Pruned(attempts, now)
  IN  /\ counter = "middleware"
      /\ IF Len(kept) >= MaxInWindow
         THEN attempts' = kept /\ passes' = passes /\ Refused(kept)
         ELSE /\ Len(passes) < MaxCounted
              /\ attempts' = Append(kept, now)
              /\ passes' = Append(passes, now)
              /\ promised' = NULL
      /\ UNCHANGED <<now, counter>>

WindowNext ==
  \/ Check \/ RecordAttempt \/ ClearAttempts \/ Middleware
  \/ Tick /\ UNCHANGED windowVars

WindowSpec == now = 0 /\ WindowInit /\ [][WindowNext]_<<now, windowVars>>

-----------------------------------------------------------------------------
(* Correctness *)

\* The counter's list, and the histories, keep their types.
WindowTypes ==
  /\ attempts \in Seq(0 .. MaxTime) /\ Len(attempts) <= MaxCounted
  /\ passes \in Seq(0 .. MaxTime) /\ Len(passes) <= MaxCounted
  /\ promised \in Nat \union {NULL}

\* Wherever a window is laid over the requests the middleware let through, there
\* are MaxInWindow of them in it at most, though the list is pruned all the time.
WindowHolds ==
  \A i, j \in DOMAIN passes :
    i <= j /\ passes[j] - passes[i] < Window => j - i < MaxInWindow

\* Who waits the seconds a refusal announced is allowed then, and from then on,
\* whatever checks came in between, unless another attempt was counted.  In the
\* window this takes that no more were counted than the limit (see Refused).
RetryAfterSuffices ==
  promised # NULL /\ now >= promised => Allows(Pruned(attempts, now))
=============================================================================
