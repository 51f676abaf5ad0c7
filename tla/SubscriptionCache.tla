--------------------------- MODULE SubscriptionCache ---------------------------
(***************************************************************************)
(* The event consumer's copy of the subscriptions is compiled for a day of the *)
(* week: ordinary subscriptions for the day of the process, those of a commute  *)
(* for the day at its destination.  A background loop reloads it; planning the   *)
(* commutes takes time, during which the day can end.  Time is a tick count.     *)
(***************************************************************************)
EXTENDS Naturals

CONSTANTS
  DayLength, Interval,  \* of a day and of the reload interval
  Shift,                \* by how much the day of the destination begins earlier
  MaxReload,            \* bound on the duration of a reload
  Horizon               \* bound on time

ASSUME CacheAssumption ==
  /\ DayLength \in Nat \ {0} /\ Interval \in Nat \ {0} /\ Horizon \in Nat
  /\ Shift \in Nat /\ MaxReload \in Nat

VARIABLES
  now,
  due,      \* when the timer fires
  phase,    \* "wait", "read" or "plan"
  begun,    \* when the reload began
  compiled, \* the days the reload has compiled for
  cache,    \* the days of the copy in use
  late,     \* whether that copy was for a day that had ended when it was installed
  failed    \* whether the last reload failed

cacheVars == <<now, due, phase, begun, compiled, cache, late, failed>>

Day(t)      == t \div DayLength
DaysAt(t)   == [own |-> Day(t), commute |-> Day(t + Shift)]

UntilNextDay(t) == DayLength - (t % DayLength)
BugWait(t)      == Interval
Wait(t)         == IF UntilNextDay(t) < Interval THEN UntilNextDay(t) ELSE Interval

CacheInit ==
  /\ now \in 0..(DayLength - 1) /\ due = now + Wait(now) /\ phase = "wait" /\ begun = now
  /\ compiled = DaysAt(now) /\ cache = compiled /\ late = FALSE /\ failed = FALSE

Tick ==
  /\ now < Horizon /\ now' = now + 1
  /\ IF phase = "wait" THEN now < due ELSE now < begun + MaxReload
  /\ UNCHANGED <<due, phase, begun, compiled, cache, late, failed>>

Fire ==
  /\ phase = "wait" /\ now = due
  /\ phase' = "read" /\ begun' = now
  /\ UNCHANGED <<now, due, compiled, cache, late, failed>>

\* The subscriptions have been read: the day is asked for now, once for all.
Compile ==
  /\ phase = "read" /\ phase' = "plan" /\ compiled' = DaysAt(now)
  /\ UNCHANGED <<now, due, begun, cache, late, failed>>

Install ==
  /\ phase = "plan"
  /\ cache' = compiled /\ late' = (compiled.own # Day(now)) /\ failed' = FALSE
  /\ phase' = "wait" /\ due' = now + Wait(now)
  /\ UNCHANGED <<now, begun, compiled>>

\* A failed read, or a commute that cannot be decoded: the old copy stays.
Fail ==
  /\ phase # "wait"
  /\ failed' = TRUE /\ phase' = "wait" /\ due' = now + Wait(now)
  /\ UNCHANGED <<now, begun, compiled, cache, late>>

CacheNext == Tick \/ Fire \/ Compile \/ Install \/ Fail

CacheSpec == CacheInit /\ [][CacheNext]_cacheVars

-----------------------------------------------------------------------------
\* Unless a reload failed, the copy is for the present day but for the duration of the
\* reload that midnight starts or finds under way; when that one installs a copy of the
\* day before, and for the commutes, whose midnight no timer knows, for one more interval
\* and reload
\* (subscription_cache.go:28-53, :74-83).
TodaysSubscriptions ==
  ~failed =>
    /\ cache.own # Day(now) =>
         now % DayLength <= IF late THEN Interval + 2 * MaxReload ELSE MaxReload
    /\ cache.commute # Day(now + Shift) => (now + Shift) % DayLength <= Interval + 2 * MaxReload
=============================================================================
