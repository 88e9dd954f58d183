----------------------------- MODULE Deadlines ------------------------------
(* The arithmetic of timeouts: RECORD_WIND_UP_TIME and CHECK_EVENTS_TIMING2 of  *)
(* timing.c keep microseconds in fields called ms, and the wait of the worker   *)
(* loop is computed in an int. Micro is the number of microseconds in a second. *)
EXTENDS Integers

CONSTANTS Micro, Timeouts,
          ClockLen    \* bound: microseconds a clock runs

\* A time is <<seconds, microseconds>>; a timeout <<seconds, milliseconds>>. A
\* session without a timeout joins none of the timed lists.
ASSUME DeadlinesAssumption ==
  /\ Micro \in Nat /\ Micro > 1
  /\ ClockLen \in Nat
  /\ \A t \in Timeouts : t \in Nat \X Nat /\ t # <<0, 0>>

VARIABLES
  wound,    \* when the session was wound up: wind_up_s, wind_up_ms
  now,      \* the time of gettimeofday
  timeout   \* timeouts, timeoutms

clockVars == <<wound, now, timeout>>

\* RECORD_WIND_UP_TIME, at any microsecond of a second.
ClockInit ==
  /\ \E u \in 0 .. Micro - 1 : wound = <<0, u>>
  /\ now = wound
  /\ timeout \in Timeouts

\* Mutant: a deadline in the same second counts as passed.
PassedAtOnce == now[1] >= wound[1] + timeout[1]
Passed ==
  LET deadline_sec == wound[1] + timeout[1] IN
  now[1] > deadline_sec \/ (now[1] = deadline_sec /\ now[2] > wound[2] + timeout[2])

Elapsed == (now[1] - wound[1]) * Micro + now[2] - wound[2]

\* esq_session_join_timing_list and esq_session_update_polling_interval: the list
\* of a timeout, and how long a worker with that list waits, in milliseconds.
Interval(t) ==
  CASE t[1] >= 10 -> 5000
    [] t[1] \in 1 .. 9 -> 500
    [] t[1] = 0 /\ t[2] >= 100 -> 50
    [] t[1] = 0 /\ t[2] \in 1 .. 99 -> 5

\* polling_interval * 1000 * 1000 in an int of 32 bits: 10^6 is 64 * 15625, and
\* 2^32 is 64 * 67108864.
Wait(interval) == 64 * ((interval * 15625) % 67108864)

Tick ==
  /\ Elapsed < ClockLen
  /\ now' = IF now[2] = Micro - 1 THEN <<now[1] + 1, 0>> ELSE <<now[1], now[2] + 1>>
  /\ UNCHANGED <<wound, timeout>>

ClockSpec == ClockInit /\ [][Tick]_clockVars

-----------------------------------------------------------------------------
\* A timeout of whole seconds is never taken for passed before its time, and any
\* timeout is seen as passed from one microsecond after its deadline on; milliseconds
\* count as microseconds (timing.c:168).
SecondsAreKept ==
  /\ Passed /\ timeout[2] = 0 => Elapsed > timeout[1] * Micro
  /\ Elapsed > timeout[1] * Micro + timeout[2] => Passed

\* The wait of a worker is a number of nanoseconds that the kernel accepts, and not
\* longer than meant, also for the interval that does not fit an int (worker.c:770).
WaitIsValid ==
  LET i == Interval(timeout) IN
  0 < Wait(i) /\ Wait(i) < 1000000000 /\ Wait(i) \div 1000000 <= i

\* Timeouts are not missed, and waits are not longer than the timeouts allow.
DeadlinesAreKept == SecondsAreKept /\ WaitIsValid
=============================================================================
