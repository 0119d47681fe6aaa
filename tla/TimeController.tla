----------------------------- MODULE TimeController -----------------------------
(***************************************************************************)
(* The controller of the input times (core/src/io/time_controller.rs).  It *)
(* reads the clock, sleeps until the nearest of its dates that is still to *)
(* come, and begins again; nothing is sent yet when a time comes.  What a  *)
(* date leaves open (here its month, standing for year, month and day) is  *)
(* filled in from the clock at each reading.                               *)
(***************************************************************************)
EXTENDS Naturals

CONSTANTS
  Month,       \* the months, in their order
  InstantOf,   \* for each month, the instant of each of its days (that exists once)
  MaxClock     \* bound of the clock

ASSUME CalendarAssumption ==
  /\ MaxClock \in Nat
  /\ \A t \in 0..MaxClock: \E m \in Month: \E d \in DOMAIN InstantOf[m]: InstantOf[m][d] = t

VARIABLES
  clock,   \* Local::now()
  timer,   \* "off", "sleep" or "panicked"
  read,    \* the instant the controller went to sleep at
  wake     \* and the one it sleeps until

timeVars == <<clock, timer, read, wake>>

MonthOf(now) == CHOOSE m \in Month: \E d \in DOMAIN InstantOf[m]: InstantOf[m][d] = now

\* The month of a date at a reading, if the date is open; with_ymd_and_hms has no
\* single answer for a day the month has not (a 31st, an hour the clock skips).
MonthAt(date, now) == IF date.month = 0 THEN MonthOf(now) ELSE date.month

Exists(date, now) == date.day \in DOMAIN InstantOf[MonthAt(date, now)]

At(date, now) == InstantOf[MonthAt(date, now)][date.day]

\* to_duration, to_ordered_durations.
Pending(dates, now) == {At(d, now): d \in dates} \cap {t \in 0..MaxClock: t >= now}

TimeInit == clock = 0 /\ timer = "off" /\ read = 0 /\ wake = 0

\* Mutant: the dates are ordered the other way round.
WakeLast(dates, now) ==
  IF Pending(dates, now) = {} THEN now + 1
  ELSE CHOOSE t \in Pending(dates, now): \A u \in Pending(dates, now): u <= t

\* The first of the ordered durations, or one second.
WakeAt(dates, now) ==
  IF Pending(dates, now) = {} THEN now + 1
  ELSE CHOOSE t \in Pending(dates, now): \A u \in Pending(dates, now): t <= u

\* One turn of the loop.  A kind that is not InputTime has no date.
Turn(kinds, dates) ==
  /\ timer = "off" \/ (timer = "sleep" /\ clock >= wake)
  /\ IF kinds \subseteq {"InputTime"} /\ \A d \in dates: Exists(d, clock)
     THEN timer' = "sleep" /\ read' = clock /\ wake' = WakeAt(dates, clock)
     ELSE timer' = "panicked" /\ UNCHANGED <<read, wake>>
  /\ UNCHANGED clock

Pass == clock < MaxClock /\ clock' = clock + 1 /\ UNCHANGED <<timer, read, wake>>

TimeOff == timer' = "off" /\ read' = 0 /\ wake' = 0 /\ UNCHANGED clock

-----------------------------------------------------------------------------
\* What comes while the controller sleeps.
Slept(date, t) ==
  timer = "sleep" /\ read < t /\ t < wake /\ t <= clock /\ Exists(date, t) /\ At(date, t) = t
=============================================================================
