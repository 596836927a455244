------------------------------- MODULE Resolver -------------------------------
(***************************************************************************)
(* The pure functions of the integration over the collections' policies:   *)
(* which collection is active (resolver.py), which schedules are due at a  *)
(* minute (scheduler.py) and when the next one is (coordinator.py).        *)
(*                                                                         *)
(* Time is counted in minutes.  A policy has a half-open window and one    *)
(* schedule: a minute of the day on some days of the week.                 *)
(***************************************************************************)
EXTENDS Integers

CONSTANTS
  Collections,  \* collection IDs; their order is that of the strings
  None,         \* no collection, no time
  DayLength,    \* minutes of a day
  WeekLength    \* days of a week

ASSUME ResolverAssumption ==
  /\ Collections \subseteq Nat
  /\ None \notin Nat
  /\ DayLength \in Nat \ {0} /\ WeekLength \in Nat \ {0}

First(ids) == CHOOSE c \in ids : \A d \in ids : c <= d

\* CollectionPolicy.is_scheduled_at
IsScheduledAt(p, now) == p.enabled /\ p.from <= now /\ now < p.until

\* _default_collection
DefaultCollection(ps) ==
  LET defaults == {c \in DOMAIN ps : ps[c].enabled /\ ps[c].isDefault}
  IN  IF defaults = {} THEN None ELSE First(defaults)

Selected(c, reason) == [active |-> c, reason |-> reason]

\* OverrideMode
Automatic == [kind |-> "automatic", id |-> None]
Explicit(c) == [kind |-> "explicit", id |-> c]

\* resolve_active_collection
Resolve(ps, override, now) ==
  LET scheduled == {c \in DOMAIN ps : IsScheduledAt(ps[c], now)}
      best      == {c \in scheduled : \A d \in scheduled : ps[d].priority <= ps[c].priority}
      default   == DefaultCollection(ps)
  IN  CASE override.kind = "explicit" ->
             IF override.id \in DOMAIN ps /\ ps[override.id].enabled /\ ps[override.id].manual
             THEN Selected(override.id, "manual") ELSE Selected(None, "rejected")
        [] override.kind = "default" ->
             Selected(default, IF default = None THEN "none" ELSE "manual_default")
        [] override.kind = "automatic" /\ scheduled # {} -> Selected(First(best), "schedule")
        [] OTHER -> Selected(default, IF default = None THEN "none" ELSE "default")

-----------------------------------------------------------------------------
MinuteOfDay(t) == t % DayLength
Weekday(t) == (t \div DayLength) % WeekLength
Midnight(t) == t - MinuteOfDay(t)

\* The schedules async_handle_due submits at minute t.
DueAt(ps, t) ==
  {c \in DOMAIN ps : /\ ps[c].schedule.on
                     /\ Weekday(t) \in ps[c].schedule.days
                     /\ MinuteOfDay(t) = ps[c].schedule.at}

\* Mutant: as many days as a week has.
OneWeek == 0 .. WeekLength - 1

\* The days _next_schedule looks at: range(8).
Offsets == 0 .. WeekLength

\* _next_schedule
NextSchedule(ps, now) ==
  LET Upcoming(s) == {t \in {Midnight(now) + offset * DayLength + s.at : offset \in Offsets} :
                        Weekday(t) \in s.days /\ t >= now}
      upcoming    == UNION {Upcoming(ps[c].schedule) : c \in {c \in DOMAIN ps : ps[c].schedule.on}}
  IN  IF upcoming = {} THEN None ELSE First(upcoming)
=============================================================================
