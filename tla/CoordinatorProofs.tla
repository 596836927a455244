--------------------------- MODULE CoordinatorProofs ---------------------------
(***************************************************************************)
(* The coordinator for days and weeks of any length, any policies and any  *)
(* number of outages: the next compilation it names is the first one the   *)
(* scheduler will submit, and an outage leaves what was published.         *)
(***************************************************************************)
EXTENDS Coordinator, WellFoundedInduction, TLAPS

-----------------------------------------------------------------------------
(* Days and minutes of a time.                                             *)

LEMMA QuotientAndRest ==
  ASSUME NEW t \in Int, NEW d \in Int, d > 0,
         NEW q \in Int, q = t \div d, NEW r \in Int, r = t % d
  PROVE  t = d * q + r
OBVIOUS

LEMMA DivisionTypes ==
  ASSUME NEW t \in Nat, NEW d \in Nat \ {0}
  PROVE  \E q \in Nat, r \in 0 .. d - 1 : q = t \div d /\ r = t % d /\ t = d * q + r
<1>1. PICK q \in Int : q = t \div d OBVIOUS
<1>2. PICK r \in 0 .. d - 1 : r = t % d OBVIOUS
<1>3. r \in Int /\ d \in Int /\ d > 0 /\ t \in Int OBVIOUS
<1>4. t = d * q + r BY <1>1, <1>2, <1>3, QuotientAndRest
<1>5. q \in Nat
  <2>1. CASE q < 0
    <3>1. PICK n \in Nat : q = 0 - 1 - n BY <2>1
    <3>2. d * q = 0 - d - d * n /\ d * n \in Nat BY <3>1
    <3> QED BY <1>4, <3>2
  <2> QED BY <2>1
<1> QED BY <1>1, <1>2, <1>4, <1>5

LEMMA DivisionIsUnique ==
  ASSUME NEW d \in Nat \ {0}, NEW k \in Nat, NEW m \in Nat,
         NEW r \in 0 .. d - 1, NEW s \in 0 .. d - 1, d * k + r = d * m + s
  PROVE  k = m /\ r = s
<1>1. CASE k < m
  <2>1. PICK n \in Nat : m = k + 1 + n BY <1>1
  <2>2. d * m = d * k + d + d * n /\ d * n \in Nat BY <2>1
  <2> QED BY <2>2
<1>2. CASE m < k
  <2>1. PICK n \in Nat : k = m + 1 + n BY <1>2
  <2>2. d * k = d * m + d + d * n /\ d * n \in Nat BY <2>1
  <2> QED BY <2>2
<1> QED BY <1>1, <1>2

LEMMA PartsOfSum ==
  ASSUME NEW d \in Nat \ {0}, NEW k \in Nat, NEW r \in 0 .. d - 1
  PROVE  d * k + r \in Nat /\ (d * k + r) \div d = k /\ (d * k + r) % d = r
<1>1. d * k \in Nat OBVIOUS
<1>2. PICK t \in Nat : t = d * k + r BY <1>1
<1>3. PICK q \in Nat, s \in 0 .. d - 1 : q = t \div d /\ s = t % d /\ t = d * q + s
  BY DivisionTypes
<1>4. q = k /\ s = r BY <1>2, <1>3, DivisionIsUnique
<1> QED BY <1>2, <1>3, <1>4

\* Later days have later times.
LEMMA DaysGrow ==
  ASSUME NEW d \in Nat \ {0}, NEW k \in Nat, NEW m \in Nat, k < m
  PROVE  d * k + d <= d * m /\ d * k \in Nat /\ d * m \in Nat
<1>1. PICK n \in Nat : m = k + 1 + n OBVIOUS
<1>2. d * m = d * k + d + d * n /\ d * n \in Nat BY <1>1
<1> QED BY <1>2

\* The day a time is in.
Day(t) == t \div DayLength

LEMMA TimeIsDayAndMinute ==
  ASSUME NEW t \in Nat
  PROVE  /\ Day(t) \in Nat /\ MinuteOfDay(t) \in 0 .. DayLength - 1
         /\ t = DayLength * Day(t) + MinuteOfDay(t)
         /\ Midnight(t) = DayLength * Day(t) /\ DayLength * Day(t) \in Nat
         /\ Weekday(t) = Day(t) % WeekLength
<1>1. DayLength \in Nat \ {0} BY ResolverAssumption
<1>2. PICK q \in Nat, r \in 0 .. DayLength - 1 :
        q = t \div DayLength /\ r = t % DayLength /\ t = DayLength * q + r
  BY <1>1, DivisionTypes
<1>3. DayLength * q \in Nat /\ t - r = DayLength * q BY <1>1, <1>2
<1>4. Day(t) = q /\ MinuteOfDay(t) = r BY <1>2 DEF Day, MinuteOfDay
<1>5. Midnight(t) = DayLength * q BY <1>3, <1>4 DEF Midnight
<1>6. Weekday(t) = Day(t) % WeekLength BY DEF Weekday, Day
<1> QED BY <1>2, <1>3, <1>4, <1>5, <1>6

LEMMA TimeOf ==
  ASSUME NEW k \in Nat, NEW at \in 0 .. DayLength - 1
  PROVE  /\ DayLength * k + at \in Nat
         /\ Day(DayLength * k + at) = k /\ MinuteOfDay(DayLength * k + at) = at
BY PartsOfSum, ResolverAssumption DEF Day, MinuteOfDay

LEMMA DaysInOrder ==
  ASSUME NEW s \in Nat, NEW t \in Nat
  PROVE  /\ s <= t => Day(s) <= Day(t)
         /\ Day(s) < Day(t) => s <= t
<1>1. DayLength \in Nat \ {0} BY ResolverAssumption
<1>2. PICK k \in Nat, m \in 0 .. DayLength - 1 :
        k = Day(s) /\ s = DayLength * k + m /\ DayLength * k \in Nat
  BY TimeIsDayAndMinute
<1>3. PICK l \in Nat, n \in 0 .. DayLength - 1 :
        l = Day(t) /\ t = DayLength * l + n /\ DayLength * l \in Nat
  BY TimeIsDayAndMinute
<1>4. ASSUME k < l PROVE s < t
  <2>1. DayLength * k + DayLength <= DayLength * l BY <1>1, <1>4, DaysGrow
  <2> QED BY <1>1, <1>2, <1>3, <2>1
<1>5. ASSUME l < k PROVE t < s
  <2>1. DayLength * l + DayLength <= DayLength * k BY <1>1, <1>5, DaysGrow
  <2> QED BY <1>1, <1>2, <1>3, <2>1
<1>6. s <= t => k <= l BY <1>5
<1>7. k < l => s <= t BY <1>4
<1> QED BY <1>2, <1>3, <1>6, <1>7

\* A week later it is the same day of the week.
LEMMA WeeksRepeat ==
  ASSUME NEW k \in Nat
  PROVE  (k + WeekLength) % WeekLength = k % WeekLength
<1>1. WeekLength \in Nat \ {0} BY ResolverAssumption
<1>2. PICK q \in Nat, r \in 0 .. WeekLength - 1 :
        q = k \div WeekLength /\ r = k % WeekLength /\ k = WeekLength * q + r
  BY <1>1, DivisionTypes
<1>3. k + WeekLength = WeekLength * (q + 1) + r BY <1>1, <1>2
<1>4. (WeekLength * (q + 1) + r) % WeekLength = r BY <1>1, PartsOfSum
<1> QED BY <1>2, <1>3, <1>4

-----------------------------------------------------------------------------
(* The next schedule.                                                      *)

\* Every schedule of ps has a time of the day.
Timed(ps) == \A c \in DOMAIN ps : ps[c].schedule.at \in 0 .. DayLength - 1

\* t is a time of the schedule of c, offset days after now.
IsOn(ps, c, offset, now, t) ==
  /\ ps[c].schedule.on
  /\ t = Midnight(now) + offset * DayLength + ps[c].schedule.at
  /\ Weekday(t) \in ps[c].schedule.days /\ t >= now

\* The set the code takes the first of.
Times(s, now) == {t \in {Midnight(now) + offset * DayLength + s.at : offset \in Offsets} :
                    Weekday(t) \in s.days /\ t >= now}
Upcoming(ps, now) ==
  UNION {Times(ps[c].schedule, now) : c \in {c \in DOMAIN ps : ps[c].schedule.on}}

LEMMA UpcomingTimes ==
  ASSUME NEW ps, NEW now, NEW t
  PROVE  t \in Upcoming(ps, now) <=>
           \E c \in DOMAIN ps, offset \in Offsets : IsOn(ps, c, offset, now, t)
<1>1. t \in Upcoming(ps, now) <=>
        \E c \in DOMAIN ps : ps[c].schedule.on /\ t \in Times(ps[c].schedule, now)
  BY Zenon DEF Upcoming
<1>2. ASSUME NEW c
      PROVE  ps[c].schedule.on /\ t \in Times(ps[c].schedule, now) <=>
               \E offset \in Offsets : IsOn(ps, c, offset, now, t)
  BY Zenon DEF Times, IsOn
<1> QED BY <1>1, <1>2, Zenon

LEMMA FirstIsLeast ==
  ASSUME NEW ids \in SUBSET Nat, ids # {}
  PROVE  First(ids) \in ids /\ \A y \in ids : First(ids) <= y
<1> DEFINE Less == OpToRel(<, Nat)
<1>1. IsWellFoundedOn(Less, Nat) BY NatLessThanWellFounded
<1>2. PICK x \in ids : \A y \in ids : ~(<<y, x>> \in Less)
  BY <1>1, WFMin
<1>3. \A y \in ids : ~(y < x) BY <1>2 DEF OpToRel
<1>4. \A y \in ids : x <= y BY <1>3
<1> QED BY <1>4 DEF First

\* A time the code finds is one at which a schedule is due, within the days it looks at.
LEMMA UpcomingIsDue ==
  ASSUME NEW ps, Timed(ps), NEW now \in Nat, NEW t \in Upcoming(ps, now)
  PROVE  t \in Nat /\ now <= t /\ DueAt(ps, t) # {} /\ Day(t) <= Day(now) + WeekLength
<1>1. PICK c \in DOMAIN ps, offset \in Offsets : IsOn(ps, c, offset, now, t)
  BY UpcomingTimes
<1>2. PICK at \in 0 .. DayLength - 1 : at = ps[c].schedule.at BY DEF Timed
<1>3. DayLength \in Nat \ {0} /\ WeekLength \in Nat \ {0} BY ResolverAssumption
<1>4. PICK k \in Nat : k = Day(now) /\ Midnight(now) = DayLength * k
  BY TimeIsDayAndMinute
<1>5. offset \in Nat /\ offset <= WeekLength BY <1>3 DEF Offsets
<1>6. t = DayLength * (k + offset) + at
  <2>1. t = DayLength * k + offset * DayLength + at BY <1>1, <1>2, <1>4 DEF IsOn
  <2> QED BY <2>1, <1>3, <1>5
<1>7. t \in Nat /\ Day(t) = k + offset /\ MinuteOfDay(t) = at
  <2>1. k + offset \in Nat BY <1>5
  <2> QED BY <1>6, <2>1, TimeOf
<1>8. c \in DueAt(ps, t) BY <1>1, <1>2, <1>7 DEF DueAt, IsOn
<1>9. now <= t BY <1>1, <1>7 DEF IsOn
<1> QED BY <1>3, <1>4, <1>5, <1>7, <1>8, <1>9

\* A time within those days at which a schedule is due is found.
LEMMA DueIsUpcoming ==
  ASSUME NEW ps, Timed(ps), NEW now \in Nat, NEW t \in Nat, now <= t,
         Day(t) <= Day(now) + WeekLength, DueAt(ps, t) # {}
  PROVE  t \in Upcoming(ps, now)
<1>1. PICK c \in DOMAIN ps : /\ ps[c].schedule.on
                             /\ Weekday(t) \in ps[c].schedule.days
                             /\ MinuteOfDay(t) = ps[c].schedule.at
  BY DEF DueAt
<1>2. DayLength \in Nat \ {0} /\ WeekLength \in Nat \ {0} BY ResolverAssumption
<1>3. PICK k \in Nat : k = Day(now) /\ Midnight(now) = DayLength * k
  BY TimeIsDayAndMinute
<1>4. PICK l \in Nat, at \in 0 .. DayLength - 1 :
        l = Day(t) /\ at = MinuteOfDay(t) /\ t = DayLength * l + at
  BY TimeIsDayAndMinute
<1>5. k <= l /\ l <= k + WeekLength BY <1>3, <1>4, DaysInOrder
<1>6. PICK offset \in Offsets : l = k + offset
  <2>1. l - k \in Offsets /\ l = k + (l - k) BY <1>2, <1>5 DEF Offsets
  <2> QED BY <2>1
<1>7. t = Midnight(now) + offset * DayLength + at
  <2>1. offset \in Nat BY <1>2 DEF Offsets
  <2>2. DayLength * (k + offset) + at = DayLength * k + offset * DayLength + at
    BY <1>2, <2>1
  <2> QED BY <1>3, <1>4, <1>6, <2>2
<1>8. IsOn(ps, c, offset, now, t) BY <1>1, <1>4, <1>7 DEF IsOn
<1> QED BY <1>8, UpcomingTimes

\* The next schedule is None when nothing is found, otherwise the first time found.
LEMMA NextIsFirst ==
  ASSUME NEW ps, Timed(ps), NEW now \in Nat
  PROVE  LET next == NextSchedule(ps, now) IN
         /\ next = None => Upcoming(ps, now) = {}
         /\ next # None => /\ next \in Upcoming(ps, now)
                           /\ \A t \in Upcoming(ps, now) : next <= t
<1>1. NextSchedule(ps, now) =
        IF Upcoming(ps, now) = {} THEN None ELSE First(Upcoming(ps, now))
  BY Zenon DEF NextSchedule, Upcoming, Times
<1>2. Upcoming(ps, now) \in SUBSET Nat BY UpcomingIsDue
<1>3. None \notin Nat BY ResolverAssumption
<1>4. CASE Upcoming(ps, now) = {} BY <1>1, <1>4
<1>5. CASE Upcoming(ps, now) # {}
  <2>1. /\ First(Upcoming(ps, now)) \in Upcoming(ps, now)
        /\ \A t \in Upcoming(ps, now) : First(Upcoming(ps, now)) <= t
    BY <1>2, <1>5, FirstIsLeast
  <2> QED BY <1>1, <1>2, <1>3, <1>5, <2>1
<1> QED BY <1>4, <1>5

\* A schedule that is due is due again, and was due, at the time of the same weekday.
LEMMA DueAWeekEarlier ==
  ASSUME NEW ps, NEW k \in Nat, NEW at \in 0 .. DayLength - 1,
         DueAt(ps, DayLength * (k + WeekLength) + at) # {}
  PROVE  DueAt(ps, DayLength * k + at) # {}
<1>1. WeekLength \in Nat \ {0} /\ k + WeekLength \in Nat BY ResolverAssumption
<1>2. PICK t \in Nat : t = DayLength * (k + WeekLength) + at
                         /\ Day(t) = k + WeekLength /\ MinuteOfDay(t) = at
  BY <1>1, TimeOf
<1>3. PICK s \in Nat : s = DayLength * k + at /\ Day(s) = k /\ MinuteOfDay(s) = at
  BY TimeOf
<1>4. Weekday(s) = Weekday(t) BY <1>2, <1>3, WeeksRepeat, TimeIsDayAndMinute
<1>5. DueAt(ps, s) = DueAt(ps, t) BY <1>2, <1>3, <1>4 DEF DueAt
<1> QED BY <1>2, <1>3, <1>5

\* Nothing is due before the next schedule, and nothing for a week and a day when
\* there is none.
LEMMA NothingBefore ==
  ASSUME NEW ps, Timed(ps), NEW now \in Nat, NEW t \in Nat, now <= t,
         NextSchedule(ps, now) = None => t < now + (WeekLength + 1) * DayLength,
         NextSchedule(ps, now) # None => t < NextSchedule(ps, now)
  PROVE  DueAt(ps, t) = {}
<1>1. DayLength \in Nat \ {0} /\ WeekLength \in Nat \ {0} BY ResolverAssumption
<1>2. PICK next : next = NextSchedule(ps, now) OBVIOUS
<1>3. CASE next # None
  <2>1. next \in Upcoming(ps, now) /\ \A u \in Upcoming(ps, now) : next <= u
    BY <1>2, <1>3, NextIsFirst
  <2>2. next \in Nat /\ Day(next) <= Day(now) + WeekLength BY <2>1, UpcomingIsDue
  <2>3. t < next BY <1>2, <1>3
  <2>4. Day(t) <= Day(next) BY <2>2, <2>3, DaysInOrder
  <2>5. Day(t) \in Nat /\ Day(next) \in Nat /\ Day(now) \in Nat BY <2>2, TimeIsDayAndMinute
  <2>6. Day(t) <= Day(now) + WeekLength BY <1>1, <2>2, <2>4, <2>5
  <2>7. t \notin Upcoming(ps, now) BY <2>1, <2>2, <2>3
  <2> QED BY <2>6, <2>7, DueIsUpcoming
<1>4. CASE next = None
  <2>1. Upcoming(ps, now) = {} BY <1>2, <1>4, NextIsFirst
  <2>2. PICK k \in Nat, m \in 0 .. DayLength - 1 : k = Day(now) /\ now = DayLength * k + m
    BY TimeIsDayAndMinute
  <2>3. PICK l \in Nat, at \in 0 .. DayLength - 1 :
          l = Day(t) /\ at = MinuteOfDay(t) /\ t = DayLength * l + at
    BY TimeIsDayAndMinute
  <2>4. l <= k + WeekLength + 1
    <3>1. t < now + (WeekLength + 1) * DayLength BY <1>2, <1>4
    <3>2. ASSUME k + WeekLength + 1 < l PROVE FALSE
      <4>1. DayLength * (k + WeekLength + 1) + DayLength <= DayLength * l
        BY <1>1, <3>2, DaysGrow
      <4>2. DayLength * (k + WeekLength + 1) = DayLength * k + (WeekLength + 1) * DayLength
        BY <1>1
      <4>3. DayLength * k \in Nat /\ DayLength * l \in Nat /\ (WeekLength + 1) * DayLength \in Nat
        BY <1>1
      <4> QED BY <1>1, <2>2, <2>3, <3>1, <4>1, <4>2, <4>3
    <3> QED BY <1>1, <3>2
  <2>5. CASE l <= k + WeekLength BY <2>1, <2>2, <2>3, <2>5, DueIsUpcoming
  <2>6. CASE l = k + 1 + WeekLength
    <3>1. PICK s \in Nat : s = DayLength * (k + 1) + at /\ Day(s) = k + 1 BY TimeOf
    <3>2. now <= s BY <2>2, <3>1, DaysInOrder
    <3>3. Day(s) <= Day(now) + WeekLength BY <1>1, <2>2, <3>1
    <3>4. DueAt(ps, s) = {} BY <2>1, <3>2, <3>3, DueIsUpcoming
    <3>5. k + 1 \in Nat /\ t = DayLength * ((k + 1) + WeekLength) + at BY <2>3, <2>6
    <3> QED BY <3>1, <3>4, <3>5, DueAWeekEarlier
  <2> QED BY <1>1, <2>4, <2>5, <2>6
<1> QED BY <1>3, <1>4

\* For the policies at hand and any time: the next schedule is due, and nothing is
\* due before it.
LEMMA NextIsExact ==
  ASSUME NEW ps, Timed(ps), NEW now \in Nat
  PROVE  LET next    == NextSchedule(ps, now)
             horizon == now + (WeekLength + 1) * DayLength
             until   == IF next = None THEN horizon ELSE next
         IN  /\ \A t \in now .. until - 1 : DueAt(ps, t) = {}
             /\ next # None => DueAt(ps, next) # {}
<1>1. PICK next : next = NextSchedule(ps, now) OBVIOUS
<1>2. PICK horizon \in Nat : horizon = now + (WeekLength + 1) * DayLength
  <2>1. DayLength \in Nat \ {0} /\ WeekLength \in Nat \ {0} BY ResolverAssumption
  <2> QED BY <2>1
<1>3. PICK until : until = IF next = None THEN horizon ELSE next OBVIOUS
<1>4. next # None => next \in Nat /\ DueAt(ps, next) # {}
  BY <1>1, NextIsFirst, UpcomingIsDue
<1>5. until \in Nat BY <1>3, <1>4
<1>6. ASSUME NEW t \in now .. until - 1 PROVE DueAt(ps, t) = {}
  <2>1. t \in Nat /\ now <= t /\ t < until BY <1>5, <1>6
  <2>2. next = None => t < horizon BY <1>3, <2>1
  <2>3. next # None => t < next BY <1>3, <2>1
  <2> QED BY <1>1, <1>2, <2>1, <2>2, <2>3, NothingBefore
<1> QED BY <1>1, <1>2, <1>3, <1>4, <1>6

-----------------------------------------------------------------------------
(* The coordinator.                                                        *)

LEMMA ConfigsAreTimed ==
  ASSUME NEW ps \in Configs \cup {NoPolicies}
  PROVE  Timed(ps)
<1>1. CASE ps \in Configs BY <1>1, CoordinatorAssumption DEF Timed
<1>2. CASE ps = NoPolicies
  <2>1. DOMAIN NoPolicies = {} BY DEF NoPolicies
  <2> QED BY <1>2, <2>1 DEF Timed
<1> QED BY <1>1, <1>2

\* The policies at hand and those being read are some the Worker had, and what is
\* published follows from the policies at hand.
THEOREM CoordinatorInvariant == Spec => []CoordinatorInv
<1>1. Init => CoordinatorInv
  BY DEF Init, CoordinatorInv, IdlePoll, NoSnapshot
<1>2. ASSUME CoordinatorInv, [Next]_vars PROVE CoordinatorInv'
  <2> USE DEF CoordinatorInv, pollVars, worldVars
  <2>1. CASE PollStart
    <3>1. poll' \in [pc : {"idle", "reading", "read"}, now : Nat, got : Configs \cup {NoPolicies}]
      BY <1>2, <2>1 DEF PollStart, IdlePoll
    <3> QED BY <1>2, <2>1, <3>1 DEF PollStart
  <2>2. CASE PollRead
    <3>1. poll' \in [pc : {"idle", "reading", "read"}, now : Nat, got : Configs \cup {NoPolicies}]
      BY <1>2, <2>2 DEF PollRead
    <3> QED BY <1>2, <2>2, <3>1 DEF PollRead
  <2>3. CASE PollEnd
    <3>1. poll' \in [pc : {"idle", "reading", "read"}, now : Nat, got : Configs \cup {NoPolicies}]
      BY <2>3 DEF PollEnd, IdlePoll
    <3>2. known' \in Configs \cup {NoPolicies} BY <1>2, <2>3 DEF PollEnd
    <3>3. /\ snapshot'.active = Resolve(known', snapshot'.mode, snapshot'.at).active
          /\ snapshot'.next = NextSchedule(known', snapshot'.at)
      BY <2>3 DEF PollEnd, Published
    <3> QED BY <1>2, <2>3, <3>1, <3>2, <3>3 DEF PollEnd
  <2>4. CASE PollFails
    <3>1. poll' \in [pc : {"idle", "reading", "read"}, now : Nat, got : Configs \cup {NoPolicies}]
      BY <2>4 DEF PollFails, IdlePoll
    <3>2. snapshot' = snapshot \/ snapshot' = Published(known, FALSE) BY <2>4 DEF PollFails
    <3>3. snapshot'.at # None =>
            /\ snapshot'.active = Resolve(known, snapshot'.mode, snapshot'.at).active
            /\ snapshot'.next = NextSchedule(known, snapshot'.at)
      BY <1>2, <3>2 DEF Published
    <3> QED BY <1>2, <2>4, <3>1, <3>3 DEF PollFails
  <2>5. CASE WorkerStops \/ WorkerStarts BY <1>2, <2>5 DEF WorkerStops, WorkerStarts
  <2>6. CASE EditCollections BY <1>2, <2>6 DEF EditCollections
  <2>7. CASE SetOverride BY <1>2, <2>7 DEF SetOverride
  <2>8. CASE Restart
    BY <1>2, <2>8 DEF Restart, IdlePoll, NoSnapshot
  <2>9. CASE Tick BY <1>2, <2>9 DEF Tick
  <2>10. CASE UNCHANGED vars BY <1>2, <2>10 DEF vars
  <2> QED BY <1>2, <2>1, <2>2, <2>3, <2>4, <2>5, <2>6, <2>7, <2>8, <2>9, <2>10 DEF Next, Poll
<1> QED BY <1>1, <1>2, PTL DEF Spec

\* What _next_schedule names is the first minute, from now on, at which
\* async_handle_due submits something; nothing is due for a week when it names none.
THEOREM NextIsNext == Spec => []NextScheduleIsNext
<1>1. ASSUME CoordinatorInv PROVE NextScheduleIsNext
  <2>1. PICK ps \in Configs \cup {NoPolicies} : ps = known BY <1>1 DEF CoordinatorInv
  <2>2. PICK now \in Nat : now = clock BY <1>1 DEF CoordinatorInv
  <2>3. Timed(ps) BY ConfigsAreTimed
  <2> QED BY <2>1, <2>2, <2>3, NextIsExact, Zenon DEF NextScheduleIsNext
<1> QED BY <1>1, CoordinatorInvariant, PTL

\* An outage leaves the active collection and the next compilation as they were
\* published for that time and that override.
THEOREM OutagesKeepSelection == Spec => OutageKeepsSelection
<1> DEFINE Kept == /\ snapshot'.active = snapshot.active
                   /\ snapshot'.next = snapshot.next
<1>1. ASSUME CoordinatorInv, [Next]_vars, snapshot.at # None, snapshot'.at = snapshot.at,
             snapshot'.mode = snapshot.mode, ~snapshot'.available
      PROVE  Kept
  <2>1. CASE snapshot' = snapshot BY <2>1
  <2>2. CASE PollEnd BY <1>1, <2>2 DEF PollEnd, Published
  <2>3. CASE PollFails
    <3>1. CASE snapshot' = Published(known, FALSE)
      BY <1>1, <3>1 DEF Published, CoordinatorInv
    <3> QED BY <2>1, <2>3, <3>1 DEF PollFails
  <2>4. CASE Restart
    <3>1. snapshot'.at = None BY <2>4 DEF Restart, NoSnapshot
    <3> QED BY <1>1, <3>1
  <2>5. CASE Next /\ ~PollEnd /\ ~PollFails /\ ~Restart
    BY <2>1, <2>5 DEF Next, Poll, PollStart, PollRead, WorkerStops, WorkerStarts,
                      EditCollections, SetOverride, Tick, pollVars
  <2>6. CASE UNCHANGED vars BY <2>1, <2>6 DEF vars, pollVars
  <2> QED BY <1>1, <2>2, <2>3, <2>4, <2>5, <2>6
<1>2. CoordinatorInv /\ [Next]_vars =>
        (snapshot.at # None /\ snapshot'.at = snapshot.at /\ snapshot'.mode = snapshot.mode
           /\ ~snapshot'.available => Kept)
  BY <1>1
<1>3. CoordinatorInv /\ [Next]_vars =>
        [snapshot.at # None /\ snapshot'.at = snapshot.at /\ snapshot'.mode = snapshot.mode
           /\ ~snapshot'.available => Kept]_vars
  BY <1>2
<1> QED BY <1>3, CoordinatorInvariant, PTL DEF Spec, OutageKeepsSelection
=============================================================================
