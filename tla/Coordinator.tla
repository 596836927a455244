----------------------------- MODULE Coordinator -----------------------------
(***************************************************************************)
(* The polling coordinator of the integration (coordinator.py): it reads   *)
(* the collections the Worker owns, keeps what it read last through an     *)
(* outage and a failed poll, and publishes the active collection and the   *)
(* next scheduled compilation.  The Worker goes down and comes back, and   *)
(* users change collections and the override meanwhile.                    *)
(*                                                                         *)
(* Home Assistant runs one refresh at a time; how long it waits between    *)
(* two is left out, a poll may begin at any moment.                        *)
(***************************************************************************)
EXTENDS Resolver

CONSTANTS
  Configs,      \* what the Worker's collections may look like
  Overrides,    \* what the user may set as override
  MaxClock,     \* bound: minutes
  MaxEvents,    \* bound: outages, failing answers, restarts and changes by users
  MaxFailures   \* bound: polls that fail in a row

\* A schedule has a time of the day.
ASSUME CoordinatorAssumption ==
  \A ps \in Configs : \A c \in DOMAIN ps : ps[c].schedule.at \in 0 .. DayLength - 1

VARIABLES
  clock,     \* local time
  up,        \* the Worker answers
  config,    \* the collections the Worker stores
  override,  \* the override in the entry's options
  known,     \* worker_collections and policies
  poll,      \* the refresh in progress: when it began, what it has read
  failures,  \* _failure_count
  snapshot,  \* coordinator.data
  events     \* outages, failing answers, restarts and changes so far

pollVars == <<known, poll, failures, snapshot>>
worldVars == <<clock, up, config, override, events>>
vars == <<pollVars, worldVars>>

-----------------------------------------------------------------------------
NoPolicies == <<>>
NoSnapshot == [available |-> FALSE, at |-> None, mode |-> Automatic, active |-> None,
               reason |-> "none", next |-> None]
IdlePoll == [pc |-> "idle", now |-> 0, got |-> NoPolicies]

\* timedelta raises OverflowError beyond 30 s * 2**41.
MaxDoublings == 41

Init ==
  /\ known = NoPolicies /\ poll = IdlePoll /\ failures = 0 /\ snapshot = NoSnapshot
  /\ clock = 1 /\ up = TRUE /\ events = 0
  /\ config \in Configs
  /\ override = Automatic

\* The time of the snapshot is read before the requests are made.
PollStart ==
  /\ poll.pc = "idle"
  /\ poll' = [IdlePoll EXCEPT !.pc = "reading", !.now = clock]
  /\ UNCHANGED <<known, failures, snapshot, worldVars>>

\* GET /collections is answered; the other requests of gather may still be out.
PollRead ==
  /\ poll.pc = "reading" /\ up
  /\ poll' = [poll EXCEPT !.pc = "read", !.got = config]
  /\ UNCHANGED <<known, failures, snapshot, worldVars>>

\* The snapshot; mode, the override it was resolved with, is kept for a property.
Published(ps, available) ==
  LET selection == Resolve(ps, override, poll.now)
  IN  [available |-> available, at |-> poll.now, mode |-> override, active |-> selection.active,
       reason |-> selection.reason, next |-> NextSchedule(ps, poll.now)]

\* Mutant: policies are only read once.
PollEndKeeping ==
  /\ poll.pc = "read"
  /\ known' = IF known = NoPolicies THEN poll.got ELSE known
  /\ snapshot' = Published(known', TRUE)
  /\ failures' = 0
  /\ poll' = IdlePoll
  /\ UNCHANGED worldVars

\* All four answers are there: an empty list does not replace the policies.
PollEnd ==
  /\ poll.pc = "read"
  /\ known' = IF poll.got = NoPolicies THEN known ELSE poll.got
  /\ snapshot' = Published(known', TRUE)
  /\ failures' = 0
  /\ poll' = IdlePoll
  /\ UNCHANGED worldVars

Event == events < MaxEvents /\ events' = events + 1

\* Mutant: an outage empties the policies.
PollFailsBlank ==
  /\ poll.pc # "idle"
  /\ IF up THEN Event ELSE UNCHANGED events
  /\ failures < MaxFailures
  /\ failures' = failures + 1
  /\ known' = NoPolicies
  /\ snapshot' = Published(known', FALSE)
  /\ poll' = IdlePoll
  /\ UNCHANGED <<clock, up, config, override>>

\* A request raises WorkerApiError: the Worker is down, or it is up and one of the
\* answers is an error, malformed or late.  The new interval is computed before the
\* snapshot, and past MaxDoublings that computation raises: the old snapshot stays.
PollFails ==
  /\ poll.pc # "idle"
  /\ IF up THEN Event ELSE UNCHANGED events
  /\ failures < MaxFailures
  /\ failures' = failures + 1
  /\ snapshot' = IF failures' > MaxDoublings THEN snapshot ELSE Published(known, FALSE)
  /\ poll' = IdlePoll
  /\ UNCHANGED <<known, clock, up, config, override>>

-----------------------------------------------------------------------------
(* What happens around it.                                                 *)

WorkerStops == Event /\ up /\ up' = FALSE /\ UNCHANGED <<clock, config, override, pollVars>>

WorkerStarts == ~up /\ up' = TRUE /\ UNCHANGED <<clock, config, override, events, pollVars>>

\* A user edits the collections in the Library Manager, which deletes none.
EditCollections ==
  /\ Event /\ up
  /\ config' \in Configs \ {config, NoPolicies}
  /\ UNCHANGED <<clock, up, override, pollVars>>

\* async_set_collection_override: an explicit collection must be known, enabled
\* and open to it at the time.
SetOverride ==
  /\ Event
  /\ \E mode \in Overrides \ {override} :
       /\ mode.kind = "explicit" =>
            mode.id \in DOMAIN known /\ known[mode.id].enabled /\ known[mode.id].manual
       /\ override' = mode
  /\ UNCHANGED <<clock, up, config, pollVars>>

\* Home Assistant starts again: policies are not stored.
Restart ==
  /\ Event
  /\ known' = NoPolicies /\ poll' = IdlePoll /\ failures' = 0 /\ snapshot' = NoSnapshot
  /\ UNCHANGED <<clock, up, config, override>>

Tick ==
  /\ clock < MaxClock
  /\ clock' = clock + 1
  /\ UNCHANGED <<up, config, override, events, pollVars>>

Poll == PollStart \/ PollRead \/ PollEnd \/ PollFails

Next == Poll \/ WorkerStops \/ WorkerStarts \/ EditCollections \/ SetOverride \/ Restart \/ Tick

Spec == Init /\ [][Next]_vars

\* Home Assistant goes on polling, and the Supervisor starts the Worker again.
FairSpec == Spec /\ WF_vars(Poll) /\ WF_vars(WorkerStarts)

-----------------------------------------------------------------------------
\* A dropped poll does not reshuffle the selection: as long as neither the time
\* nor the override has changed, an outage leaves the active collection and the
\* next compilation as they were published.
OutageKeepsSelection ==
  [][snapshot.at # None /\ snapshot'.at = snapshot.at /\ snapshot'.mode = snapshot.mode
       /\ ~snapshot'.available
     => snapshot'.active = snapshot.active /\ snapshot'.next = snapshot.next]_vars

\* What is published as the next compilation is the first minute, from now on,
\* at which the scheduler will submit something.
NextScheduleIsNext ==
  LET next    == NextSchedule(known, clock)
      horizon == clock + (WeekLength + 1) * DayLength
      until   == IF next = None THEN horizon ELSE next
  IN  /\ \A t \in clock .. until - 1 : DueAt(known, t) = {}
      /\ next # None => DueAt(known, next) # {}

\* Once the Worker stays up and nobody changes anything, the coordinator knows
\* its collections and says that it is available.
CatchesUp == <>[](known = config /\ snapshot.available)

-----------------------------------------------------------------------------
\* The policies at hand are some the Worker had, and what is published follows from
\* them; inductive.
CoordinatorInv ==
  /\ clock \in Nat
  /\ {known, config} \subseteq Configs \cup {NoPolicies}
  /\ poll \in [pc : {"idle", "reading", "read"}, now : Nat, got : Configs \cup {NoPolicies}]
  /\ snapshot.at # None =>
       /\ snapshot.active = Resolve(known, snapshot.mode, snapshot.at).active
       /\ snapshot.next = NextSchedule(known, snapshot.at)
=============================================================================
