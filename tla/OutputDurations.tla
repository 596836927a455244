--------------------------- MODULE OutputDurations ---------------------------
(***************************************************************************)
(* Recovery of the durations of compiled files (output_duration.py).  Every *)
(* request that lists clips goes through those whose duration is unknown,  *)
(* for two seconds at most, and probes their files, while the Worker's job *)
(* replaces such files, scans touch the rows and files disappear.          *)
(*                                                                         *)
(* A duration is known by the version of the file it was measured on; 0 is *)
(* no duration, and no file.                                               *)
(***************************************************************************)
EXTENDS Naturals

CONSTANTS
  Clips,       \* numbered in the order of the list
  Slow,        \* those whose file takes longer to probe than a request may take in all
  Pollers,     \* clients that list the clips again and again: the coordinator
  Visitors,    \* clients that list them now and then: Library Managers
  Free,        \* the lock: no request, and the job: no clip
  Retry,       \* polls within the 60 seconds for which a failed probe is not repeated
  MaxChanges   \* bound: publications, scans, removals, crashes and visits

Readers == Pollers \cup Visitors

ASSUME DurationsAssumption ==
  /\ Clips \subseteq Nat \ {0} /\ Slow \subseteq Clips
  /\ Pollers \cap Visitors = {} /\ Free \notin Readers \cup Clips
  /\ Retry \in Nat /\ MaxChanges \in Nat

VARIABLES
  row,       \* output_available, output_duration_seconds and updated_at of each clip
  file,      \* the version of each compiled file
  reader,    \* the requests that list clips
  lock,      \* OutputDurations._lock
  wait,      \* _retry_after, in polls from now
  job,       \* the clip whose new file the Worker has in place but not recorded
  cut,       \* history: clips of which such a file was never recorded
  changes    \* publications and other changes so far

vars == <<row, file, reader, lock, wait, job, cut, changes>>

\* What is left of a request's two seconds.
Budgets == {"all", "some", "none"}

Idle == [pc |-> "idle", todo |-> {}, clip |-> Free, budget |-> "all", seen |-> 0,
         before |-> 0, got |-> 0]

\* An installation that was upgraded: files without durations, and clips without files.
Init ==
  /\ file = [c \in Clips |-> 1]
  /\ row \in [Clips -> [avail: BOOLEAN, dur: {0}, stamp: {0}]]
  /\ reader = [r \in Readers |-> Idle]
  /\ lock = Free /\ wait = [c \in Clips |-> 0]
  /\ job = Free /\ cut = {} /\ changes = 0

Change == changes < MaxChanges /\ changes' = changes + 1

Unmeasured(c) == row[c].avail /\ row[c].dur = 0

-----------------------------------------------------------------------------
(* A request.                                                              *)

Goes(r, to) == reader' = [reader EXCEPT ![r] = to]

\* ensure_many: the rows are read, and the deadline is set.
Begin(r) ==
  /\ reader[r].pc = "idle"
  /\ Goes(r, [Idle EXCEPT !.pc = "row", !.todo = {c \in Clips : Unmeasured(c)}])

\* What is left of the 60 seconds one poll later.
Left(c) == IF wait[c] = 0 THEN 0 ELSE wait[c] - 1

\* Time passes from one poll to the next.
Poll(r) ==
  /\ r \in Pollers /\ Begin(r)
  /\ wait' = [c \in Clips |-> Left(c)]
  /\ UNCHANGED <<row, file, lock, job, cut, changes>>

Visit(r) ==
  /\ r \in Visitors /\ Change /\ Begin(r)
  /\ UNCHANGED <<row, file, lock, wait, job, cut>>

\* Request r has come to clip c of the list.
At(r, c) ==
  /\ reader[r].pc = "row"
  /\ c \in reader[r].todo /\ \A d \in reader[r].todo : c <= d

\* It is done with c.
Past(r, c, budget) ==
  Goes(r, [Idle EXCEPT !.pc = "row", !.todo = reader[r].todo \ {c}, !.budget = budget])
Done(r) == Past(r, reader[r].clip, reader[r].budget)

\* The list is at its end.
Answer(r) ==
  /\ reader[r].pc = "row" /\ reader[r].todo = {}
  /\ Goes(r, Idle)
  /\ UNCHANGED <<row, file, lock, wait, job, cut, changes>>

\* The deadline has passed, or another request has the lock.
Skip(r) ==
  /\ reader[r].budget = "none" \/ lock # Free
  /\ \E c \in Clips : At(r, c) /\ Past(r, c, reader[r].budget)
  /\ UNCHANGED <<row, file, lock, wait, job, cut, changes>>

Measure(r, c) ==
  /\ lock' = r
  /\ Goes(r, [reader[r] EXCEPT !.pc = "before", !.clip = c, !.seen = row[c].stamp])

\* Mutant: a file that could not be measured is tried again at once.
LookAgain(r) ==
  /\ reader[r].budget # "none" /\ lock = Free
  /\ \E c \in Clips :
       /\ At(r, c)
       /\ IF Unmeasured(c) THEN Measure(r, c) ELSE Past(r, c, reader[r].budget) /\ UNCHANGED lock
  /\ UNCHANGED <<row, file, wait, job, cut, changes>>

\* Under the lock the row is read again; a clip whose turn has not come is passed over.
Look(r) ==
  /\ reader[r].budget # "none" /\ lock = Free
  /\ \E c \in Clips :
       /\ At(r, c)
       /\ IF Unmeasured(c) /\ wait[c] = 0
          THEN Measure(r, c) /\ wait' = [wait EXCEPT ![c] = Retry]
          ELSE Past(r, c, reader[r].budget) /\ UNCHANGED <<lock, wait>>
  /\ UNCHANGED <<row, file, job, cut, changes>>

\* path.stat()
Before(r) ==
  LET there == file[reader[r].clip]
  IN
  /\ reader[r].pc = "before"
  /\ IF there # 0
     THEN /\ Goes(r, [reader[r] EXCEPT !.pc = "probe", !.before = there])
          /\ UNCHANGED lock
     ELSE Done(r) /\ lock' = Free
  /\ UNCHANGED <<row, file, wait, job, cut, changes>>

\* ProbeClient.probe fails without a file, or when what is left of the budget has
\* passed: always for a slow file, and for another one if there was less than all.
Probe(r) ==
  LET c == reader[r].clip
  IN
  /\ reader[r].pc = "probe"
  /\ \/ /\ file[c] = 0
        /\ Done(r) /\ lock' = Free
     \/ /\ file[c] # 0 /\ (c \in Slow \/ reader[r].budget = "some")
        /\ Past(r, c, "none") /\ lock' = Free
     \/ /\ file[c] # 0 /\ c \notin Slow
        /\ \E rest \in Budgets \ {"all"} :
             Goes(r, [reader[r] EXCEPT !.pc = "after", !.got = file[c], !.budget = rest])
        /\ UNCHANGED lock
  /\ UNCHANGED <<row, file, wait, job, cut, changes>>

\* path.stat() again: what was measured must be what is there.
After(r) ==
  /\ reader[r].pc = "after"
  /\ IF file[reader[r].clip] = reader[r].before
     THEN Goes(r, [reader[r] EXCEPT !.pc = "write"]) /\ UNCHANGED lock
     ELSE Done(r) /\ lock' = Free
  /\ UNCHANGED <<row, file, wait, job, cut, changes>>

\* Mutant: the duration is written to the row whatever has become of it.
WriteAlways(r) ==
  LET c == reader[r].clip
  IN
  /\ reader[r].pc = "write"
  /\ row' = [row EXCEPT ![c].dur = reader[r].got]
  /\ wait' = [wait EXCEPT ![c] = 0]
  /\ Done(r) /\ lock' = Free
  /\ UNCHANGED <<file, job, cut, changes>>

\* The UPDATE, to the row as it was read only.
Write(r) ==
  LET c == reader[r].clip
  IN
  /\ reader[r].pc = "write"
  /\ row' = IF Unmeasured(c) /\ row[c].stamp = reader[r].seen
            THEN [row EXCEPT ![c].dur = reader[r].got] ELSE row
  /\ wait' = [wait EXCEPT ![c] = 0]
  /\ Done(r) /\ lock' = Free
  /\ UNCHANGED <<file, job, cut, changes>>

-----------------------------------------------------------------------------
(* The rest of the Worker.                                                 *)

\* A compile job replaces the file, with a version that is new ...
Replace(c) ==
  /\ Change /\ job = Free
  /\ job' = c
  /\ file' = [file EXCEPT ![c] = changes + 2]
  /\ UNCHANGED <<row, reader, lock, wait, cut>>

\* ... and records it, with the duration of the file before it was moved into place.
Record ==
  /\ job # Free
  /\ row' = [row EXCEPT ![job] = [avail |-> TRUE, dur |-> file[job], stamp |-> @.stamp + 1]]
  /\ cut' = cut \ {job}
  /\ job' = Free
  /\ UNCHANGED <<file, reader, lock, wait, changes>>

\* A scan rewrites the row with a new updated_at.
Scan(c) ==
  /\ Change
  /\ row' = [row EXCEPT ![c].stamp = @ + 1]
  /\ UNCHANGED <<file, reader, lock, wait, job, cut>>

\* The file is removed from outside of the Worker ...
Vanish(c) ==
  /\ Change /\ job # c /\ file[c] # 0
  /\ file' = [file EXCEPT ![c] = 0]
  /\ UNCHANGED <<row, reader, lock, wait, job, cut>>

\* ... which _live_clip notices when the clip is listed.
Withdraw(c) ==
  /\ file[c] = 0 /\ row[c].avail
  /\ row' = [row EXCEPT ![c].avail = FALSE, ![c].stamp = @ + 1]
  /\ UNCHANGED <<file, reader, lock, wait, job, cut, changes>>

\* The process ends and starts again: lock and throttle were in memory.
Crash ==
  /\ Change
  /\ reader' = [r \in Readers |-> Idle]
  /\ lock' = Free /\ wait' = [c \in Clips |-> 0]
  /\ cut' = IF job = Free THEN cut ELSE cut \cup {job}
  /\ job' = Free
  /\ UNCHANGED <<row, file>>

Step(r) == Answer(r) \/ Skip(r) \/ Look(r) \/ Before(r) \/ Probe(r) \/ After(r) \/ Write(r)
Worker(c) == Replace(c) \/ Scan(c) \/ Vanish(c) \/ Withdraw(c)

Next ==
  \/ \E r \in Readers : Poll(r) \/ Visit(r) \/ Step(r)
  \/ \E c \in Clips : Worker(c)
  \/ Record \/ Crash

\* Requests are answered, jobs go on, and the coordinator polls for ever.
Fairness ==
  /\ \A r \in Readers : WF_vars(Step(r))
  /\ \A r \in Pollers : WF_vars(Poll(r))
  /\ WF_vars(Record)

Spec == Init /\ [][Next]_vars /\ Fairness

-----------------------------------------------------------------------------
TypeOK ==
  /\ row \in [Clips -> [avail: BOOLEAN, dur: Nat, stamp: Nat]]
  /\ file \in [Clips -> Nat]
  /\ \A r \in Readers : reader[r].todo \subseteq Clips
  /\ lock \in Readers \cup {Free}
  /\ wait \in [Clips -> 0 .. Retry]

\* The duration that a clip is listed with is that of the file it would be played
\* from, whatever is replaced, scanned or removed while a request measures it; but
\* for a file that is just being published, or was when the process ended.
MeasuredIsPlayed ==
  \A c \in Clips : row[c].avail /\ row[c].dur # 0 /\ file[c] # 0 /\ c # job /\ c \notin cut
                     => row[c].dur = file[c]

\* "Probing has a two-second budget per catalog request; subsequent refreshes
\* continue recovery when a library needs more time" (docs/api.md:127-128): a file
\* that can be measured in two seconds is, although others use up the budget of some
\* requests, and one that never can be measured (a single clip of Slow) that of every
\* request it comes first in.
EveryOutputIsMeasured ==
  \A c \in Clips \ Slow : Unmeasured(c) /\ file[c] # 0 ~> ~(Unmeasured(c) /\ file[c] # 0)
=============================================================================
