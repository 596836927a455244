------------------------------ MODULE JobQueue ------------------------------
(***************************************************************************)
(* PersistentJobQueue of the Worker (queue.py): the durable jobs table,    *)
(* the columns of the clips table its transactions write, and one action   *)
(* per transaction.  Every operation begins a transaction with BEGIN       *)
(* IMMEDIATE, so each is one atomic step, except where its caller has      *)
(* begun one before: what the caller makes of that, and what interleaves   *)
(* between the operations, is the business of the module that calls them.  *)
(*                                                                         *)
(* A job is known by its UUID, drawn from Jobs.  Progress, log and         *)
(* timestamp columns are left out, except the order of created_at, kept as *)
(* the number job[j].created.                                              *)
(***************************************************************************)
EXTENDS Naturals, FiniteSets

CONSTANTS
  Jobs,         \* the UUIDs that jobs may be given
  Clips,        \* the clips of one enabled collection
  NoClip,       \* the clip_id of a scan or cleanup job, which names no clip
  MaxAttempts   \* CompileRequest.max_attempts, the same for every job

ASSUME QueueAssumption ==
  /\ NoClip \notin Clips
  /\ MaxAttempts \in Nat \ {0}

VARIABLES
  job,          \* the jobs table
  clip          \* the state, output_available and source_fingerprint of each clip

queueVars == <<job, clip>>

Kinds == {"compile", "edit", "scan", "cleanup"}
Active == {"queued", "running"}
Terminal == {"succeeded", "failed", "cancelled"}
\* "none" is a UUID that no row carries yet.
JobStates == Active \cup Terminal \cup {"none"}
\* ClipState of models.py.
ClipStates == {"discovered", "invalid", "pending", "compiling", "ready",
               "failed", "stale", "deleted"}

JobRows == [state: JobStates, kind: Kinds, clip: Clips \cup {NoClip}, fp: Nat,
            attempt: Nat, cancel: BOOLEAN, created: Nat]
ClipRows == [state: ClipStates, out: BOOLEAN, fp: Nat]

QueueTypeOK ==
  /\ job \in [Jobs -> JobRows]
  /\ clip \in [Clips -> ClipRows]

NoRow == [state |-> "none", kind |-> "compile", clip |-> NoClip, fp |-> 0,
          attempt |-> 0, cancel |-> FALSE, created |-> 0]

\* A JobRecord as its constructor leaves it, not yet persisted.
NewJob(kind, c, fp, created) ==
  [NoRow EXCEPT !.state = "queued", !.kind = kind, !.clip = c, !.fp = fp,
                !.created = created]

\* The first scan has found every source file; nothing is compiled yet.
QueueInit ==
  /\ job = [j \in Jobs |-> NoRow]
  /\ clip = [c \in Clips |-> [state |-> "discovered", out |-> FALSE, fp |-> 1]]

-----------------------------------------------------------------------------
\* JobRecord.fingerprint: a compile job is identified by its clip and source
\* fingerprint (the profile is fixed here); every other kind carries its own
\* UUID in the fingerprint, so it has no duplicates.
SameWork(r, s) ==
  r.kind = "compile" /\ s.kind = "compile" /\ r.clip = s.clip /\ r.fp = s.fp

Running == {j \in Jobs : job[j].state = "running"}
ActiveCompiles ==
  {j \in Jobs : job[j].state \in Active /\ job[j].kind = "compile"}

HasSucceeded(r) ==
  \E k \in Jobs : job[k].state = "succeeded" /\ SameWork(job[k], r)

SetClip(c, state) ==
  [d \in Clips |-> IF d = c THEN [clip[d] EXCEPT !.state = state] ELSE clip[d]]

\* What a compile job that leaves the queue without output does to its clip.
Withdrawn(c) == IF c \in Clips /\ clip[c].out THEN "stale" ELSE "discovered"

\* Mutant: only a queued duplicate counts.
DuplicateQueued(r) ==
  \E k \in Jobs : job[k].state = "queued" /\ SameWork(job[k], r)

\* An active job for the same work is returned in place of a new one.
Duplicate(r) ==
  \E k \in Jobs : job[k].state \in Active /\ SameWork(job[k], r)

\* INSERT the row; a compile job makes its clip pending.
Persist(j, r) ==
  /\ job' = [job EXCEPT ![j] = r]
  /\ clip' = IF r.kind = "compile" THEN SetClip(r.clip, "pending") ELSE clip

\* enqueue / enqueue_many for one job, as one transaction.
Enqueue(j, r) == IF Duplicate(r) THEN UNCHANGED queueVars ELSE Persist(j, r)

\* The oldest queued row, provided that no row is running.
Claimable(j) ==
  /\ job[j].state = "queued"
  /\ \A k \in Jobs : job[k].state = "queued" => job[j].created <= job[k].created
  /\ Running = {}

ClaimNext(j) ==
  /\ Claimable(j)
  /\ job' = [job EXCEPT ![j].state = "running", ![j].attempt = @ + 1]
  /\ clip' = IF job[j].kind = "compile" THEN SetClip(job[j].clip, "compiling") ELSE clip

NothingToClaim == \A j \in Jobs : ~Claimable(j)

\* update: writes the caller's copy of the mutable columns over the row.
Update(j, state, attempt, cancel) ==
  /\ job' = [job EXCEPT ![j].state = state, ![j].attempt = attempt,
                        ![j].cancel = cancel]
  /\ clip' = IF job[j].kind # "compile" THEN clip
             ELSE LET c == job[j].clip IN
                  CASE state = "queued" -> SetClip(c, "pending")
                    [] state = "failed" -> SetClip(c, "failed")
                    [] state = "cancelled" -> SetClip(c, Withdrawn(c))
                    [] OTHER -> clip

\* Mutant: no early return for a job that has ended.
CancelEnded(j) ==
  \/ /\ job[j].state \in Terminal \cup {"queued"}
     /\ job' = [job EXCEPT ![j].state = "cancelled", ![j].cancel = TRUE]
     /\ UNCHANGED clip
  \/ /\ job[j].state = "running"
     /\ job' = [job EXCEPT ![j].cancel = TRUE]
     /\ UNCHANGED clip

\* request_cancel: a queued job ends at once, a running one is only flagged.
RequestCancel(j) ==
  \/ /\ job[j].state = "queued"
     /\ job' = [job EXCEPT ![j].state = "cancelled", ![j].cancel = TRUE]
     /\ clip' = IF job[j].kind = "compile"
                THEN SetClip(job[j].clip, Withdrawn(job[j].clip)) ELSE clip
  \/ /\ job[j].state = "running"
     /\ job' = [job EXCEPT ![j].cancel = TRUE]
     /\ UNCHANGED clip
  \/ /\ job[j].state \in Terminal
     /\ UNCHANGED queueVars

\* _cancel_active_jobs: request_cancel for every active job, in the transaction
\* of the request.
RequestCancelAll ==
  /\ job' = [j \in Jobs |->
               CASE job[j].state = "queued" ->
                      [job[j] EXCEPT !.state = "cancelled", !.cancel = TRUE]
                 [] job[j].state = "running" -> [job[j] EXCEPT !.cancel = TRUE]
                 [] OTHER -> job[j]]
  /\ clip' = [c \in Clips |->
               IF \E j \in Jobs : /\ job[j].state = "queued" /\ job[j].kind = "compile"
                                  /\ job[j].clip = c
               THEN [clip[c] EXCEPT !.state = Withdrawn(c)] ELSE clip[c]]

\* Mutant: restart gives rows that have attempts left back to the queue and
\* forgets the others.
RecoverRetryable ==
  /\ job' = [j \in Jobs |->
               IF job[j].state = "running" /\ job[j].attempt < MaxAttempts
               THEN [job[j] EXCEPT !.state = "queued"] ELSE job[j]]
  /\ UNCHANGED clip

\* The two UPDATEs at the start of the application's lifespan.  Neither touches
\* a clip, and neither clears cancel_requested.
RecoverInterrupted ==
  /\ job' = [j \in Jobs |->
               IF job[j].state # "running" THEN job[j]
               ELSE [job[j] EXCEPT !.state =
                       IF job[j].attempt < MaxAttempts THEN "queued" ELSE "failed"]]
  /\ UNCHANGED clip
=============================================================================
