----------------------------- MODULE JobWorker -----------------------------
(***************************************************************************)
(* The Worker process: the single job consumer (JobWorker.run_once, driven *)
(* by the lifespan task), the HTTP handlers that enqueue and cancel work,  *)
(* the files the jobs read and write, and the process's crashes, clean     *)
(* shutdowns and restarts.                                                 *)
(*                                                                         *)
(* The consumer runs in a thread of its own and the handlers in others, so *)
(* every database transaction, every file operation and every unlocked     *)
(* read whose result is used later is one step.                            *)
(***************************************************************************)
EXTENDS JobQueue, Catalog

CONSTANTS
  Handlers,     \* HTTP requests that can be in progress at a time
  NoJob,        \* no job at all
  MaxRev,       \* bound: contents a user puts in one source file
  MaxStops,     \* bound: crashes and shutdowns of the process
  MaxBuilds,    \* bound: JobRecords that requests build
  Ops,          \* bound: what the users of an instance do (a subset of UserOps)
  DbTimeouts,   \* may a write wait past busy_timeout and raise?
  RemovalFails  \* may the removal of a job's directory raise?

UserOps == {"compile", "stale", "recompile", "edit", "scan", "cleanup", "cancel",
            "replace", "hide"}

ASSUME WorkerAssumption ==
  /\ NoJob \notin Jobs
  /\ MaxRev \in Nat \ {0}
  /\ MaxStops \in Nat
  /\ MaxBuilds \in Nat
  /\ Ops \subseteq UserOps
  /\ DbTimeouts \in BOOLEAN
  /\ RemovalFails \in BOOLEAN

VARIABLES
  host,         \* the process: its state and how often it has stopped
  w,            \* the consumer: program counter and local variables of run_once
  req,          \* the HTTP requests in progress
  clock,        \* JobRecords built so far; stands for created_at
  source,       \* revision of the content of each clip's source file
  missing,      \* the clips whose source file is absent
  output,       \* the source revision each compiled file was made from; 0: no file
  temp,         \* the jobs whose directory under the temp root exists
  published     \* history: how often each job replaced its target file

hostVars == <<host>>
fileVars == <<source, missing, output, temp, published>>
httpVars == <<req, clock>>
vars == <<job, clip, host, w, req, clock, source, missing, output, temp, published>>

-----------------------------------------------------------------------------
(* The consumer's local state.  pc names the next statement of run_once;   *)
(* attempt and cancel are the copy of the row that claim_next returned.    *)

Pcs == {"idle", "claim", "mkdir", "prepare", "poll", "wait", "exited", "judged",
        "validate", "publish", "published", "record", "except", "finish",
        "noteread", "note", "cleanup", "abort", "scan", "scanning", "sweep", "dead",
        "stranded"}
Phases == {"analysis", "encode", "final"}
Results == {"none", "ok", "queued"} \cup Terminal

\* A row read outside the transaction that will write it: the first file a scan
\* visits (its clip, the row and the content), or the row of the job's own clip.
NoRead == [clip |-> NoClip, seen |-> [state |-> "deleted", out |-> FALSE, fp |-> 0],
           rev |-> 0]
Reads == [clip: Clips \cup {NoClip}, seen: ClipRows, rev: Nat]

IdleWorker ==
  [pc |-> "idle", job |-> NoJob, attempt |-> 0, cancel |-> FALSE,
   phase |-> "encode", began |-> 0, made |-> 0, result |-> "none",
   handling |-> FALSE, read |-> NoRead]

WorkerStates ==
  [pc: Pcs, job: Jobs \cup {NoJob}, attempt: Nat, cancel: BOOLEAN,
   phase: Phases, began: Nat, made: Nat, result: Results,
   handling: BOOLEAN, read: Reads]

ReqPcs == {"idle", "mark", "check", "scan", "scanning", "build", "insert", "store",
           "refused"}

IdleReq == [pc |-> "idle", clip |-> NoClip, skip |-> TRUE, recompile |-> FALSE,
            read |-> NoRead, id |-> NoJob, row |-> NoRow]
Requests == [pc: ReqPcs, clip: Clips \cup {NoClip}, skip: BOOLEAN, recompile: BOOLEAN,
             read: Reads, id: Jobs \cup {NoJob}, row: JobRows]

Init ==
  /\ QueueInit
  /\ host = [state |-> "up", stops |-> 0]
  /\ w = IdleWorker
  /\ req = [h \in Handlers |-> IdleReq]
  /\ clock = 0
  /\ source = [c \in Clips |-> 1]
  /\ missing = {}
  /\ output = [c \in Clips |-> 0]
  /\ temp = {}
  /\ published = [j \in Jobs |-> 0]

Alive == host.state \in {"up", "stopping"}

\* The consumer thread stands at statement p.
At(p) == Alive /\ w.pc = p

\* BEGIN IMMEDIATE and every write wait until no other connection is in a write
\* transaction.  One stays open over several steps: that of a POST
\* /api/v1/compile until its scan commits it.
CanWrite == \A h \in Handlers : req[h].pc = "scanning" => req[h].recompile

Kind == job[w.job].kind
Target == job[w.job].clip

-----------------------------------------------------------------------------
(* Scanning, on whichever thread.  Python opens the transaction at the     *)
(* first UPDATE: the row of the first file visited was read before it, the *)
(* remaining rows are read inside it.                                      *)

FirstReads ==
  IF missing = Clips THEN {NoRead}
  ELSE {[clip |-> c, seen |-> clip[c], rev |-> source[c]] : c \in Clips \ missing}

ScanCommit(r, valid) ==
  clip' = [c \in Clips |->
             IF c = r.clip THEN ScannedClip(r.seen, clip[c].out, r.rev, c \in valid)
             ELSE IF c \in missing THEN MissingClip(clip[c])
             ELSE ScannedClip(clip[c], clip[c].out, source[c], c \in valid)]

-----------------------------------------------------------------------------
(* The consumer task and claim_next.                                       *)

\* Mutant: consume() never looks at the stop event.
LoopForever ==
  /\ At("idle")
  /\ w' = [w EXCEPT !.pc = "claim"]
  /\ UNCHANGED <<queueVars, hostVars, httpVars, fileVars>>

\* The while condition of consume(): once it has been evaluated, run_once is
\* entered whatever happens to the event.
Loop ==
  /\ At("idle")
  /\ host.state = "up"
  /\ w' = [w EXCEPT !.pc = "claim"]
  /\ UNCHANGED <<queueVars, hostVars, httpVars, fileVars>>

Claim ==
  /\ At("claim") /\ CanWrite
  /\ \/ \E j \in Jobs :
          /\ ClaimNext(j)
          /\ w' = [IdleWorker EXCEPT
                     !.pc = CASE job[j].kind = "scan" -> "scan"
                              [] job[j].kind = "cleanup" -> "sweep"
                              [] OTHER -> "mkdir",
                     !.job = j, !.attempt = job[j].attempt + 1,
                     !.cancel = job[j].cancel]
     \/ /\ NothingToClaim
        /\ w' = IdleWorker
        /\ UNCHANGED queueVars
  /\ UNCHANGED <<hostVars, httpVars, fileVars>>

-----------------------------------------------------------------------------
(* Compile and edit jobs.                                                  *)

\* self.queue.update(job.model_copy(progress)): the stale copy, state running.
SaveProgress == CanWrite /\ Update(w.job, "running", w.attempt, w.cancel)

\* Leave the try block towards _finish with this outcome.
Settle(outcome) ==
  w' = [w EXCEPT !.pc = "finish", !.result = outcome, !.phase = "encode", !.made = 0,
                 !.read = NoRead]

\* Raise into the except clause.
Raising ==
  w' = [w EXCEPT !.pc = "except", !.handling = TRUE, !.result = "none",
                 !.phase = "encode", !.began = 0, !.made = 0, !.read = NoRead]

\* Mutant: off by one at the cap.
FailAttemptLate ==
  IF Kind = "compile"
  THEN Settle(IF w.attempt <= MaxAttempts THEN "queued" ELSE "failed")
  ELSE Raising

\* An unsuccessful compile attempt is retried below the cap; a failed edit
\* raises, and is never retried.
FailAttempt ==
  IF Kind = "compile"
  THEN Settle(IF w.attempt < MaxAttempts THEN "queued" ELSE "failed")
  ELSE Raising

\* Mutant: exist_ok=True.
MakeTempAgain ==
  /\ At("mkdir")
  /\ temp' = temp \cup {w.job}
  /\ w' = [w EXCEPT !.pc = "prepare"]
  /\ UNCHANGED <<queueVars, hostVars, httpVars, source, missing, output, published>>

\* temp_dir.mkdir(exist_ok=False)
MakeTemp ==
  /\ At("mkdir")
  /\ IF w.job \in temp
     THEN Raising /\ UNCHANGED temp
     ELSE /\ temp' = temp \cup {w.job}
          /\ w' = [w EXCEPT !.pc = "prepare"]
  /\ UNCHANGED <<queueVars, hostVars, httpVars, source, missing, output, published>>

\* Build the runtime job and start the first process.  An edit requires its
\* source file and saves the job first; a compile job with two-pass loudness
\* starts by analysing its segments.
Prepare ==
  /\ At("prepare")
  /\ Kind = "edit" => Target \notin missing
  /\ \E p \in {"analysis", "encode"} :
       /\ Kind = "edit" => p = "encode"
       /\ w' = [w EXCEPT !.pc = "poll", !.phase = p,
                         !.began = IF Target \in missing THEN 0 ELSE source[Target]]
  /\ IF Kind = "edit" THEN SaveProgress ELSE UNCHANGED queueVars
  /\ UNCHANGED <<hostVars, httpVars, fileVars>>

\* _run_process reads the cancel flag of the row and stops the process group.
Poll ==
  /\ At("poll")
  /\ w' = IF job[w.job].cancel
          THEN [w EXCEPT !.pc = "exited", !.began = 0, !.result = "cancelled"]
          ELSE [w EXCEPT !.pc = "wait", !.result = "none"]
  /\ UNCHANGED <<queueVars, hostVars, httpVars, fileVars>>

\* 0.2 s of communicate() pass; whatever progress was printed is saved.
Tick ==
  /\ At("wait")
  /\ w' = [w EXCEPT !.pc = "poll"]
  /\ SaveProgress \/ UNCHANGED queueVars
  /\ UNCHANGED <<hostVars, httpVars, fileVars>>

\* The process ends within the 0.2 s.  The pass that reads the source file
\* (composition, or the only pass) may see any content the file had meanwhile.
ProcessExits ==
  /\ At("wait")
  /\ \/ w' = [w EXCEPT !.pc = "exited", !.began = 0, !.result = "failed"]
     \/ /\ w.phase = "encode" /\ w.began > 0
        /\ \E r \in w.began .. source[Target] :
             w' = [w EXCEPT !.pc = "exited", !.began = 0, !.result = "ok", !.made = r]
     \/ /\ w.phase # "encode"
        /\ w' = [w EXCEPT !.pc = "exited", !.began = 0, !.result = "ok"]
  /\ SaveProgress \/ UNCHANGED queueVars
  /\ UNCHANGED <<hostVars, httpVars, fileVars>>

\* The deadline of _run_process: the process group is killed.
Deadline ==
  /\ At("wait")
  /\ w' = [w EXCEPT !.pc = "exited", !.began = 0, !.result = "failed"]
  /\ UNCHANGED <<queueVars, hostVars, httpVars, fileVars>>

\* Mutant: the loop over the segments to analyse does not advance.
AnalyseAgain ==
  /\ At("exited") /\ w.result = "ok" /\ Kind = "compile" /\ w.phase # "final"
  /\ w' = [w EXCEPT !.pc = "poll", !.phase = IF @ = "analysis" THEN @ ELSE "final"]
  /\ UNCHANGED <<queueVars, hostVars, httpVars, fileVars>>

\* Two-pass loudness: composition after the analysis passes, the final mix
\* after the composition.  The analyses of the single segments count as one.
NextPhase ==
  /\ At("exited") /\ w.result = "ok" /\ Kind = "compile" /\ w.phase # "final"
  /\ w' = [w EXCEPT !.pc = "poll",
                    !.phase = IF w.phase = "analysis" THEN "encode" ELSE "final",
                    !.began = IF Target \in missing THEN 0 ELSE source[Target]]
  /\ UNCHANGED <<queueVars, hostVars, httpVars, fileVars>>

\* The last pass printed no progress at all: a log line is saved with the job.
NoteNoProgress ==
  /\ At("exited") /\ Kind = "compile" /\ w.phase # "analysis"
  /\ w' = [w EXCEPT !.pc = "judged"]
  /\ SaveProgress
  /\ UNCHANGED <<hostVars, httpVars, fileVars>>

\* The if-statements after the last pass; stage VALIDATING is saved for a
\* compile job only.
Judge ==
  /\ At("exited") \/ At("judged")
  /\ \/ /\ w.result = "cancelled" /\ Settle("cancelled") /\ UNCHANGED queueVars
     \/ /\ w.result = "failed" /\ FailAttempt /\ UNCHANGED queueVars
     \/ /\ w.result = "ok" /\ w.phase # "analysis"
        /\ w' = [w EXCEPT !.pc = "validate", !.phase = "encode", !.result = "none"]
        /\ IF Kind = "compile" THEN SaveProgress ELSE UNCHANGED queueVars
  /\ UNCHANGED <<hostVars, httpVars, fileVars>>

\* Mutant: an edit is recorded without being published.
ValidateOnly ==
  /\ At("validate")
  /\ \/ FailAttempt /\ UNCHANGED queueVars
     \/ /\ w' = [w EXCEPT !.pc = IF Kind = "compile" THEN "publish" ELSE "record"]
        /\ IF Kind = "compile" THEN SaveProgress ELSE UNCHANGED queueVars
  /\ UNCHANGED <<hostVars, httpVars, fileVars>>

\* ffprobe of the temporary output; stage PUBLISHING is saved for a compile.
Validate ==
  /\ At("validate")
  /\ \/ FailAttempt /\ UNCHANGED queueVars
     \/ /\ w' = [w EXCEPT !.pc = "publish"]
        /\ IF Kind = "compile" THEN SaveProgress ELSE UNCHANGED queueVars
  /\ UNCHANGED <<hostVars, httpVars, fileVars>>

\* _publish / _publish_edit: copy beside the target, then os.replace.
Publish ==
  /\ At("publish")
  /\ IF Kind = "compile"
     THEN /\ output' = [output EXCEPT ![Target] = w.made]
          /\ UNCHANGED <<source, missing>>
     ELSE /\ source' = [source EXCEPT ![Target] = @ + 1]
          /\ missing' = missing \ {Target}
          /\ UNCHANGED output
  /\ published' = [published EXCEPT ![w.job] = @ + 1]
  /\ w' = [w EXCEPT !.pc = "published"]
  /\ UNCHANGED <<queueVars, hostVars, httpVars, temp>>

\* The metadata column is read, changed and written as a whole: the SELECT is a
\* step before the transaction, which may wait for a scan to commit.
ReadRow(next) ==
  w' = [w EXCEPT !.pc = next, !.read = [clip |-> Target, seen |-> clip[Target], rev |-> 0]]

ReadClip ==
  /\ At("published")
  /\ ReadRow("record")
  /\ UNCHANGED <<queueVars, hostVars, httpVars, fileVars>>

\* Mutant: the fingerprint is taken from the file as it is now, not from the job.
RecordPresentFile ==
  /\ At("record") /\ CanWrite
  /\ clip' = [c \in Clips |->
       IF c # Target THEN clip[c]
       ELSE IF Kind = "compile"
            THEN [state |-> "ready", out |-> TRUE, fp |-> source[c]]
            ELSE [clip[c] EXCEPT !.state = "discovered", !.fp = w.read.seen.fp]]
  /\ Settle("succeeded")
  /\ UNCHANGED <<job, hostVars, httpVars, fileVars>>

\* The UPDATE of the clip after publication.  A compile job writes the source
\* fingerprint it was enqueued with; an edit writes back the one it has read.
Record ==
  /\ At("record") /\ CanWrite
  /\ clip' = [c \in Clips |->
       IF c # Target THEN clip[c]
       ELSE IF Kind = "compile"
            THEN [state |-> "ready", out |-> TRUE, fp |-> job[w.job].fp]
            ELSE [clip[c] EXCEPT !.state = "discovered", !.fp = w.read.seen.fp]]
  /\ Settle("succeeded")
  /\ UNCHANGED <<job, hostVars, httpVars, fileVars>>

\* Any statement of the try block may raise: a path that no longer resolves, a
\* probe, a full disk.  After publication only an unreadable compiled file
\* can, or the database.
Raise ==
  /\ \/ \E p \in {"prepare", "poll", "validate", "publish"} : At(p)
     \/ At("record") /\ (Kind = "compile" \/ DbTimeouts)
  /\ Raising
  /\ UNCHANGED <<queueVars, hostVars, httpVars, fileVars>>

\* The except clause: a compile job is retried unless its row is flagged.
Except ==
  /\ At("except")
  /\ Settle(IF Kind = "compile" /\ w.attempt < MaxAttempts /\ ~job[w.job].cancel
            THEN "queued" ELSE "failed")
  /\ UNCHANGED <<queueVars, hostVars, httpVars, fileVars>>

\* _finish: the outcome and the copied columns overwrite the row.
Finish ==
  /\ At("finish") /\ CanWrite
  /\ Update(w.job, w.result, w.attempt,
            IF w.result = "queued" THEN w.cancel ELSE w.result = "cancelled")
  /\ w' = CASE Kind \in {"scan", "cleanup"} -> IdleWorker
             [] w.result = "failed" /\ Kind \in {"compile", "edit"} ->
                  [w EXCEPT !.pc = "noteread"]
             [] OTHER -> [w EXCEPT !.pc = "cleanup"]
  /\ UNCHANGED <<hostVars, httpVars, fileVars>>

\* _record_clip_failure and _record_edit_failure: the reason goes into the
\* metadata of the clip, and only a failed edit writes the state.
ReadClipToNote ==
  /\ At("noteread")
  /\ ReadRow("note")
  /\ UNCHANGED <<queueVars, hostVars, httpVars, fileVars>>

RecordFailure ==
  /\ At("note") /\ CanWrite
  /\ clip' = [c \in Clips |->
       IF c # Target THEN clip[c]
       ELSE [clip[c] EXCEPT !.fp = w.read.seen.fp,
                            !.state = IF Kind = "edit" THEN "failed" ELSE @]]
  /\ w' = [w EXCEPT !.pc = "cleanup", !.read = NoRead]
  /\ UNCHANGED <<job, hostVars, httpVars, fileVars>>

\* The finally clause: remove the job's own directory.
Cleanup ==
  /\ At("cleanup")
  /\ temp' = temp \ {w.job}
  /\ w' = IdleWorker
  /\ UNCHANGED <<queueVars, hostVars, httpVars, source, missing, output, published>>

-----------------------------------------------------------------------------
(* Maintenance jobs.                                                       *)

\* _cleanup_worker_temporaries: directories of jobs that are not running; it
\* may raise half way.
Sweep ==
  /\ At("sweep")
  /\ \/ /\ temp' = temp \cap Running
        /\ Settle("succeeded")
     \/ /\ \E left \in SUBSET temp : temp' = left \cup (temp \cap Running)
        /\ Raising
  /\ UNCHANGED <<queueVars, hostVars, httpVars, source, missing, output, published>>

WorkerScanRead ==
  /\ At("scan")
  /\ \E r \in FirstReads : w' = [w EXCEPT !.pc = "scanning", !.read = r]
  /\ UNCHANGED <<queueVars, hostVars, httpVars, fileVars>>

\* The rest of the scan, or an exception that rolls it back.
WorkerScanCommit ==
  /\ At("scanning") /\ CanWrite
  /\ \/ \E valid \in SUBSET Clips :
          /\ ScanCommit(w.read, valid)
          /\ w' = [w EXCEPT !.pc = "finish", !.result = "succeeded", !.read = NoRead]
     \/ /\ UNCHANGED clip
        /\ w' = [w EXCEPT !.pc = "except", !.handling = TRUE, !.read = NoRead]
  /\ UNCHANGED <<job, hostVars, httpVars, fileVars>>

-----------------------------------------------------------------------------
(* Writes that wait longer than busy_timeout raise OperationalError.       *)

\* Outside the try block nothing catches it: consume() ends, and with it the
\* only consumer.  Inside, the except clause runs _finish again.
WriteTimesOut ==
  /\ DbTimeouts
  /\ \/ At("claim") /\ w' = [IdleWorker EXCEPT !.pc = "dead"]
     \/ At("finish") /\ ~w.handling /\ Raising
     \/ /\ At("finish") /\ w.handling
        /\ w' = IF Kind \in {"scan", "cleanup"}
                THEN [IdleWorker EXCEPT !.pc = "dead"]
                ELSE [w EXCEPT !.pc = "abort"]
     \/ At("note") /\ w.handling /\ w' = [w EXCEPT !.pc = "abort", !.read = NoRead]
     \/ At("note") /\ ~w.handling /\ Raising
     \* the log line after a successful compile is still inside the try block
     \/ /\ At("cleanup") /\ Kind = "compile" /\ w.result = "succeeded"
        /\ ~w.handling
        /\ Raising
  /\ UNCHANGED <<queueVars, hostVars, httpVars, fileVars>>

\* Mutant: no finally clause.
AbortUncleaned ==
  /\ At("abort")
  /\ w' = [IdleWorker EXCEPT !.pc = "dead"]
  /\ UNCHANGED <<queueVars, hostVars, httpVars, fileVars>>

\* The finally clause still runs before the exception escapes run_once.
Abort ==
  /\ At("abort")
  /\ temp' = temp \ {w.job}
  /\ w' = [IdleWorker EXCEPT !.pc = "dead"]
  /\ UNCHANGED <<queueVars, hostVars, httpVars, source, missing, output, published>>

\* rmtree raises, and nothing catches it either.  w.job still names the job whose
\* directory is left.
CleanupFails ==
  /\ RemovalFails
  /\ At("cleanup") \/ At("abort")
  /\ w.job \in temp
  /\ w' = [w EXCEPT !.pc = "stranded"]
  /\ UNCHANGED <<queueVars, hostVars, httpVars, fileVars>>

-----------------------------------------------------------------------------
(* HTTP handlers.  A request is idle, or stands at the statement in its pc. *)

InRequest(h, p) == host.state = "up" /\ req[h].pc = p
Goto(h, p) == req' = [req EXCEPT ![h].pc = p]
Return(h) == req' = [req EXCEPT ![h] = IdleReq]

\* A UUID that no row and no request uses.
FreshIds ==
  {j \in Jobs : job[j].state = "none" /\ \A h \in Handlers : req[h].id # j}

\* Build a JobRecord (created_at is read here) that enqueue will persist.
BuildJob(h, kind, c, fp) ==
  /\ clock < MaxBuilds
  /\ \E j \in FreshIds :
       req' = [req EXCEPT ![h] = [IdleReq EXCEPT !.pc = "insert", !.clip = c, !.id = j,
                  !.recompile = req[h].recompile, !.row = NewJob(kind, c, fp, clock + 1)]]
  /\ clock' = clock + 1

\* enqueue_compile returns an active compile job instead of compiling, unless
\* skip_if_processing is off.
Skipped(skip) == skip /\ ActiveCompiles # {}

\* _eligible_clips of the default strategy and of compile_stale_only.
EligibleStates(strategy, skip) ==
  (IF strategy = "compile_stale_only" THEN {"stale", "failed"}
   ELSE {"discovered", "stale", "failed"})
  \cup (IF skip THEN {} ELSE {"pending", "compiling"})

UpToDate(c) ==
  /\ clip[c].out /\ output[c] # 0
  /\ HasSucceeded(NewJob("compile", c, clip[c].fp, 0))

Wanted(c, strategy, skip) ==
  clip[c].state \in EligibleStates(strategy, skip) /\ ~UpToDate(c)

\* POST /api/v1/compile begins a transaction, in which it checks for active
\* jobs and starts the scan of the default strategy.
SubmitCompile(h, c, skip) ==
  /\ "compile" \in Ops
  /\ InRequest(h, "idle") /\ CanWrite
  /\ ~Skipped(skip)
  /\ \E r \in FirstReads :
       req' = [req EXCEPT ![h] = [IdleReq EXCEPT !.pc = "scanning", !.clip = c,
                                    !.skip = skip, !.read = r]]
  /\ UNCHANGED <<queueVars, hostVars, w, clock, fileVars>>

\* With compile_stale_only nothing commits the transaction half way, so that the
\* request is one step; it matters only when it queues a job.
CompileStaleOnly(c, skip) ==
  /\ "stale" \in Ops
  /\ host.state = "up" /\ CanWrite /\ clock < MaxBuilds
  /\ ~Skipped(skip) /\ Wanted(c, "compile_stale_only", skip)
  /\ \E j \in FreshIds : Enqueue(j, NewJob("compile", c, clip[c].fp, clock + 1))
  /\ clock' = clock + 1
  /\ UNCHANGED <<hostVars, w, req, fileVars>>

\* request_recompile, outside any transaction: it reads the clip's row, marks
\* the clip stale unless it is deleted, and then calls enqueue_compile with the
\* defaults of CompileRequest.
SubmitRecompile(h, c) ==
  /\ "recompile" \in Ops
  /\ InRequest(h, "idle")
  /\ req' = [req EXCEPT ![h] = [IdleReq EXCEPT
               !.pc = IF clip[c].state = "deleted" THEN "check" ELSE "mark", !.clip = c,
               !.recompile = TRUE]]
  /\ UNCHANGED <<queueVars, hostVars, w, clock, fileVars>>

MarkStale(h) ==
  /\ InRequest(h, "mark") /\ CanWrite
  /\ clip' = SetClip(req[h].clip, "stale")
  /\ Goto(h, "check")
  /\ UNCHANGED <<job, hostVars, w, clock, fileVars>>

CheckActive(h) ==
  /\ InRequest(h, "check")
  /\ IF Skipped(req[h].skip) THEN Return(h) ELSE Goto(h, "scan")
  /\ UNCHANGED <<queueVars, hostVars, w, clock, fileVars>>

RequestScanRead(h) ==
  /\ InRequest(h, "scan")
  /\ \E r \in FirstReads :
       req' = [req EXCEPT ![h].pc = "scanning", ![h].read = r]
  /\ UNCHANGED <<queueVars, hostVars, w, clock, fileVars>>

\* The end of the scan commits its transaction, and with it the one that POST
\* /api/v1/compile has begun: what follows runs outside of it.
RequestScanCommit(h) ==
  /\ InRequest(h, "scanning") /\ (CanWrite \/ ~req[h].recompile)
  /\ \/ /\ \E valid \in SUBSET Clips : ScanCommit(req[h].read, valid)
        /\ req' = [req EXCEPT ![h].pc = "build", ![h].read = NoRead]
     \/ /\ UNCHANGED clip
        /\ req' = [req EXCEPT ![h].pc = "refused", ![h].read = NoRead]
  /\ UNCHANGED <<job, hostVars, w, clock, fileVars>>

\* The loop of enqueue_compile for the requested clip.  An ineligible clip
\* yields an empty list of jobs; the disk or profile check may refuse the
\* request.
BuildCompile(h) ==
  /\ InRequest(h, "build")
  /\ LET c == req[h].clip
         wanted == Wanted(c, "scan_and_compile_changed_or_missing", req[h].skip)
     IN \/ wanted /\ BuildJob(h, "compile", c, clip[c].fp)
        \/ ~wanted /\ Return(h) /\ UNCHANGED clock
        \/ Goto(h, "refused") /\ UNCHANGED clock
  /\ UNCHANGED <<queueVars, hostVars, w, fileVars>>

\* An exception becomes an error response.
Refuse(h) ==
  /\ InRequest(h, "refused")
  /\ Return(h)
  /\ UNCHANGED <<queueVars, hostVars, w, clock, fileVars>>

\* request_edit; the trim and crop bounds are checked before the job is built.
SubmitEdit(h, c) ==
  /\ "edit" \in Ops
  /\ InRequest(h, "idle")
  /\ BuildJob(h, "edit", c, 0)
  /\ UNCHANGED <<queueVars, hostVars, w, fileVars>>

\* request_scan and request_library_scan; POST /api/v1/scan builds and inserts
\* its job in one transaction, which is this request without interruption.
SubmitScan(h) ==
  /\ "scan" \in Ops
  /\ InRequest(h, "idle")
  /\ BuildJob(h, "scan", NoClip, 0)
  /\ UNCHANGED <<queueVars, hostVars, w, fileVars>>

\* POST /api/v1/cleanup-temporaries.
SubmitCleanup ==
  /\ "cleanup" \in Ops
  /\ host.state = "up" /\ CanWrite /\ clock < MaxBuilds
  /\ \E j \in FreshIds : Enqueue(j, NewJob("cleanup", NoClip, 0, clock + 1))
  /\ clock' = clock + 1
  /\ UNCHANGED <<hostVars, w, req, fileVars>>

\* enqueue_many begins a transaction of its own, except in POST /api/v1/compile,
\* whose transaction is no longer open: there the search for a duplicate and the
\* INSERT are two steps.
Apart(h) == req[h].row.kind = "compile" /\ ~req[h].recompile

Insert(h) ==
  /\ InRequest(h, "insert") /\ ~Apart(h) /\ CanWrite
  /\ Enqueue(req[h].id, req[h].row)
  /\ Return(h)
  /\ UNCHANGED <<hostVars, w, clock, fileVars>>

FindDuplicate(h) ==
  /\ InRequest(h, "insert") /\ Apart(h)
  /\ IF Duplicate(req[h].row) THEN Return(h) ELSE Goto(h, "store")
  /\ UNCHANGED <<queueVars, hostVars, w, clock, fileVars>>

Store(h) ==
  /\ InRequest(h, "store") /\ CanWrite
  /\ Persist(req[h].id, req[h].row)
  /\ Return(h)
  /\ UNCHANGED <<hostVars, w, clock, fileVars>>

\* POST /api/v1/jobs/{id}/cancel and /api/v1/jobs/cancel-all.
Cancel(j) ==
  /\ "cancel" \in Ops
  /\ host.state = "up" /\ CanWrite
  /\ RequestCancel(j)
  /\ UNCHANGED <<hostVars, w, httpVars, fileVars>>

CancelAll ==
  /\ "cancel" \in Ops
  /\ host.state = "up" /\ CanWrite
  /\ RequestCancelAll
  /\ UNCHANGED <<hostVars, w, httpVars, fileVars>>

-----------------------------------------------------------------------------
(* The process and its users' files.                                       *)

\* The lifespan's finally clause; the server has answered its requests.
Shutdown ==
  /\ host.state = "up" /\ host.stops < MaxStops
  /\ \A h \in Handlers : req[h].pc = "idle"
  /\ host' = [state |-> "stopping", stops |-> host.stops + 1]
  /\ IF Running = {} THEN UNCHANGED queueVars ELSE \E j \in Running : RequestCancel(j)
  /\ UNCHANGED <<w, httpVars, fileVars>>

\* await task, then close the database.
Stopped ==
  /\ host.state = "stopping" /\ w.pc \in {"idle", "dead", "stranded"}
  /\ host' = [host EXCEPT !.state = "down"]
  /\ w' = IdleWorker
  /\ UNCHANGED <<queueVars, httpVars, fileVars>>

\* Power loss or SIGKILL: the database and the files stay as they are.
Crash ==
  /\ Alive
  /\ host.state = "up" => host.stops < MaxStops
  /\ host' = [state |-> "down",
              stops |-> IF host.state = "up" THEN host.stops + 1 ELSE host.stops]
  /\ w' = IdleWorker
  /\ req' = [h \in Handlers |-> IdleReq]
  /\ UNCHANGED <<queueVars, clock, fileVars>>

Start ==
  /\ host.state = "down"
  /\ RecoverInterrupted
  /\ host' = [host EXCEPT !.state = "up"]
  /\ UNCHANGED <<w, httpVars, fileVars>>

\* Users reach the source directory over a network share.
ReplaceSource(c) ==
  /\ "replace" \in Ops
  /\ source[c] < MaxRev
  /\ source' = [source EXCEPT ![c] = @ + 1]
  /\ missing' = missing \ {c}
  /\ UNCHANGED <<queueVars, hostVars, w, httpVars, output, temp, published>>

HideSource(c) ==
  /\ "hide" \in Ops
  /\ missing' = IF c \in missing THEN missing \ {c} ELSE missing \cup {c}
  /\ UNCHANGED <<queueVars, hostVars, w, httpVars, source, output, temp, published>>

-----------------------------------------------------------------------------
Consume ==
  \/ Loop \/ Claim \/ MakeTemp \/ Prepare \/ Poll \/ NextPhase
  \/ NoteNoProgress \/ Judge \/ Validate \/ Publish \/ ReadClip \/ Record \/ Except
  \/ Finish \/ ReadClipToNote \/ RecordFailure \/ Cleanup \/ Sweep \/ WorkerScanRead
  \/ WorkerScanCommit \/ Abort

Handle(h) ==
  \/ \E c \in Clips, skip \in BOOLEAN : SubmitCompile(h, c, skip)
  \/ \E c \in Clips : SubmitRecompile(h, c) \/ SubmitEdit(h, c)
  \/ SubmitScan(h)
  \/ MarkStale(h) \/ CheckActive(h) \/ RequestScanRead(h) \/ RequestScanCommit(h)
  \/ BuildCompile(h) \/ Refuse(h) \/ Insert(h)
  \/ FindDuplicate(h) \/ Store(h)

Next ==
  \/ Consume
  \/ Tick \/ ProcessExits \/ Deadline
  \/ Raise \/ WriteTimesOut \/ CleanupFails
  \/ \E h \in Handlers : Handle(h)
  \/ \E c \in Clips, skip \in BOOLEAN : CompileStaleOnly(c, skip)
  \/ SubmitCleanup
  \/ (\E j \in Jobs : Cancel(j)) \/ CancelAll
  \/ Shutdown \/ Stopped \/ Crash \/ Start
  \/ \E c \in Clips : ReplaceSource(c) \/ HideSource(c)

Spec == Init /\ [][Next]_vars

\* The consumer thread keeps running; it gets the write lock within busy_timeout,
\* whatever requests come between (where DbTimeouts is FALSE); _run_process has a
\* deadline, so a process cannot be polled for ever; the scan of a request ends,
\* as each ffprobe it runs has a timeout; and asyncio awaits the consumer on
\* shutdown.  Nothing is assumed of the users, of crashes or of restarts.
Fairness ==
  /\ SF_vars(Consume)
  /\ WF_vars(Tick)
  /\ SF_vars(Deadline \/ ProcessExits)
  /\ \A h \in Handlers : WF_vars(RequestScanCommit(h))
  /\ WF_vars(Stopped)

FairSpec == Spec /\ Fairness
=============================================================================
