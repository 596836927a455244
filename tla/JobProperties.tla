--------------------------- MODULE JobProperties ---------------------------
(***************************************************************************)
(* What should hold of the Worker's jobs, clips and files (JobWorker).     *)
(***************************************************************************)
EXTENDS JobWorker

\* The type invariant of all variables.
TypeOK ==
  /\ QueueTypeOK
  /\ host \in [state: {"up", "stopping", "down"}, stops: Nat]
  /\ w \in WorkerStates
  /\ req \in [Handlers -> Requests]
  /\ clock \in Nat
  /\ source \in [Clips -> Nat]
  /\ missing \in SUBSET Clips
  /\ output \in [Clips -> Nat]
  /\ temp \in SUBSET Jobs
  /\ published \in [Jobs -> Nat]

-----------------------------------------------------------------------------
(* Jobs.                                                                   *)

\* The statements of run_once at which the claimed job is still to be settled.
Holding ==
  Pcs \ {"idle", "claim", "noteread", "note", "cleanup", "abort", "dead", "stranded"}

\* At most one row is running, and while the process lives it is the row whose
\* job the consumer holds: no stale write of a finished attempt (queue.update
\* in run_once) and no restart leaves a row running that nobody works on, which
\* would block every later claim.  A consumer that an exception killed is the
\* one exception.
RunningIsHeld ==
  /\ \A j, k \in Running : j = k
  /\ \A j \in Running :
       \/ host.state = "down"
       \/ w.job = j /\ w.pc \in Holding
       \/ w.pc \in {"abort", "dead", "stranded"}

\* No job exceeds its attempt cap, and none waits in the queue without an
\* attempt left, however failures, exceptions and restarts follow each other.
AttemptsBounded ==
  \A j \in Jobs :
    /\ job[j].attempt <= MaxAttempts
    /\ job[j].state = "queued" => job[j].attempt < MaxAttempts

\* Two active compile jobs never do the same work, although requests check for
\* active jobs long before they insert theirs ("return an existing active
\* duplicate, otherwise persist job", queue.py).
NoDuplicateWork ==
  \A j, k \in ActiveCompiles : SameWork(job[j], job[k]) => j = k

\* A compile or edit job is never reported successful unless it has replaced
\* its target file: an interrupted job recovers as retryable or failed.
SuccessWasPublished ==
  \A j \in Jobs :
    job[j].state = "succeeded" /\ job[j].kind \in {"compile", "edit"} => published[j] > 0

\* The queue implements the lifecycle its clients rely on.
Lifecycle == INSTANCE JobLifecycle WITH
  state <- [j \in Jobs |-> job[j].state], attempt <- [j \in Jobs |-> job[j].attempt]
LifecycleSpec == Lifecycle!Spec

\* Every queued job ends while the process stays up: nothing waits for ever on
\* a process, on a row left running or on older jobs that are retried.
EveryJobSettles ==
  \A j \in Jobs :
    job[j].state = "queued" ~> (job[j].state \in Terminal \/ host.state # "up")

\* A clean shutdown ends: the consumer it waits for finishes its job.
ShutdownEnds == host.state = "stopping" ~> host.state = "down"

-----------------------------------------------------------------------------
(* What the consumer and the requests in progress rely on without reading  *)
(* it again; with TypeOK, RunningIsHeld and AttemptsBounded it is          *)
(* inductive.                                                              *)

NoJobPcs == {"idle", "claim", "dead"}
\* The statements from which the row or the source file of the clip is read.
ClipPcs == {"mkdir", "prepare", "poll", "wait", "exited", "judged", "validate", "publish",
            "published", "noteread"}

\* The consumer's copies of its job stay true of the row while handlers and
\* restarts write it: the attempt it will write back is the row's, it never
\* returns a job without attempts left to the queue, and a stopped process
\* holds nothing.
ConsumerInStep ==
  /\ w.pc \in NoJobPcs <=> w.job = NoJob
  /\ w.job # NoJob => job[w.job].state # "none" /\ job[w.job].attempt = w.attempt
  /\ w.pc = "finish" => w.result \in Terminal \cup {"queued"}
  /\ w.result = "queued" => w.attempt < MaxAttempts
  /\ w.pc \in ClipPcs => Target \in Clips
  /\ host.state = "down" => w.pc = "idle"

\* A compile or edit record names a clip.
NamesClip(r) == r.kind \in {"compile", "edit"} => r.clip \in Clips
RowsNameClips == \A j \in Jobs : job[j].state # "none" => NamesClip(job[j])

\* A request between building its record and inserting it owns its UUID.
RequestsInStep ==
  \A h \in Handlers :
    /\ req[h].pc \in {"mark", "check", "scan", "scanning", "build"} => req[h].clip \in Clips
    /\ req[h].pc \in {"insert", "store"} =>
         /\ req[h].id \in Jobs
         /\ job[req[h].id].state = "none"
         /\ \A g \in Handlers :
              req[g].pc \in {"insert", "store"} /\ req[g].id = req[h].id => g = h
         /\ req[h].row.state = "queued" /\ req[h].row.attempt = 0
         /\ NamesClip(req[h].row)

\* The inductive invariant of the Worker.
WorkerInv ==
  /\ TypeOK
  /\ RunningIsHeld
  /\ AttemptsBounded
  /\ RowsNameClips
  /\ ConsumerInStep
  /\ RequestsInStep

-----------------------------------------------------------------------------
(* Clips and files.                                                        *)

\* A clip is offered as playable (output_available) only if its compiled file
\* exists, also between publication, the update of the clip and a crash.
AvailableOutputExists ==
  \A c \in Clips : (clip[c].out \/ clip[c].state = "ready") => clip[c].out /\ output[c] # 0

\* A ready clip whose recorded fingerprint is that of its source file was
\* compiled from that very content: whatever sequence of edits, replaced files,
\* scans and jobs built from older fingerprints led there, the next scan cannot
\* take an outdated output for a current one.  It is so where no recompile request
\* scans outside of a transaction and no source file is hidden: of two such scans one
\* may write back the row it read before a job, and a row that was deleted forgets
\* it was stale.
ReadyIsCurrent ==
  \A c \in Clips :
    clip[c].state = "ready" /\ clip[c].fp = source[c] => output[c] = source[c]

\* An edit is applied to its source file once, although a restart queues it
\* again: the directory that the interrupted attempt leaves makes the next one
\* fail before it encodes, and no temporary-cleanup job removes it in between.
EditAppliedOnce == \A j \in Jobs : job[j].kind = "edit" => published[j] <= 1

\* As long as the process has not stopped, a temporary directory exists only
\* for the job being run: every exit of run_once, exceptions that escape it
\* included, removes it.  A directory that cannot be removed stays, but then no
\* other job is run before a restart.
NoTempLeak == host.stops = 0 => temp \subseteq {w.job}

-----------------------------------------------------------------------------
(* What the properties of clips and files rest on; each is inductive with  *)
(* WorkerInv and those before it.                                          *)

\* The statements after claim_next that only a compile or edit job reaches.
EncodingPcs == (ClipPcs \ {"noteread"}) \cup {"record"}

\* run_once branches on the kind of its job once; only a compile job is retried.
KindsInStep ==
  /\ w.pc \in EncodingPcs => Kind \in {"compile", "edit"}
  /\ w.pc \in {"scan", "scanning"} => Kind = "scan"
  /\ w.pc = "sweep" => Kind = "cleanup"
  /\ w.job # NoJob /\ w.result = "queued" => Kind = "compile"

\* Without a stop there is no directory but that of the job in hand, and none for
\* jobs that make none.
TempsInStep ==
  /\ host.state # "up" => host.stops > 0
  /\ NoTempLeak
  /\ host.stops = 0 /\ w.job # NoJob /\ Kind \in {"scan", "cleanup"} => temp = {}

\* The outcome that waits to be written is true of the files.
PublishedInStep ==
  /\ SuccessWasPublished
  /\ w.pc \in {"published", "record"} => published[w.job] > 0
  /\ w.job # NoJob /\ w.result = "succeeded" /\ Kind \in {"compile", "edit"}
       => published[w.job] > 0

\* What is about to be published was encoded from a file that was there.
MadeInStep ==
  /\ w.pc \in {"validate", "publish"} => w.made > 0
  /\ w.pc \in {"poll", "wait"} /\ w.phase = "final" => w.made > 0
  /\ w.pc \in {"exited", "judged"} /\ w.result = "ok" /\ w.phase # "analysis" => w.made > 0
  /\ w.pc \in {"published", "record"} /\ Kind = "compile" => output[Target] # 0

\* A row read before the transaction that writes it promises no more than the row.
ReadHolds(r) ==
  r.clip \in Clips /\ (r.seen.out \/ r.seen.state = "ready") => clip[r.clip].out

OutputsInStep ==
  /\ AvailableOutputExists
  /\ MadeInStep
  /\ ReadHolds(w.read)
  /\ \A h \in Handlers : ReadHolds(req[h].read)

\* A record being inserted is no older than the clock and no cleanup job.
Inserting(h) == req[h].pc \in {"insert", "store"}
Ages ==
  /\ \A j \in Jobs : job[j].state # "none" => job[j].created <= clock
  /\ \A h \in Handlers : Inserting(h) => req[h].row.created <= clock /\ req[h].row.kind # "cleanup"
  /\ \A k \in Jobs : job[k].state # "none" /\ job[k].kind = "cleanup" =>
       /\ \A j \in Jobs : job[j].state # "none" /\ job[j].kind = "edit" => job[j].created # job[k].created
       /\ \A h \in Handlers : Inserting(h) => req[h].row.created # job[k].created

\* An edit that has been started, or has replaced its file.
Begun(j) ==
  /\ job[j].kind = "edit"
  /\ job[j].state = "running" \/ (job[j].state = "queued" /\ published[j] > 0)

\* Every cleanup job waits behind an edit that has begun, so the directory that an
\* interrupted edit leaves stays until the edit has failed because of it.
EditsInStep ==
  /\ EditAppliedOnce
  /\ \A j \in Jobs : job[j].state = "none" => published[j] = 0
  /\ \A j \in Jobs : Begun(j) /\ published[j] > 0 => j \in temp
  /\ \A j, k \in Jobs :
       Begun(j) /\ job[k].kind = "cleanup" /\ job[k].state \in Active
         => job[k].state = "queued" /\ job[k].created > job[j].created
  /\ w.pc \in EncodingPcs \ {"mkdir"} /\ Kind = "edit" =>
       /\ w.job \in temp
       /\ w.pc \notin {"published", "record"} => published[w.job] = 0

-----------------------------------------------------------------------------
(* What ReadyIsCurrent rests on, where it holds; inductive with WorkerInv  *)
(* and the facts above.                                                    *)

\* Where no request scans outside of a transaction and files stay where they are: the
\* row that the scan of POST /api/v1/compile has read is the row that it writes, as
\* nobody else writes between.
ScansInside ==
  /\ missing = {}
  /\ \A h \in Handlers :
       /\ ~req[h].recompile /\ req[h].pc \notin {"mark", "check", "scan"}
       /\ req[h].pc = "scanning" =>
            /\ \A g \in Handlers : req[g].pc = "scanning" => g = h
            /\ req[h].read.clip \in Clips =>
                 /\ req[h].read.seen = clip[req[h].read.clip]
                 /\ req[h].read.rev <= source[req[h].read.clip]

\* Nothing claims a content that the source file has not had yet.
Foreseen(r) == r.kind = "compile" => r.fp <= source[r.clip]
FingerprintsInStep ==
  /\ \A c \in Clips : clip[c].fp <= source[c] /\ output[c] <= source[c]
  /\ \A j \in Jobs : job[j].state # "none" => Foreseen(job[j])
  /\ \A h \in Handlers : Inserting(h) => Foreseen(req[h].row)
  /\ w.pc \in {"record", "note"} /\ Target \in Clips => w.read.seen.fp <= source[Target]

\* A row of clip c that is ready was compiled from its content or a later one, and no
\* row is deleted.
Recent(row, c) == row.state # "deleted" /\ (row.state = "ready" => row.fp <= output[c])

\* A compile job encodes no older content than the one it was built for, and its clip
\* is not ready meanwhile.
Encodes(n) == Kind = "compile" /\ n > 0 => job[w.job].fp <= n /\ n <= source[Target]
Unready == EncodingPcs \cup {"noteread", "note"}
EncodedInStep ==
  /\ w.job # NoJob => Encodes(w.began) /\ Encodes(w.made)
  /\ w.pc \in {"published", "record"} /\ Kind = "compile" => job[w.job].fp <= output[Target]
  /\ w.pc \in {"noteread", "note"} => Kind \in {"compile", "edit"}
  /\ w.pc \in Unready /\ Kind = "compile" => clip[Target].state # "ready"
  /\ w.pc = "scanning" /\ w.read.clip \in Clips =>
       Recent(w.read.seen, w.read.clip) /\ w.read.rev <= source[w.read.clip]

CurrentInStep ==
  /\ ScansInside
  /\ FingerprintsInStep
  /\ EncodedInStep
  /\ \A c \in Clips : Recent(clip[c], c)
=============================================================================
