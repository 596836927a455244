-------------------------- MODULE JobWorkerProofs --------------------------
(***************************************************************************)
(* Theorems about the Worker, for any number of jobs, clips and requests:  *)
(* type correctness, the attempt cap and the single running row, with or   *)
(* without writes that time out; that the queue keeps its promises to its  *)
(* clients (JobLifecycle); and what jobs leave behind: directories, output *)
(* files, applied edits, queued work, ready clips.                         *)
(***************************************************************************)
EXTENDS JobProperties, TLAPS

-----------------------------------------------------------------------------
(* What the transactions of the queue write.                               *)

\* Every version of the clips table that changes one state is well typed.
LEMMA SetClipType ==
  ASSUME QueueTypeOK, NEW c, NEW s \in ClipStates
  PROVE  SetClip(c, s) \in [Clips -> ClipRows]
BY DEF QueueTypeOK, SetClip, ClipRows

LEMMA WithdrawnType ==
  ASSUME NEW c PROVE Withdrawn(c) \in ClipStates
BY DEF Withdrawn, ClipStates

\* update writes one row of the jobs table, and three columns of it.
LEMMA UpdateEffect ==
  ASSUME QueueTypeOK, NEW j \in Jobs, NEW s \in JobStates, NEW a \in Nat,
         NEW c \in BOOLEAN, Update(j, s, a, c)
  PROVE  /\ QueueTypeOK'
         /\ job' = [job EXCEPT ![j] = [job[j] EXCEPT !.state = s, !.attempt = a,
                                                     !.cancel = c]]
<1>1. job' = [job EXCEPT ![j] = [job[j] EXCEPT !.state = s, !.attempt = a, !.cancel = c]]
  BY DEF Update, QueueTypeOK, JobRows
<1>2. job' \in [Jobs -> JobRows]
  BY <1>1 DEF QueueTypeOK, JobRows
<1>3. clip' \in [Clips -> ClipRows]
  BY SetClipType, WithdrawnType DEF Update, QueueTypeOK, ClipStates
<1> QED BY <1>1, <1>2, <1>3 DEF QueueTypeOK

\* claim_next makes one queued row running when no other is.
LEMMA ClaimEffect ==
  ASSUME QueueTypeOK, NEW j \in Jobs, ClaimNext(j)
  PROVE  /\ QueueTypeOK'
         /\ job[j].state = "queued" /\ Running = {}
         /\ job' = [job EXCEPT ![j] = [job[j] EXCEPT !.state = "running",
                                                     !.attempt = job[j].attempt + 1]]
<1>1. job' = [job EXCEPT ![j] = [job[j] EXCEPT !.state = "running",
                                              !.attempt = job[j].attempt + 1]]
  BY DEF ClaimNext, QueueTypeOK, JobRows
<1>2. job' \in [Jobs -> JobRows]
  <2>1. [job[j] EXCEPT !.state = "running", !.attempt = job[j].attempt + 1] \in JobRows
    <3>1. job[j] \in JobRows /\ job[j].attempt + 1 \in Nat
      BY DEF QueueTypeOK, JobRows
    <3>2. ASSUME NEW a \in Nat
          PROVE  [job[j] EXCEPT !.state = "running", !.attempt = a] \in JobRows
      BY <3>1 DEF JobRows, JobStates, Active
    <3> QED BY <3>1, <3>2
  <2> QED BY <1>1, <2>1 DEF QueueTypeOK
<1>3. clip' \in [Clips -> ClipRows]
  BY SetClipType DEF ClaimNext, QueueTypeOK, ClipStates
<1> QED BY <1>1, <1>2, <1>3 DEF QueueTypeOK, ClaimNext, Claimable

\* The INSERT writes the row of its own job; enqueue writes at most that.
LEMMA PersistEffect ==
  ASSUME QueueTypeOK, NEW j \in Jobs, NEW r \in JobRows, Persist(j, r)
  PROVE  QueueTypeOK' /\ job' = [job EXCEPT ![j] = r]
<1>1. clip' \in [Clips -> ClipRows]
  BY SetClipType DEF Persist, QueueTypeOK, ClipStates
<1>2. job' = [job EXCEPT ![j] = r] /\ job' \in [Jobs -> JobRows]
  BY DEF Persist, QueueTypeOK
<1> QED BY <1>1, <1>2 DEF QueueTypeOK

LEMMA EnqueueEffect ==
  ASSUME QueueTypeOK, NEW j \in Jobs, NEW r \in JobRows, Enqueue(j, r)
  PROVE  /\ QueueTypeOK'
         /\ job' = job \/ job' = [job EXCEPT ![j] = r]
<1>1. CASE UNCHANGED queueVars
  BY <1>1 DEF queueVars, QueueTypeOK
<1>2. CASE Persist(j, r)
  BY <1>2, PersistEffect
<1> QED BY <1>1, <1>2 DEF Enqueue

\* request_cancel never makes a row running and never changes an attempt.
LEMMA CancelEffect ==
  ASSUME QueueTypeOK, NEW j \in Jobs, RequestCancel(j)
  PROVE  /\ QueueTypeOK'
         /\ job' = job \/ \E s \in JobStates :
              /\ job[j].state \in Active /\ s \in {job[j].state, "cancelled"}
              /\ job' = [job EXCEPT ![j] = [job[j] EXCEPT !.state = s, !.cancel = TRUE]]
<1>1. CASE job[j].state \in Terminal /\ UNCHANGED queueVars
  BY <1>1 DEF queueVars, QueueTypeOK
<1>2. CASE /\ job[j].state = "running"
           /\ job' = [job EXCEPT ![j].cancel = TRUE] /\ UNCHANGED clip
  <2>1. job' = [job EXCEPT ![j] = [job[j] EXCEPT !.state = "running", !.cancel = TRUE]]
    BY <1>2 DEF QueueTypeOK, JobRows
  <2>2. job' \in [Jobs -> JobRows]
    BY <2>1 DEF QueueTypeOK, JobRows, JobStates, Active
  <2> QED BY <1>2, <2>1, <2>2 DEF QueueTypeOK, JobStates, Active
<1>3. CASE /\ job[j].state = "queued"
           /\ job' = [job EXCEPT ![j].state = "cancelled", ![j].cancel = TRUE]
           /\ clip' = IF job[j].kind = "compile"
                      THEN SetClip(job[j].clip, Withdrawn(job[j].clip)) ELSE clip
  <2>1. job' = [job EXCEPT ![j] = [job[j] EXCEPT !.state = "cancelled", !.cancel = TRUE]]
    BY <1>3 DEF QueueTypeOK, JobRows
  <2>2. job' \in [Jobs -> JobRows]
    BY <2>1 DEF QueueTypeOK, JobRows, JobStates, Terminal
  <2>3. clip' \in [Clips -> ClipRows]
    BY <1>3, SetClipType, WithdrawnType DEF QueueTypeOK
  <2> QED BY <1>3, <2>1, <2>2, <2>3 DEF QueueTypeOK, JobStates, Active, Terminal
<1> QED BY <1>1, <1>2, <1>3 DEF RequestCancel

\* Nor does the cancellation of all active jobs.
LEMMA CancelAllEffect ==
  ASSUME QueueTypeOK, RequestCancelAll
  PROVE  /\ QueueTypeOK'
         /\ \A j \in Jobs :
              \/ job'[j] = job[j]
              \/ \E s \in JobStates :
                   /\ job[j].state \in Active /\ s \in {job[j].state, "cancelled"}
                   /\ job'[j] = [job[j] EXCEPT !.state = s, !.cancel = TRUE]
<1>1. ASSUME NEW j \in Jobs
      PROVE  \/ job'[j] = job[j]
             \/ \E s \in JobStates :
                  /\ job[j].state \in Active /\ s \in {job[j].state, "cancelled"}
                  /\ job'[j] = [job[j] EXCEPT !.state = s, !.cancel = TRUE]
  <2>1. CASE job[j].state = "queued"
    BY <2>1 DEF RequestCancelAll, JobStates, Active, Terminal
  <2>2. CASE job[j].state = "running"
    <3>1. job[j] \in JobRows
      BY DEF QueueTypeOK
    <3>2. [job[j] EXCEPT !.cancel = TRUE] = [job[j] EXCEPT !.state = "running", !.cancel = TRUE]
      BY <2>2, <3>1 DEF JobRows
    <3>3. job'[j] = [job[j] EXCEPT !.cancel = TRUE]
      BY <2>2 DEF RequestCancelAll
    <3> QED BY <2>2, <3>2, <3>3 DEF JobStates, Active
  <2>3. CASE job[j].state \notin {"queued", "running"}
    BY <2>3 DEF RequestCancelAll
  <2> QED BY <2>1, <2>2, <2>3
<1>2. job' \in [Jobs -> JobRows]
  <2>1. ASSUME NEW r \in JobRows, NEW s \in JobStates
        PROVE  [r EXCEPT !.state = s, !.cancel = TRUE] \in JobRows
    BY DEF JobRows
  <2>2. \A j \in Jobs : job[j] \in JobRows
    BY DEF QueueTypeOK
  <2>3. ASSUME NEW j \in Jobs
        PROVE  job'[j] \in JobRows
    <3>1. ASSUME NEW s \in JobStates, job'[j] = [job[j] EXCEPT !.state = s, !.cancel = TRUE]
          PROVE  job'[j] \in JobRows
      BY <2>1, <2>2, <3>1
    <3> QED BY <1>1, <2>2, <3>1
  <2> QED BY <2>3 DEF RequestCancelAll
<1>3. clip' \in [Clips -> ClipRows]
  <2>1. \A c \in Clips : [clip[c] EXCEPT !.state = Withdrawn(c)] \in ClipRows
    BY WithdrawnType DEF QueueTypeOK, ClipRows
  <2> QED BY <2>1 DEF RequestCancelAll, QueueTypeOK
<1> QED BY <1>1, <1>2, <1>3 DEF QueueTypeOK

\* A restart leaves no row running, and no attempt changed.
LEMMA RecoverEffect ==
  ASSUME QueueTypeOK, RecoverInterrupted
  PROVE  /\ QueueTypeOK'
         /\ \A j \in Jobs :
              \/ job'[j] = job[j] /\ job[j].state # "running"
              \/ \E s \in {"queued", "failed"} :
                   /\ job[j].state = "running"
                   /\ s = "queued" => job[j].attempt < MaxAttempts
                   /\ job'[j] = [job[j] EXCEPT !.state = s]
<1>1. job' \in [Jobs -> JobRows]
  BY DEF RecoverInterrupted, QueueTypeOK, JobRows, JobStates, Active, Terminal
<1> QED BY <1>1 DEF RecoverInterrupted, QueueTypeOK

\* A scan writes well-typed rows, also from a row it read long ago.
LEMMA ScanEffect ==
  ASSUME QueueTypeOK, source \in [Clips -> Nat], NEW r \in Reads, NEW v, ScanCommit(r, v)
  PROVE  clip' \in [Clips -> ClipRows]
<1>1. ASSUME NEW seen \in ClipRows, NEW out \in BOOLEAN, NEW fp \in Nat, NEW valid \in BOOLEAN
      PROVE  ScannedClip(seen, out, fp, valid) \in ClipRows
  BY DEF ScannedClip, ClipRows, ClipStates
<1>2. \A c \in Clips : MissingClip(clip[c]) \in ClipRows
  BY DEF MissingClip, ClipRows, ClipStates, QueueTypeOK
<1>3. \A c \in Clips : clip[c] \in ClipRows /\ clip[c].out \in BOOLEAN
  BY DEF QueueTypeOK, ClipRows
<1>4. r.seen \in ClipRows /\ r.rev \in Nat
  BY DEF Reads
<1>5. \A c \in Clips : (c \in v) \in BOOLEAN /\ source[c] \in Nat
  OBVIOUS
<1>6. /\ \A c \in Clips : ScannedClip(r.seen, clip[c].out, r.rev, c \in v) \in ClipRows
      /\ \A c \in Clips : ScannedClip(clip[c], clip[c].out, source[c], c \in v) \in ClipRows
  BY <1>1, <1>3, <1>4, <1>5
<1> QED BY <1>2, <1>6 DEF ScanCommit

LEMMA NoReadType == NoRead \in Reads
BY DEF NoRead, Reads, ClipRows, ClipStates

LEMMA FirstReadsType ==
  ASSUME TypeOK, NEW r \in FirstReads
  PROVE  r \in Reads
<1>1. CASE r = NoRead
  BY <1>1, NoReadType
<1>2. CASE \E c \in Clips \ missing : r = [clip |-> c, seen |-> clip[c], rev |-> source[c]]
  BY <1>2 DEF TypeOK, QueueTypeOK, Reads
<1> QED BY <1>1, <1>2 DEF FirstReads

-----------------------------------------------------------------------------
(* Steps of the consumer while it holds a job.                             *)

\* The row of the held job as queue.update leaves it.
Wrote(s, c) ==
  job' = [job EXCEPT ![w.job] = [job[w.job] EXCEPT !.state = s, !.attempt = w.attempt,
                                                  !.cancel = c]]

LEMMA WroteEffect ==
  ASSUME TypeOK, w.job \in Jobs, NEW s \in JobStates, NEW c \in BOOLEAN, Wrote(s, c)
  PROVE  /\ job' \in [Jobs -> JobRows]
         /\ job'[w.job].state = s /\ job'[w.job].attempt = w.attempt
         /\ job'[w.job].kind = job[w.job].kind /\ job'[w.job].clip = job[w.job].clip
         /\ \A j \in Jobs : j # w.job => job'[j] = job[j]
<1>1. job \in [Jobs -> JobRows] /\ w.attempt \in Nat
  BY DEF TypeOK, QueueTypeOK, WorkerStates
<1>2. [job[w.job] EXCEPT !.state = s, !.attempt = w.attempt, !.cancel = c] \in JobRows
  BY <1>1 DEF JobRows
<1> QED BY <1>1, <1>2 DEF Wrote, JobRows

\* The table as a step that at most saves progress leaves it.
Saved == job' = job \/ \E c \in BOOLEAN : Wrote("running", c)

\* What a step of the try block does to the consumer's own state.
MovesOn ==
  /\ w' \in WorkerStates /\ w'.pc \in Holding
  /\ w'.job = w.job /\ w'.attempt = w.attempt
  /\ w'.pc = "finish" => w'.result \in Terminal \cup {"queued"}
  /\ w'.result = "queued" => w.attempt < MaxAttempts
  /\ w'.pc \in ClipPcs => Target \in Clips

\* The invariant without its type part.
InStep == RunningIsHeld /\ AttemptsBounded /\ RowsNameClips /\ ConsumerInStep /\ RequestsInStep

\* No row appears under the UUID of a request, so the request stays in step.
LEMMA RequestsFrame ==
  ASSUME RequestsInStep, req' = req,
         \A j \in Jobs : job[j].state = "none" => job'[j].state = "none"
  PROVE  RequestsInStep'
BY DEF RequestsInStep, NamesClip

\* A statement of the try block that keeps its job keeps the invariant, if its
\* outcome is one that _finish may write.
LEMMA HoldingStep ==
  ASSUME WorkerInv, Alive, w.pc \in Holding, Saved, MovesOn, host' = host, req' = req
  PROVE  InStep'
<1>1. w.job \in Jobs /\ job[w.job].attempt = w.attempt /\ job[w.job].state # "none"
  BY DEF WorkerInv, ConsumerInStep, TypeOK, WorkerStates, Holding, NoJobPcs
<1>2. /\ job' \in [Jobs -> JobRows]
      /\ \A j \in Jobs : /\ job'[j].attempt = job[j].attempt
                         /\ job'[j].kind = job[j].kind /\ job'[j].clip = job[j].clip
                         /\ j # w.job => job'[j].state = job[j].state
      /\ job'[w.job].state \in {job[w.job].state, "running"}
  BY <1>1, WroteEffect DEF Saved, WorkerInv, TypeOK, QueueTypeOK, JobStates, Active
<1>3. RunningIsHeld'
  <2>1. \A j \in Running : j = w.job
    BY DEF WorkerInv, RunningIsHeld, Alive, Holding
  <2>2. \A j \in Running' : j = w.job
    BY <1>2, <2>1 DEF Running
  <2> QED BY <2>2 DEF MovesOn, RunningIsHeld, Running
<1>4. AttemptsBounded'
  BY <1>1, <1>2 DEF WorkerInv, AttemptsBounded
<1>5. RowsNameClips'
  BY <1>1, <1>2 DEF WorkerInv, RowsNameClips, NamesClip
<1>6. ConsumerInStep'
  BY <1>1, <1>2, WorkerAssumption DEF MovesOn, WorkerInv, ConsumerInStep, Target, Alive, Holding, NoJobPcs
<1>7. RequestsInStep'
  BY <1>1, <1>2, RequestsFrame DEF WorkerInv
<1> QED BY <1>3, <1>4, <1>5, <1>6, <1>7 DEF InStep

\* What the invariant says of a consumer that is past claim_next.
LEMMA HeldFacts ==
  ASSUME WorkerInv, w.pc \notin NoJobPcs
  PROVE  /\ w \in WorkerStates /\ w.job \in Jobs /\ w.attempt \in Nat
         /\ job[w.job] \in JobRows
         /\ job[w.job].state # "none" /\ job[w.job].attempt = w.attempt
         /\ w.result = "queued" => w.attempt < MaxAttempts
         /\ w.pc \in ClipPcs => Target \in Clips
BY DEF WorkerInv, ConsumerInStep, TypeOK, QueueTypeOK, WorkerStates

LEMMA SaveEffect ==
  ASSUME TypeOK, w.job \in Jobs, SaveProgress \/ UNCHANGED queueVars
  PROVE  QueueTypeOK' /\ Saved
<1>1. CASE UNCHANGED queueVars
  BY <1>1 DEF TypeOK, QueueTypeOK, queueVars, Saved
<1>2. CASE SaveProgress
  <2>1. w.attempt \in Nat /\ w.cancel \in BOOLEAN /\ "running" \in JobStates
    BY DEF TypeOK, WorkerStates, JobStates, Active
  <2>2. QueueTypeOK /\ Update(w.job, "running", w.attempt, w.cancel)
    BY <1>2 DEF SaveProgress, TypeOK
  <2>3. /\ QueueTypeOK'
        /\ job' = [job EXCEPT ![w.job] = [job[w.job] EXCEPT
                      !.state = "running", !.attempt = w.attempt, !.cancel = w.cancel]]
    BY <2>1, <2>2, UpdateEffect DEF Update
  <2> QED BY <2>1, <2>3 DEF Saved, Wrote
<1> QED BY <1>1, <1>2

LEMMA SettleMoves ==
  ASSUME WorkerInv, w.pc \in Holding, NEW s \in Terminal \cup {"queued"}, Settle(s),
         s = "queued" => w.attempt < MaxAttempts
  PROVE  MovesOn
<1>1. w.pc \notin NoJobPcs
  BY DEF Holding, NoJobPcs
<1>2. w \in WorkerStates /\ w.job \in Jobs
  BY <1>1, HeldFacts
<1>3. s \in Results /\ "encode" \in Phases /\ "finish" \in Pcs /\ "finish" \in Holding
  BY DEF Results, Phases, Pcs, Holding, Terminal
<1>4. w' = [w EXCEPT !.pc = "finish", !.result = s, !.phase = "encode", !.made = 0,
                     !.read = NoRead]
  BY DEF Settle
<1>5. w' \in WorkerStates
  BY <1>2, <1>3, <1>4, NoReadType DEF WorkerStates
<1>6. /\ w'.pc = "finish" /\ w'.job = w.job /\ w'.attempt = w.attempt
      /\ w'.result = s
  BY <1>2, <1>4 DEF WorkerStates
<1> QED BY <1>2, <1>3, <1>5, <1>6 DEF MovesOn, ClipPcs

LEMMA RaisingMoves ==
  ASSUME WorkerInv, w.pc \notin NoJobPcs, Raising
  PROVE  MovesOn
BY HeldFacts, NoReadType DEF Raising, MovesOn, WorkerStates, Holding, NoJobPcs, ClipPcs, Pcs, Phases,
   Results, Terminal

LEMMA FailAttemptMoves ==
  ASSUME WorkerInv, w.pc \in Holding, FailAttempt
  PROVE  MovesOn
<1>1. w.pc \notin NoJobPcs /\ "queued" \in Terminal \cup {"queued"} /\ "failed" \in Terminal
  BY DEF Holding, NoJobPcs, Terminal
<1> QED BY <1>1, SettleMoves, RaisingMoves DEF FailAttempt

\* The rest of the type invariant, for the steps that touch no other variable.
OtherTypes ==
  /\ host \in [state: {"up", "stopping", "down"}, stops: Nat]
  /\ req \in [Handlers -> Requests]
  /\ clock \in Nat
  /\ source \in [Clips -> Nat]
  /\ missing \in SUBSET Clips
  /\ output \in [Clips -> Nat]
  /\ temp \in SUBSET Jobs
  /\ published \in [Jobs -> Nat]

LEMMA OtherFrame ==
  ASSUME TypeOK, UNCHANGED <<hostVars, httpVars, fileVars>>
  PROVE  OtherTypes'
BY DEF TypeOK, OtherTypes, hostVars, httpVars, fileVars

\* The steps of the try block: everything the consumer does with a job until
\* _finish.
TryBlock ==
  \/ MakeTemp \/ Prepare \/ Poll \/ Tick \/ ProcessExits \/ Deadline \/ NextPhase
  \/ NoteNoProgress \/ Judge \/ Validate \/ Publish \/ ReadClip \/ Record \/ Raise \/ Except
  \/ Sweep \/ WorkerScanRead \/ WorkerScanCommit

LEMMA TryEffect ==
  ASSUME WorkerInv, TryBlock
  PROVE  /\ Alive /\ w.pc \in Holding
         /\ Saved /\ MovesOn /\ host' = host /\ req' = req
         /\ QueueTypeOK' /\ OtherTypes'
<1> TypeOK /\ QueueTypeOK
  BY DEF WorkerInv, TypeOK
<1>1. Alive /\ w.pc \in Holding /\ w.pc \notin NoJobPcs
  BY DEF TryBlock, MakeTemp, Prepare, Poll, Tick, ProcessExits, Deadline, NextPhase,
     NoteNoProgress, Judge, Validate, Publish, ReadClip, Record, Raise, Except, Sweep, WorkerScanRead,
     WorkerScanCommit, At, Holding, Pcs, NoJobPcs
<1>2. CASE MakeTemp
  <2>1. MovesOn
    <3>1. CASE w.job \in temp
      BY <1>1, <1>2, <3>1, RaisingMoves DEF MakeTemp
    <3>2. CASE w.job \notin temp
      BY <1>1, <1>2, <3>2, HeldFacts DEF MakeTemp, At, MovesOn, WorkerStates, Pcs, Holding,
         ClipPcs
    <3> QED BY <3>1, <3>2
  <2>2. QueueTypeOK' /\ OtherTypes' /\ Saved
    BY <1>1, <1>2, HeldFacts DEF MakeTemp, TypeOK, OtherTypes, QueueTypeOK, Saved, queueVars, hostVars,
       httpVars
  <2> QED BY <1>1, <1>2, <2>1, <2>2 DEF MakeTemp, hostVars, httpVars
<1>3. CASE Prepare
  <2>1. MovesOn
    <3> DEFINE began == IF Target \in missing THEN 0 ELSE source[Target]
    <3>1. began \in Nat /\ Target \in Clips
      BY <1>1, <1>3, HeldFacts DEF Prepare, At, ClipPcs, TypeOK
    <3>2. PICK p \in Phases : w' = [w EXCEPT !.pc = "poll", !.phase = p, !.began = began]
      BY <1>3 DEF Prepare, Phases
    <3> QED BY <1>1, <3>1, <3>2, HeldFacts DEF MovesOn, WorkerStates, Pcs, Holding, ClipPcs
  <2>2. QueueTypeOK' /\ Saved
    BY <1>1, <1>3, HeldFacts, SaveEffect DEF Prepare
  <2> QED BY <1>1, <1>3, <2>1, <2>2, OtherFrame DEF Prepare, hostVars, httpVars
<1>4. CASE Poll
  <2>1. MovesOn
    BY <1>1, <1>4, HeldFacts DEF Poll, At, MovesOn, WorkerStates, Pcs, Phases, Results, Terminal,
       Holding, ClipPcs
  <2>2. QueueTypeOK' /\ Saved
    BY <1>1, <1>4, HeldFacts, SaveEffect DEF Poll
  <2> QED BY <1>1, <1>4, <2>1, <2>2, OtherFrame DEF Poll, hostVars, httpVars
<1>5. CASE Tick
  <2>1. MovesOn
    BY <1>1, <1>5, HeldFacts DEF Tick, At, MovesOn, WorkerStates, Pcs, Phases, Results, Terminal,
       Holding, ClipPcs
  <2>2. QueueTypeOK' /\ Saved
    BY <1>1, <1>5, HeldFacts, SaveEffect DEF Tick
  <2> QED BY <1>1, <1>5, <2>1, <2>2, OtherFrame DEF Tick, hostVars, httpVars
<1>6. CASE ProcessExits
  <2>1. MovesOn
    <3>1. Target \in Clips /\ source[Target] \in Nat /\ w.began \in Nat /\ w.made \in Nat
      BY <1>1, <1>6, HeldFacts DEF ProcessExits, At, ClipPcs, WorkerStates, TypeOK
    <3>2. PICK s \in {"failed", "ok"}, r \in Nat :
            w' = [w EXCEPT !.pc = "exited", !.began = 0, !.result = s, !.made = r]
      <4>1. CASE w' = [w EXCEPT !.pc = "exited", !.began = 0, !.result = "failed"]
        BY <1>1, <3>1, <4>1, HeldFacts DEF WorkerStates
      <4>2. CASE w' = [w EXCEPT !.pc = "exited", !.began = 0, !.result = "ok"]
        BY <1>1, <3>1, <4>2, HeldFacts DEF WorkerStates
      <4>3. CASE \E r \in w.began .. source[Target] :
                   w' = [w EXCEPT !.pc = "exited", !.began = 0, !.result = "ok", !.made = r]
        <5>1. PICK r \in w.began .. source[Target] :
                w' = [w EXCEPT !.pc = "exited", !.began = 0, !.result = "ok", !.made = r]
          BY <4>3
        <5>2. r \in Nat
          BY <3>1
        <5> QED BY <5>1, <5>2
      <4> QED BY <1>6, <4>1, <4>2, <4>3 DEF ProcessExits
    <3> QED BY <1>1, <3>1, <3>2, HeldFacts DEF MovesOn, WorkerStates, Pcs, Results, Terminal,
          Holding, ClipPcs
  <2>2. QueueTypeOK' /\ Saved
    BY <1>1, <1>6, HeldFacts, SaveEffect DEF ProcessExits
  <2> QED BY <1>1, <1>6, <2>1, <2>2, OtherFrame DEF ProcessExits, hostVars, httpVars
<1>7. CASE Deadline
  <2>1. MovesOn
    BY <1>1, <1>7, HeldFacts DEF Deadline, At, MovesOn, WorkerStates, Pcs, Phases, Results, Terminal,
       Holding, ClipPcs
  <2>2. QueueTypeOK' /\ Saved
    BY <1>1, <1>7, HeldFacts, SaveEffect DEF Deadline
  <2> QED BY <1>1, <1>7, <2>1, <2>2, OtherFrame DEF Deadline, hostVars, httpVars
<1>8. CASE NextPhase
  <2>1. MovesOn
    BY <1>1, <1>8, HeldFacts DEF NextPhase, At, MovesOn, WorkerStates, Pcs, Phases, Results, Terminal,
       Holding, ClipPcs, TypeOK
  <2>2. QueueTypeOK' /\ Saved
    BY <1>1, <1>8, HeldFacts, SaveEffect DEF NextPhase
  <2> QED BY <1>1, <1>8, <2>1, <2>2, OtherFrame DEF NextPhase, hostVars, httpVars
<1>9. CASE NoteNoProgress
  <2>1. MovesOn
    BY <1>1, <1>9, HeldFacts DEF NoteNoProgress, At, MovesOn, WorkerStates, Pcs, Phases, Results, Terminal,
       Holding, ClipPcs
  <2>2. QueueTypeOK' /\ Saved
    BY <1>1, <1>9, HeldFacts, SaveEffect DEF NoteNoProgress
  <2> QED BY <1>1, <1>9, <2>1, <2>2, OtherFrame DEF NoteNoProgress, hostVars, httpVars
<1>10. CASE Judge
  <2>1. MovesOn
    <3>1. CASE Settle("cancelled")
      BY <1>1, <3>1, SettleMoves DEF Terminal
    <3>2. CASE FailAttempt
      BY <1>1, <3>2, FailAttemptMoves
    <3>3. CASE w' = [w EXCEPT !.pc = "validate", !.phase = "encode", !.result = "none"]
      <4>1. Target \in Clips
        BY <1>1, <1>10, HeldFacts DEF Judge, At, ClipPcs
      <4> QED BY <1>1, <3>3, <4>1, HeldFacts DEF MovesOn, WorkerStates, Pcs, Phases, Results,
            Holding, ClipPcs
    <3> QED BY <1>10, <3>1, <3>2, <3>3 DEF Judge
  <2>2. QueueTypeOK' /\ Saved
    BY <1>1, <1>10, HeldFacts, SaveEffect DEF Judge
  <2> QED BY <1>1, <1>10, <2>1, <2>2, OtherFrame DEF Judge, hostVars, httpVars
<1>11. CASE Validate
  <2>1. MovesOn
    <3>1. CASE FailAttempt
      BY <1>1, <3>1, FailAttemptMoves
    <3>2. CASE w' = [w EXCEPT !.pc = "publish"]
      <4>1. Target \in Clips
        BY <1>1, <1>11, HeldFacts DEF Validate, At, ClipPcs
      <4> QED BY <1>1, <3>2, <4>1, HeldFacts DEF MovesOn, WorkerStates, Pcs, Holding, ClipPcs
    <3> QED BY <1>11, <3>1, <3>2 DEF Validate
  <2>2. QueueTypeOK' /\ Saved
    BY <1>1, <1>11, HeldFacts, SaveEffect DEF Validate
  <2> QED BY <1>1, <1>11, <2>1, <2>2, OtherFrame DEF Validate, hostVars, httpVars
<1>12. CASE Publish
  <2>1. MovesOn
    BY <1>1, <1>12, HeldFacts DEF Publish, At, MovesOn, WorkerStates, Pcs, Holding, ClipPcs
  <2>2. w.made \in Nat
    BY <1>1, HeldFacts DEF WorkerStates
  <2>3. /\ output' \in [Clips -> Nat] /\ source' \in [Clips -> Nat]
        /\ missing' \in SUBSET Clips
    <3>1. CASE Kind = "compile"
      BY <1>12, <2>2, <3>1 DEF Publish, TypeOK
    <3>2. CASE Kind # "compile"
      BY <1>12, <3>2 DEF Publish, TypeOK
    <3> QED BY <3>1, <3>2
  <2>4. published' \in [Jobs -> Nat]
    <3>1. w.job \in Jobs /\ published[w.job] + 1 \in Nat
      BY <1>1, HeldFacts DEF TypeOK
    <3> QED BY <1>12, <3>1 DEF Publish, TypeOK
  <2>5. QueueTypeOK' /\ Saved /\ OtherTypes' /\ host' = host /\ req' = req
    BY <1>12, <2>3, <2>4 DEF Publish, TypeOK, OtherTypes, QueueTypeOK, Saved, queueVars, hostVars, httpVars
  <2> QED BY <1>1, <2>1, <2>5
<1>13. CASE ReadClip
  <2>1. Target \in Clips
    BY <1>1, <1>13, HeldFacts DEF ReadClip, At, ClipPcs
  <2>2. [clip |-> Target, seen |-> clip[Target], rev |-> 0] \in Reads
    BY <2>1 DEF Reads, QueueTypeOK
  <2> DEFINE read == [clip |-> Target, seen |-> clip[Target], rev |-> 0]
  <2>3. w' = [w EXCEPT !.pc = "record", !.read = read]
    BY <1>13 DEF ReadClip, ReadRow
  <2> HIDE DEF read
  <2>4. MovesOn
    BY <1>1, <2>2, <2>3, HeldFacts DEF MovesOn, WorkerStates, Pcs, Holding, ClipPcs, read
  <2>5. QueueTypeOK' /\ Saved
    BY <1>1, <1>13, HeldFacts, SaveEffect DEF ReadClip
  <2> QED BY <1>1, <1>13, <2>4, <2>5, OtherFrame DEF ReadClip, hostVars, httpVars
<1>14. CASE Record
  <2>1. MovesOn
    BY <1>1, <1>14, SettleMoves DEF Record, Terminal
  <2>2. QueueTypeOK' /\ Saved
    <3>1. job[w.job].fp \in Nat /\ w.read.seen.fp \in Nat
      BY <1>1, HeldFacts DEF JobRows, WorkerStates, Reads, ClipRows
    <3>2. clip' \in [Clips -> ClipRows]
      BY <1>14, <3>1 DEF Record, QueueTypeOK, ClipRows, ClipStates
    <3> QED BY <1>14, <3>2 DEF Record, QueueTypeOK, Saved
  <2> QED BY <1>1, <1>14, <2>1, <2>2, OtherFrame DEF Record, hostVars, httpVars
<1>15. CASE Raise
  <2>1. MovesOn
    BY <1>1, <1>15, RaisingMoves DEF Raise
  <2>2. QueueTypeOK' /\ Saved
    BY <1>1, <1>15, HeldFacts, SaveEffect DEF Raise
  <2> QED BY <1>1, <1>15, <2>1, <2>2, OtherFrame DEF Raise, hostVars, httpVars
<1>16. CASE Except
  <2>1. MovesOn
    BY <1>1, <1>16, SettleMoves DEF Except, Terminal
  <2>2. QueueTypeOK' /\ Saved
    BY <1>1, <1>16, HeldFacts, SaveEffect DEF Except
  <2> QED BY <1>1, <1>16, <2>1, <2>2, OtherFrame DEF Except, hostVars, httpVars
<1>17. CASE Sweep
  <2>1. MovesOn
    BY <1>1, <1>17, SettleMoves, RaisingMoves DEF Sweep, Terminal
  <2>2. QueueTypeOK' /\ Saved /\ OtherTypes' /\ host' = host /\ req' = req
    BY <1>17 DEF Sweep, TypeOK, OtherTypes, QueueTypeOK, Saved, queueVars, hostVars, httpVars
  <2> QED BY <1>1, <2>1, <2>2
<1>18. CASE WorkerScanRead
  <2>1. MovesOn
    BY <1>1, <1>18, HeldFacts, FirstReadsType DEF WorkerScanRead, MovesOn, WorkerStates, Pcs,
       Holding, ClipPcs
  <2>2. QueueTypeOK' /\ Saved
    BY <1>1, <1>18, HeldFacts, SaveEffect DEF WorkerScanRead
  <2> QED BY <1>1, <1>18, <2>1, <2>2, OtherFrame DEF WorkerScanRead, hostVars, httpVars
<1>19. CASE WorkerScanCommit
  <2>1. MovesOn
    BY <1>1, <1>19, HeldFacts, NoReadType DEF WorkerScanCommit, At, MovesOn, WorkerStates, Pcs, Results,
       Terminal, Holding, ClipPcs
  <2>2. QueueTypeOK' /\ Saved
    <3>1. w.read \in Reads /\ source \in [Clips -> Nat]
      BY <1>1, HeldFacts DEF WorkerStates, TypeOK
    <3>2. clip' \in [Clips -> ClipRows]
      BY <1>19, <3>1, ScanEffect DEF WorkerScanCommit, QueueTypeOK
    <3> QED BY <1>19, <3>2 DEF WorkerScanCommit, QueueTypeOK, Saved
  <2> QED BY <1>1, <1>19, <2>1, <2>2, OtherFrame DEF WorkerScanCommit, hostVars, httpVars
<1> QED
  BY <1>2, <1>3, <1>4, <1>5, <1>6, <1>7, <1>8, <1>9, <1>10, <1>11, <1>12, <1>14, <1>15,
     <1>16, <1>17, <1>18, <1>19, <1>13 DEF TryBlock

LEMMA TryStep ==
  ASSUME WorkerInv, TryBlock
  PROVE  TypeOK' /\ InStep'
BY TryEffect, HoldingStep DEF TypeOK, OtherTypes, MovesOn

-----------------------------------------------------------------------------
(* The other steps of the consumer.                                        *)

LEMMA IdleWorkerType == IdleWorker \in WorkerStates
BY NoReadType DEF IdleWorker, WorkerStates, Pcs, Phases, Results

\* Steps that leave the jobs table alone and put the consumer where no row is
\* required to be held, or leave it where it is.
LEMMA QuietStep ==
  ASSUME WorkerInv, job' = job,
         RequestsInStep', ConsumerInStep',
         \A j \in Running : \/ host'.state = "down"
                            \/ w'.job = j /\ w'.pc \in Holding
                            \/ w'.pc \in {"abort", "dead", "stranded"}
  PROVE  InStep'
BY DEF InStep, WorkerInv, RunningIsHeld, AttemptsBounded, RowsNameClips, NamesClip, Running

LEMMA ClaimStep ==
  ASSUME WorkerInv, Claim
  PROVE  TypeOK' /\ InStep'
<1> TypeOK /\ QueueTypeOK
  BY DEF WorkerInv, TypeOK
<1>1. Alive /\ w.pc = "claim" /\ OtherTypes' /\ host' = host /\ req' = req
  BY OtherFrame DEF Claim, At, hostVars, httpVars
<1>2. CASE NothingToClaim /\ w' = IdleWorker /\ UNCHANGED queueVars
  <2>1. TypeOK'
    BY <1>1, <1>2, IdleWorkerType DEF TypeOK, OtherTypes, QueueTypeOK, queueVars
  <2>2. Running = {}
    BY <1>1 DEF WorkerInv, RunningIsHeld, Alive, Holding, Running
  <2>3. ConsumerInStep' /\ RequestsInStep'
    BY <1>1, <1>2, RequestsFrame DEF WorkerInv, ConsumerInStep, IdleWorker, NoJobPcs, ClipPcs,
       queueVars, Alive
  <2> QED BY <1>1, <1>2, <2>1, <2>2, <2>3, QuietStep DEF queueVars
<1>3. ASSUME NEW j \in Jobs, ClaimNext(j),
             w' = [IdleWorker EXCEPT
                     !.pc = CASE job[j].kind = "scan" -> "scan"
                              [] job[j].kind = "cleanup" -> "sweep"
                              [] OTHER -> "mkdir",
                     !.job = j, !.attempt = job[j].attempt + 1, !.cancel = job[j].cancel]
      PROVE  TypeOK' /\ InStep'
  <2> DEFINE n == job[j].attempt + 1
  <2>1. /\ QueueTypeOK'
        /\ job[j].state = "queued" /\ Running = {}
        /\ job' = [job EXCEPT ![j] = [job[j] EXCEPT !.state = "running", !.attempt = n]]
    BY <1>3, ClaimEffect
  <2>2. job[j] \in JobRows /\ n \in Nat /\ n <= MaxAttempts /\ NamesClip(job[j])
    BY <2>1, QueueAssumption DEF WorkerInv, AttemptsBounded, RowsNameClips, QueueTypeOK, JobRows
  <2> HIDE DEF n
  <2>3. /\ \A k \in Jobs : k # j => job'[k] = job[k]
        /\ job'[j].state = "running" /\ job'[j].attempt = n
        /\ job'[j].kind = job[j].kind /\ job'[j].clip = job[j].clip
    BY <2>1, <2>2 DEF QueueTypeOK, JobRows
  <2>4. /\ w' \in WorkerStates /\ w'.job = j /\ w'.attempt = n /\ w'.result = "none"
        /\ w'.pc \in {"scan", "sweep", "mkdir"}
        /\ w'.pc = "mkdir" => job[j].kind \notin {"scan", "cleanup"}
    <3> DEFINE p == CASE job[j].kind = "scan" -> "scan"
                      [] job[j].kind = "cleanup" -> "sweep"
                      [] OTHER -> "mkdir"
    <3>1. w' = [IdleWorker EXCEPT !.pc = p, !.job = j, !.attempt = n, !.cancel = job[j].cancel]
      BY <1>3 DEF n
    <3>2. p \in {"scan", "sweep", "mkdir"} /\ (p = "mkdir" => job[j].kind \notin {"scan", "cleanup"})
      OBVIOUS
    <3> HIDE DEF p
    <3>3. p \in Pcs /\ job[j].cancel \in BOOLEAN
      BY <2>2, <3>2 DEF Pcs, JobRows
    <3>4. w' \in WorkerStates
      BY <3>1, <3>3, <2>2, IdleWorkerType DEF WorkerStates
    <3>5. w'.pc = p /\ w'.job = j /\ w'.attempt = n /\ w'.result = "none"
      BY <3>1 DEF IdleWorker
    <3> QED BY <3>2, <3>4, <3>5
  <2>5. TypeOK'
    BY <1>1, <2>1, <2>4 DEF TypeOK, OtherTypes
  <2>6. RunningIsHeld'
    BY <2>1, <2>3, <2>4 DEF RunningIsHeld, Running, Holding, Pcs
  <2>7. AttemptsBounded' /\ RowsNameClips'
    BY <2>1, <2>2, <2>3 DEF WorkerInv, AttemptsBounded, RowsNameClips, NamesClip
  <2>8. ConsumerInStep'
    <3>1. w'.pc = "mkdir" => job[j].clip \in Clips
      BY <2>2, <2>4 DEF NamesClip, JobRows, Kinds
    <3> QED BY <1>1, <2>3, <2>4, <3>1, WorkerAssumption DEF ConsumerInStep, NoJobPcs, ClipPcs,
          Target, Alive
  <2>9. RequestsInStep'
    BY <1>1, <2>1, <2>3, RequestsFrame DEF WorkerInv
  <2> QED BY <2>5, <2>6, <2>7, <2>8, <2>9 DEF InStep
<1> QED BY <1>2, <1>3 DEF Claim

\* _finish writes the outcome: no row is running afterwards.
LEMMA FinishStep ==
  ASSUME WorkerInv, Finish
  PROVE  TypeOK' /\ InStep'
<1> TypeOK /\ QueueTypeOK
  BY DEF WorkerInv, TypeOK
<1>1. Alive /\ w.pc = "finish" /\ OtherTypes' /\ host' = host /\ req' = req
  BY OtherFrame DEF Finish, At, hostVars, httpVars
<1>2. /\ w \in WorkerStates /\ w.job \in Jobs /\ w.attempt \in Nat
      /\ job[w.job].state # "none" /\ job[w.job].attempt = w.attempt
      /\ w.result = "queued" => w.attempt < MaxAttempts
  BY <1>1, HeldFacts DEF NoJobPcs
<1>3. w.result \in Terminal \cup {"queued"} /\ w.result \in JobStates
  BY <1>1 DEF WorkerInv, ConsumerInStep, Terminal, JobStates, Active
<1>4. PICK c \in BOOLEAN : Update(w.job, w.result, w.attempt, c)
  <2>1. (IF w.result = "queued" THEN w.cancel ELSE w.result = "cancelled") \in BOOLEAN
    BY <1>2 DEF WorkerStates
  <2> QED BY <2>1 DEF Finish
<1>5. QueueTypeOK' /\ Wrote(w.result, c)
  BY <1>2, <1>3, <1>4, UpdateEffect DEF Update, Wrote
<1>6. /\ job'[w.job].state = w.result /\ job'[w.job].attempt = w.attempt
      /\ job'[w.job].kind = job[w.job].kind /\ job'[w.job].clip = job[w.job].clip
      /\ \A j \in Jobs : j # w.job => job'[j] = job[j]
  BY <1>2, <1>3, <1>5, WroteEffect
<1>7. Running' = {}
  <2>1. \A j \in Running : j = w.job
    BY <1>1 DEF WorkerInv, RunningIsHeld, Alive
  <2> QED BY <1>3, <1>6, <2>1 DEF Running, Terminal
<1>8. \/ w' = IdleWorker
      \/ \E p \in {"noteread", "cleanup"} : /\ w' = [w EXCEPT !.pc = p]
                                            /\ p = "noteread" => Kind \in {"compile", "edit"}
  BY DEF Finish
<1>9. /\ w' \in WorkerStates
      /\ w' = IdleWorker \/ /\ w'.pc \in {"noteread", "cleanup"}
                            /\ w'.pc = "noteread" => Target \in Clips
                            /\ w'.job = w.job /\ w'.attempt = w.attempt /\ w'.result = w.result
  <2>1. Kind \in {"compile", "edit"} => Target \in Clips
    BY <1>2 DEF WorkerInv, RowsNameClips, NamesClip, Kind, Target
  <2> QED BY <1>2, <1>8, <2>1, IdleWorkerType DEF WorkerStates, Pcs
<1>10. TypeOK'
  BY <1>1, <1>5, <1>9 DEF TypeOK, OtherTypes
<1>11. RunningIsHeld'
  BY <1>7 DEF RunningIsHeld
<1>12. AttemptsBounded' /\ RowsNameClips'
  BY <1>2, <1>6 DEF WorkerInv, AttemptsBounded, RowsNameClips, NamesClip
<1>13. ConsumerInStep'
  BY <1>1, <1>2, <1>3, <1>6, <1>9, WorkerAssumption DEF ConsumerInStep, IdleWorker, NoJobPcs, ClipPcs,
     Alive, Terminal, Target
<1>14. RequestsInStep'
  BY <1>1, <1>2, <1>6, RequestsFrame DEF WorkerInv
<1> QED BY <1>10, <1>11, <1>12, <1>13, <1>14 DEF InStep

\* Steps of the consumer that write no row of the jobs table.
LEMMA AfterStep ==
  ASSUME WorkerInv,
         Loop \/ ReadClipToNote \/ RecordFailure \/ Cleanup \/ WriteTimesOut \/ CleanupFails \/ Abort
  PROVE  TypeOK' /\ InStep'
<1> TypeOK /\ QueueTypeOK /\ w \in WorkerStates
  BY DEF WorkerInv, TypeOK
<1>1. /\ Alive /\ w.pc \in {"idle", "noteread", "note", "cleanup", "claim", "finish", "abort"}
      /\ job' = job /\ host' = host /\ req' = req
  BY DEF Loop, ReadClipToNote, RecordFailure, Cleanup, WriteTimesOut, CleanupFails, Abort, At, queueVars, hostVars,
     httpVars
<1>2. QueueTypeOK' /\ OtherTypes'
  <2>1. CASE Loop \/ ReadClipToNote \/ WriteTimesOut \/ CleanupFails
    BY <2>1, OtherFrame DEF Loop, ReadClipToNote, WriteTimesOut, CleanupFails, QueueTypeOK, queueVars
  <2>2. CASE RecordFailure
    <3>1. w.read.seen.fp \in Nat
      BY DEF WorkerStates, Reads, ClipRows
    <3>2. clip' \in [Clips -> ClipRows]
      BY <2>2, <3>1 DEF RecordFailure, QueueTypeOK, ClipRows, ClipStates
    <3> QED BY <2>2, <3>2, OtherFrame DEF RecordFailure, QueueTypeOK
  <2>3. CASE Cleanup \/ Abort
    BY <2>3 DEF Cleanup, Abort, QueueTypeOK, TypeOK, OtherTypes, queueVars, hostVars, httpVars
  <2> QED BY <2>1, <2>2, <2>3
<1>3. RequestsInStep'
  BY <1>1, RequestsFrame DEF WorkerInv
<1>4. w.pc \in {"idle", "claim", "noteread", "note", "cleanup"} => Running = {}
  BY <1>1 DEF WorkerInv, RunningIsHeld, Alive, Holding

\* The consumer keeps its job, at a statement where it need not be running.
<1>5. ASSUME NEW p \in {"note", "cleanup", "abort", "claim", "stranded"}, NEW r \in Reads,
             w' = [w EXCEPT !.pc = p, !.read = r],
             p = "claim" <=> w.pc = "idle", w.pc \notin {"claim", "dead"},
             p = "abort" \/ w.pc # "finish", p = "stranded" \/ w.pc # "abort"
      PROVE  TypeOK' /\ InStep'
  <2>1. /\ w' \in WorkerStates /\ w'.pc = p /\ w'.job = w.job /\ w'.attempt = w.attempt
        /\ w'.result = w.result
    BY <1>5 DEF WorkerStates, Pcs
  <2>2. ConsumerInStep'
    BY <1>1, <1>5, <2>1 DEF WorkerInv, ConsumerInStep, NoJobPcs, ClipPcs, Alive
  <2> QED BY <1>1, <1>2, <1>3, <1>4, <1>5, <2>1, <2>2, QuietStep DEF TypeOK, OtherTypes
<1>6. CASE Loop
  <2>1. w' = [w EXCEPT !.pc = "claim", !.read = w.read] /\ w.pc = "idle" /\ w.read \in Reads
    BY <1>6 DEF Loop, At, WorkerStates
  <2> QED BY <1>5, <2>1
<1>7. CASE ReadClipToNote
  <2>1. w.pc = "noteread" /\ Target \in Clips
    BY <1>7 DEF ReadClipToNote, At, WorkerInv, ConsumerInStep, ClipPcs
  <2>2. [clip |-> Target, seen |-> clip[Target], rev |-> 0] \in Reads
    BY <2>1 DEF Reads, QueueTypeOK
  <2> QED BY <1>5, <1>7, <2>1, <2>2 DEF ReadClipToNote, ReadRow
<1>8. CASE RecordFailure
  BY <1>5, <1>8, NoReadType DEF RecordFailure, At
<1>9. CASE w' = IdleWorker /\ w.pc = "cleanup"
  <2>1. ConsumerInStep' /\ w' \in WorkerStates
    BY <1>1, <1>9, IdleWorkerType DEF ConsumerInStep, IdleWorker, NoJobPcs, ClipPcs, Alive
  <2> QED BY <1>1, <1>2, <1>3, <1>4, <1>9, <2>1, QuietStep DEF TypeOK, OtherTypes
<1>10. CASE w' = [IdleWorker EXCEPT !.pc = "dead"]
  <2>1. ConsumerInStep' /\ w' \in WorkerStates /\ w'.pc = "dead"
    BY <1>1, <1>10, IdleWorkerType DEF ConsumerInStep, IdleWorker, NoJobPcs, ClipPcs, Alive,
       WorkerStates, Pcs
  <2> QED BY <1>1, <1>2, <1>3, <2>1, QuietStep DEF TypeOK, OtherTypes
<1>11. CASE w' = [w EXCEPT !.pc = "abort"] /\ w.pc = "finish"
  <2>1. w' = [w EXCEPT !.pc = "abort", !.read = w.read] /\ w.read \in Reads
    BY <1>11 DEF WorkerStates
  <2> QED BY <1>5, <1>11, <2>1
<1>12. CASE w' = [w EXCEPT !.pc = "abort", !.read = NoRead] /\ w.pc = "note"
  BY <1>5, <1>12, NoReadType
<1>13. CASE Raising /\ w.pc \in {"finish", "note", "cleanup"}
  <2>1. MovesOn /\ w'.pc = "except"
    BY <1>13, RaisingMoves DEF NoJobPcs, Raising, WorkerStates
  <2>2. ConsumerInStep'
    BY <1>1, <1>13, <2>1 DEF MovesOn, WorkerInv, ConsumerInStep, NoJobPcs, ClipPcs, Alive
  <2>3. \A j \in Running : j = w.job
    BY <1>1, <1>13 DEF WorkerInv, RunningIsHeld, Alive, Holding
  <2> QED BY <1>1, <1>2, <1>3, <2>1, <2>2, <2>3, QuietStep DEF TypeOK, OtherTypes, MovesOn
<1>14. CASE CleanupFails
  <2>1. w' = [w EXCEPT !.pc = "stranded", !.read = w.read] /\ w.pc \in {"cleanup", "abort"}
        /\ w.read \in Reads
    BY <1>14 DEF CleanupFails, At, WorkerStates
  <2> QED BY <1>5, <2>1
<1> QED BY <1>6, <1>7, <1>8, <1>9, <1>10, <1>11, <1>12, <1>13, <1>14 DEF Cleanup, WriteTimesOut, Abort, At

-----------------------------------------------------------------------------
(* HTTP handlers, restarts and the users' files.                           *)

\* A request that moves to the local state r.
LEMMA RequestMoves ==
  ASSUME WorkerInv, NEW h \in Handlers, NEW r \in Requests,
         req' = [req EXCEPT ![h] = r], job' = job, w' = w, host' = host,
         r.pc \in {"mark", "check", "scan", "scanning", "build"} => r.clip \in Clips,
         r.pc \in {"insert", "store"} =>
           /\ r.id \in FreshIds \/ (req[h].pc = "insert" /\ r.id = req[h].id)
           /\ r.row.state = "queued" /\ r.row.attempt = 0 /\ NamesClip(r.row)
  PROVE  InStep' /\ req' \in [Handlers -> Requests]
<1>1. req \in [Handlers -> Requests]
  BY DEF WorkerInv, TypeOK
<1>2. RequestsInStep'
  BY <1>1 DEF WorkerInv, RequestsInStep, FreshIds, NamesClip
<1>3. ConsumerInStep'
  BY DEF WorkerInv, ConsumerInStep, Target
<1>4. \A j \in Running : \/ host'.state = "down"
                         \/ w'.job = j /\ w'.pc \in Holding
                         \/ w'.pc \in {"abort", "dead", "stranded"}
  BY DEF WorkerInv, RunningIsHeld
<1>5. InStep'
  BY <1>2, <1>3, <1>4, QuietStep
<1> QED BY <1>1, <1>5

LEMMA IdleReqType == IdleReq \in Requests
BY NoReadType DEF IdleReq, Requests, ReqPcs, NoRow, JobRows, JobStates, Active, Kinds

LEMMA NewJobType ==
  ASSUME NEW k \in Kinds, NEW c \in Clips \cup {NoClip}, NEW f \in Nat, NEW n \in Nat
  PROVE  /\ NewJob(k, c, f, n) \in JobRows
         /\ NewJob(k, c, f, n).state = "queued" /\ NewJob(k, c, f, n).attempt = 0
         /\ NewJob(k, c, f, n).kind = k /\ NewJob(k, c, f, n).clip = c
         /\ NewJob(k, c, f, n).created = n
BY DEF NewJob, NoRow, JobRows, JobStates, Active

\* BuildJob gives a request a record that no row and no other request has.
LEMMA BuildStep ==
  ASSUME WorkerInv, NEW h \in Handlers, NEW k \in Kinds, NEW c \in Clips \cup {NoClip},
         NEW f \in Nat, BuildJob(h, k, c, f), k \in {"compile", "edit"} => c \in Clips,
         UNCHANGED <<queueVars, hostVars, w, fileVars>>
  PROVE  TypeOK' /\ InStep'
<1> DEFINE row == NewJob(k, c, f, clock + 1)
<1>1. clock + 1 \in Nat /\ req \in [Handlers -> Requests]
  BY DEF WorkerInv, TypeOK
<1>2. row \in JobRows /\ row.state = "queued" /\ row.attempt = 0 /\ NamesClip(row)
  BY <1>1, NewJobType DEF NamesClip
<1>3. PICK j \in FreshIds :
        req' = [req EXCEPT ![h] = [IdleReq EXCEPT !.pc = "insert", !.clip = c, !.id = j,
                  !.recompile = req[h].recompile, !.row = row]]
  BY DEF BuildJob
<1> HIDE DEF row
<1>4. j \in Jobs /\ req[h].recompile \in BOOLEAN
  BY <1>1 DEF FreshIds, Requests
<1> DEFINE r == [IdleReq EXCEPT !.pc = "insert", !.clip = c, !.id = j,
                  !.recompile = req[h].recompile, !.row = row]
<1>5. r \in Requests /\ r.pc = "insert" /\ r.id = j /\ r.row = row
  BY <1>2, <1>4, IdleReqType DEF Requests, IdleReq, ReqPcs
<1>6. job' = job /\ w' = w /\ host' = host /\ req' = [req EXCEPT ![h] = r]
  BY <1>3 DEF queueVars, hostVars
<1> HIDE DEF r
<1>7. InStep' /\ req' \in [Handlers -> Requests]
  BY <1>2, <1>5, <1>6, RequestMoves
<1>8. clock' = clock + 1
  BY DEF BuildJob
<1> QED BY <1>1, <1>7, <1>8 DEF WorkerInv, TypeOK, QueueTypeOK, queueVars, hostVars, fileVars

\* A new row keeps the invariant, whoever inserts it, if no request that goes on
\* has its UUID.
LEMMA InsertKeeps ==
  ASSUME WorkerInv, NEW i \in Jobs, NEW r \in JobRows, job[i].state = "none",
         r.state = "queued", r.attempt = 0, NamesClip(r),
         job' = job \/ job' = [job EXCEPT ![i] = r],
         w' = w, host' = host,
         \A g \in Handlers :
           \/ req'[g].pc = "idle"
           \/ req'[g] = req[g] /\ (req[g].pc \in {"insert", "store"} => req[g].id # i)
  PROVE  InStep'
<1>1. \A j \in Jobs : \/ job'[j] = job[j]
                      \/ j = i /\ job'[j] = r
  BY DEF WorkerInv, TypeOK, QueueTypeOK
<1>2. RunningIsHeld'
  BY <1>1 DEF WorkerInv, RunningIsHeld, Running
<1>3. AttemptsBounded' /\ RowsNameClips'
  BY <1>1, QueueAssumption DEF WorkerInv, AttemptsBounded, RowsNameClips, NamesClip
<1>4. ConsumerInStep'
  <2>1. w.job # NoJob => w.job \in Jobs /\ job'[w.job] = job[w.job]
    BY <1>1 DEF WorkerInv, TypeOK, WorkerStates, ConsumerInStep
  <2>2. w.job = NoJob => w.pc \notin ClipPcs
    BY DEF WorkerInv, ConsumerInStep, NoJobPcs, ClipPcs
  <2> QED BY <2>1, <2>2 DEF WorkerInv, ConsumerInStep, Target
<1>5. RequestsInStep'
  <2>1. ASSUME NEW g \in Handlers, req[g].pc \in {"insert", "store"}, req[g].id # i
        PROVE  req[g].id \in Jobs /\ job'[req[g].id] = job[req[g].id]
    BY <1>1, <2>1 DEF WorkerInv, RequestsInStep
  <2> QED BY <2>1 DEF WorkerInv, RequestsInStep, NamesClip
<1> QED BY <1>2, <1>3, <1>4, <1>5 DEF InStep

\* The steps of a request.
LEMMA HandleStep ==
  ASSUME WorkerInv, NEW h \in Handlers, Handle(h)
  PROVE  TypeOK' /\ InStep'
<1> TypeOK /\ QueueTypeOK /\ req \in [Handlers -> Requests] /\ req[h] \in Requests
  BY DEF WorkerInv, TypeOK
<1>1. ASSUME NEW r \in Requests, req' = [req EXCEPT ![h] = r],
             r.pc \in {"mark", "check", "scan", "scanning", "build"} => r.clip \in Clips,
             r.pc \notin {"insert", "store"}, clip' \in [Clips -> ClipRows],
             UNCHANGED <<job, hostVars, w, clock, fileVars>>
      PROVE  TypeOK' /\ InStep'
  <2>1. InStep' /\ req' \in [Handlers -> Requests]
    BY <1>1, RequestMoves DEF hostVars
  <2> QED BY <1>1, <2>1 DEF TypeOK, QueueTypeOK, hostVars, fileVars
<1>2. ASSUME Return(h), clip' \in [Clips -> ClipRows],
             UNCHANGED <<job, hostVars, w, clock, fileVars>>
      PROVE  TypeOK' /\ InStep'
  BY <1>1, <1>2, IdleReqType DEF Return, IdleReq
<1>3. ASSUME NEW p \in {"check", "build", "scan", "refused"}, Goto(h, p),
             p = "refused" \/ req[h].clip \in Clips, clip' \in [Clips -> ClipRows],
             UNCHANGED <<job, hostVars, w, clock, fileVars>>
      PROVE  TypeOK' /\ InStep'
  <2>1. [req[h] EXCEPT !.pc = p] \in Requests /\ [req[h] EXCEPT !.pc = p].pc = p
        /\ [req[h] EXCEPT !.pc = p].clip = req[h].clip
    BY DEF Requests, ReqPcs
  <2> QED BY <1>1, <1>3, <2>1 DEF Goto
<1>4. ASSUME NEW c \in Clips, NEW skip \in BOOLEAN, SubmitCompile(h, c, skip)
      PROVE  TypeOK' /\ InStep'
  <2>1. PICK f \in FirstReads :
          req' = [req EXCEPT ![h] = [IdleReq EXCEPT !.pc = "scanning", !.clip = c,
                                       !.skip = skip, !.read = f]]
    BY <1>4 DEF SubmitCompile
  <2> DEFINE r == [IdleReq EXCEPT !.pc = "scanning", !.clip = c, !.skip = skip, !.read = f]
  <2>2. r \in Requests /\ r.pc = "scanning" /\ r.clip = c
    BY IdleReqType, FirstReadsType DEF Requests, ReqPcs, IdleReq
  <2>3. req' = [req EXCEPT ![h] = r] /\ clip' = clip
        /\ UNCHANGED <<job, hostVars, w, clock, fileVars>>
    BY <1>4, <2>1 DEF SubmitCompile, queueVars
  <2> HIDE DEF r
  <2> QED BY <1>1, <2>2, <2>3 DEF QueueTypeOK
<1>5. ASSUME NEW c \in Clips, SubmitRecompile(h, c)
      PROVE  TypeOK' /\ InStep'
  <2>1. PICK p \in {"check", "mark"} :
          req' = [req EXCEPT ![h] = [IdleReq EXCEPT !.pc = p, !.clip = c, !.recompile = TRUE]]
    BY <1>5 DEF SubmitRecompile
  <2> DEFINE r == [IdleReq EXCEPT !.pc = p, !.clip = c, !.recompile = TRUE]
  <2>2. r \in Requests /\ r.pc = p /\ r.clip = c
    BY IdleReqType DEF Requests, ReqPcs, IdleReq
  <2>3. req' = [req EXCEPT ![h] = r] /\ clip' = clip
        /\ UNCHANGED <<job, hostVars, w, clock, fileVars>>
    BY <1>5, <2>1 DEF SubmitRecompile, queueVars
  <2> HIDE DEF r
  <2> QED BY <1>1, <2>2, <2>3 DEF QueueTypeOK
<1>6. ASSUME NEW c \in Clips, SubmitEdit(h, c)
      PROVE  TypeOK' /\ InStep'
  BY <1>6, BuildStep DEF SubmitEdit, Kinds
<1>7. CASE SubmitScan(h)
  BY <1>7, BuildStep DEF SubmitScan, Kinds
<1>8. CASE CheckActive(h)
  <2>1. req[h].clip \in Clips /\ UNCHANGED <<job, hostVars, w, clock, fileVars>> /\ clip' = clip
    BY <1>8 DEF WorkerInv, RequestsInStep, CheckActive, InRequest, queueVars
  <2> QED BY <1>2, <1>3, <1>8, <2>1 DEF CheckActive, QueueTypeOK
<1>9. CASE RequestScanRead(h)
  <2>1. PICK r \in FirstReads : req' = [req EXCEPT ![h].pc = "scanning", ![h].read = r]
    BY <1>9 DEF RequestScanRead
  <2> DEFINE q == [req[h] EXCEPT !.pc = "scanning", !.read = r]
  <2>2. q \in Requests /\ q.pc = "scanning" /\ q.clip = req[h].clip
    BY FirstReadsType DEF Requests, ReqPcs
  <2>3. req' = [req EXCEPT ![h] = q]
    BY <2>1
  <2>4. req[h].clip \in Clips /\ UNCHANGED <<job, hostVars, w, clock, fileVars>> /\ clip' = clip
    BY <1>9 DEF WorkerInv, RequestsInStep, RequestScanRead, InRequest, queueVars
  <2> HIDE DEF q
  <2> QED BY <1>1, <2>2, <2>3, <2>4 DEF QueueTypeOK
<1>10. CASE MarkStale(h)
  <2>1. /\ req[h].clip \in Clips /\ Goto(h, "check")
        /\ UNCHANGED <<job, hostVars, w, clock, fileVars>>
    BY <1>10 DEF WorkerInv, RequestsInStep, MarkStale, InRequest
  <2>2. clip' \in [Clips -> ClipRows]
    BY <1>10, SetClipType DEF MarkStale, ClipStates
  <2> QED BY <1>3, <2>1, <2>2
<1>11. CASE RequestScanCommit(h)
  <2>1. /\ req[h].clip \in Clips /\ req[h].read \in Reads /\ source \in [Clips -> Nat]
        /\ UNCHANGED <<job, hostVars, w, clock, fileVars>>
    BY <1>11 DEF WorkerInv, TypeOK, RequestsInStep, RequestScanCommit, InRequest, Requests
  <2>2. clip' \in [Clips -> ClipRows]
    BY <1>11, <2>1, ScanEffect DEF RequestScanCommit, QueueTypeOK
  <2>3. PICK p \in {"build", "refused"} :
          req' = [req EXCEPT ![h].pc = p, ![h].read = NoRead]
    BY <1>11 DEF RequestScanCommit
  <2> DEFINE q == [req[h] EXCEPT !.pc = p, !.read = NoRead]
  <2>4. q \in Requests /\ q.pc = p /\ q.clip = req[h].clip
    BY NoReadType DEF Requests, ReqPcs
  <2>5. req' = [req EXCEPT ![h] = q]
    BY <2>3
  <2> HIDE DEF q
  <2> QED BY <1>1, <2>1, <2>2, <2>4, <2>5
<1>12. CASE BuildCompile(h)
  <2>1. /\ req[h].clip \in Clips /\ clip' = clip
        /\ UNCHANGED <<queueVars, hostVars, w, fileVars>>
    BY <1>12 DEF WorkerInv, RequestsInStep, BuildCompile, InRequest, queueVars
  <2>2. CASE BuildJob(h, "compile", req[h].clip, clip[req[h].clip].fp)
    BY <2>1, <2>2, BuildStep DEF Kinds, QueueTypeOK, ClipRows
  <2>3. CASE Return(h) /\ UNCHANGED clock
    BY <1>2, <2>1, <2>3 DEF QueueTypeOK, queueVars
  <2>4. CASE Goto(h, "refused") /\ UNCHANGED clock
    BY <1>3, <2>1, <2>4 DEF QueueTypeOK, queueVars
  <2> QED BY <1>12, <2>2, <2>3, <2>4 DEF BuildCompile
<1>13. CASE Refuse(h)
  BY <1>2, <1>13 DEF Refuse, QueueTypeOK, queueVars

\* What the request knows of the record it is about to insert.
<1>14. ASSUME req[h].pc \in {"insert", "store"}
       PROVE  /\ req[h].id \in Jobs /\ job[req[h].id].state = "none" /\ req[h].row \in JobRows
              /\ req[h].row.state = "queued" /\ req[h].row.attempt = 0 /\ NamesClip(req[h].row)
              /\ \A g \in Handlers :
                   req[g].pc \in {"insert", "store"} /\ req[g].id = req[h].id => g = h
  BY <1>14 DEF WorkerInv, RequestsInStep, Requests
<1>15. CASE FindDuplicate(h)
  <2>1. /\ req[h].pc = "insert" /\ clip' = clip
        /\ UNCHANGED <<job, hostVars, w, clock, fileVars>>
    BY <1>15 DEF FindDuplicate, InRequest, queueVars
  <2>2. CASE Return(h)
    BY <1>2, <2>1, <2>2 DEF QueueTypeOK
  <2>3. CASE Goto(h, "store")
    <3> DEFINE r == [req[h] EXCEPT !.pc = "store"]
    <3>1. r \in Requests /\ r.pc = "store" /\ r.id = req[h].id /\ r.row = req[h].row
      BY DEF Requests, ReqPcs
    <3>2. req' = [req EXCEPT ![h] = r]
      BY <2>3 DEF Goto
    <3> HIDE DEF r
    <3>3. InStep' /\ req' \in [Handlers -> Requests]
      BY <1>14, <2>1, <3>1, <3>2, RequestMoves DEF hostVars
    <3> QED BY <2>1, <3>3 DEF TypeOK, QueueTypeOK, hostVars, fileVars
  <2> QED BY <1>15, <2>2, <2>3 DEF FindDuplicate
<1>16. ASSUME Insert(h) \/ Store(h)
       PROVE  TypeOK' /\ InStep'
  <2> DEFINE i == req[h].id
             r == req[h].row
  <2>1. /\ req[h].pc \in {"insert", "store"} /\ Return(h)
        /\ UNCHANGED <<hostVars, w, clock, fileVars>>
        /\ Enqueue(i, r) \/ Persist(i, r)
    BY <1>16 DEF Insert, Store, InRequest
  <2>2. i \in Jobs /\ r \in JobRows
    BY <1>14, <2>1
  <2>3. QueueTypeOK' /\ (job' = job \/ job' = [job EXCEPT ![i] = r])
    BY <2>1, <2>2, EnqueueEffect, PersistEffect DEF Enqueue, Persist
  <2> HIDE DEF i, r
  <2>4. /\ req' = [req EXCEPT ![h] = IdleReq] /\ host' = host
    BY <2>1 DEF Return, hostVars
  <2>5. TypeOK'
    BY <2>1, <2>3, <2>4, IdleReqType DEF TypeOK, hostVars, fileVars
  <2>6. \A g \in Handlers :
          \/ req'[g].pc = "idle"
          \/ /\ req'[g] = req[g]
             /\ req[g].pc \in {"insert", "store"} => req[g].id # i
    BY <1>14, <2>1, <2>4 DEF IdleReq, i
  <2>7. job[i].state = "none" /\ r.state = "queued" /\ r.attempt = 0 /\ NamesClip(r)
    BY <1>14, <2>1 DEF i, r
  <2>8. InStep'
    BY <2>1, <2>2, <2>3, <2>4, <2>6, <2>7, InsertKeeps
  <2> QED BY <2>5, <2>8
<1> QED BY <1>4, <1>5, <1>6, <1>7, <1>8, <1>9, <1>10, <1>11, <1>12, <1>13, <1>15, <1>16 DEF Handle

\* Cancelling jobs keeps the invariant, whoever does it.
LEMMA CancelKeeps ==
  ASSUME WorkerInv, RequestCancelAll \/ \E j \in Jobs : RequestCancel(j),
         UNCHANGED <<w, httpVars>>, host.state = "up", host'.state # "down"
  PROVE  QueueTypeOK' /\ InStep'
<1> TypeOK /\ QueueTypeOK
  BY DEF WorkerInv, TypeOK
<1>1. /\ QueueTypeOK'
      /\ \A k \in Jobs :
           \/ job'[k] = job[k]
           \/ \E s \in JobStates :
                /\ job[k].state \in Active /\ s \in {job[k].state, "cancelled"}
                /\ job'[k] = [job[k] EXCEPT !.state = s, !.cancel = TRUE]
  <2>1. ASSUME NEW j \in Jobs, RequestCancel(j)
        PROVE  /\ QueueTypeOK'
               /\ job' = job \/ \E s \in JobStates :
                    /\ job[j].state \in Active /\ s \in {job[j].state, "cancelled"}
                    /\ job' = [job EXCEPT ![j] = [job[j] EXCEPT !.state = s, !.cancel = TRUE]]
    BY <2>1, CancelEffect
  <2> QED BY <2>1, CancelAllEffect DEF QueueTypeOK
<1>2. ASSUME NEW k \in Jobs
      PROVE  /\ job'[k].attempt = job[k].attempt
             /\ job'[k].kind = job[k].kind /\ job'[k].clip = job[k].clip
             /\ job'[k].state = job[k].state
                \/ (job[k].state \in Active /\ job'[k].state = "cancelled")
  <2>1. CASE job'[k] = job[k]
    BY <2>1
  <2>2. ASSUME NEW s \in JobStates, job[k].state \in Active, s \in {job[k].state, "cancelled"},
               job'[k] = [job[k] EXCEPT !.state = s, !.cancel = TRUE]
        PROVE  /\ job'[k].attempt = job[k].attempt
               /\ job'[k].kind = job[k].kind /\ job'[k].clip = job[k].clip
               /\ job'[k].state = s
    BY <2>2 DEF QueueTypeOK, JobRows
  <2> QED BY <1>1, <2>1, <2>2
<1>3. Running' \subseteq Running
  BY <1>2 DEF Running
<1>4. RunningIsHeld'
  <2>1. \A k \in Running : (w.job = k /\ w.pc \in Holding) \/ w.pc \in {"abort", "dead", "stranded"}
    BY DEF WorkerInv, RunningIsHeld
  <2>2. \A k, l \in Running : k = l
    BY DEF WorkerInv, RunningIsHeld
  <2> QED BY <1>3, <2>1, <2>2 DEF RunningIsHeld
<1>5. AttemptsBounded' /\ RowsNameClips'
  BY <1>2 DEF WorkerInv, AttemptsBounded, RowsNameClips, NamesClip, Active
<1>6. ConsumerInStep'
  <2>1. w.job # NoJob => w.job \in Jobs
    BY DEF TypeOK, WorkerStates
  <2>2. w.job = NoJob => w.pc \notin ClipPcs
    BY DEF WorkerInv, ConsumerInStep, NoJobPcs, ClipPcs
  <2> QED BY <1>2, <2>1, <2>2 DEF WorkerInv, ConsumerInStep, Target, Active
<1>7. RequestsInStep'
  BY <1>2, RequestsFrame DEF WorkerInv, Active, httpVars
<1> QED BY <1>1, <1>4, <1>5, <1>6, <1>7 DEF InStep

\* Requests that are one transaction, and what users do to the files.
LEMMA UserStep ==
  ASSUME WorkerInv,
         \/ (\E j \in Jobs : Cancel(j)) \/ CancelAll
         \/ \E c \in Clips, skip \in BOOLEAN : CompileStaleOnly(c, skip)
         \/ SubmitCleanup
         \/ \E c \in Clips : ReplaceSource(c) \/ HideSource(c)
  PROVE  TypeOK' /\ InStep'
<1>1. CASE (\E j \in Jobs : Cancel(j)) \/ CancelAll
  <2>1. /\ RequestCancelAll \/ \E j \in Jobs : RequestCancel(j)
        /\ host.state = "up" /\ UNCHANGED <<hostVars, w, httpVars, fileVars>>
    BY <1>1 DEF Cancel, CancelAll
  <2>2. QueueTypeOK' /\ InStep'
    BY <2>1, CancelKeeps DEF hostVars
  <2> QED BY <2>1, <2>2 DEF WorkerInv, TypeOK, hostVars, httpVars, fileVars
<1>2. ASSUME NEW k \in Kinds, NEW c \in Clips \cup {NoClip}, NEW f \in Nat,
             k \in {"compile", "edit"} => c \in Clips,
             NEW j \in FreshIds, Enqueue(j, NewJob(k, c, f, clock + 1)),
             clock' = clock + 1, UNCHANGED <<hostVars, w, req, fileVars>>
      PROVE  TypeOK' /\ InStep'
  <2> DEFINE r == NewJob(k, c, f, clock + 1)
  <2>1. QueueTypeOK /\ clock + 1 \in Nat
    BY DEF WorkerInv, TypeOK
  <2>2. r \in JobRows /\ r.state = "queued" /\ r.attempt = 0 /\ NamesClip(r)
    BY <1>2, <2>1, NewJobType DEF NamesClip
  <2>3. /\ j \in Jobs /\ job[j].state = "none"
        /\ \A g \in Handlers : req[g].id # j
    BY DEF FreshIds
  <2>4. QueueTypeOK' /\ (job' = job \/ job' = [job EXCEPT ![j] = r])
    BY <1>2, <2>1, <2>2, <2>3, EnqueueEffect DEF Enqueue
  <2> HIDE DEF r
  <2>5. InStep'
    BY <1>2, <2>2, <2>3, <2>4, InsertKeeps DEF hostVars
  <2> QED BY <1>2, <2>1, <2>4, <2>5 DEF WorkerInv, TypeOK, hostVars, fileVars
<1>3. ASSUME NEW c \in Clips, NEW skip \in BOOLEAN, CompileStaleOnly(c, skip)
      PROVE  TypeOK' /\ InStep'
  <2>1. clip[c].fp \in Nat
    BY DEF WorkerInv, TypeOK, QueueTypeOK, ClipRows
  <2> QED BY <1>2, <1>3, <2>1 DEF CompileStaleOnly, Kinds
<1>4. CASE SubmitCleanup
  BY <1>2, <1>4 DEF SubmitCleanup, Kinds
<1>5. ASSUME NEW c \in Clips, ReplaceSource(c) \/ HideSource(c)
      PROVE  TypeOK' /\ InStep'
  <2>1. UNCHANGED <<queueVars, hostVars, w, httpVars, output, temp, published>>
    BY <1>5 DEF ReplaceSource, HideSource
  <2>2. source' \in [Clips -> Nat] /\ missing' \in SUBSET Clips
    <3>1. source \in [Clips -> Nat] /\ missing \in SUBSET Clips /\ source[c] + 1 \in Nat
      BY DEF WorkerInv, TypeOK
    <3>2. CASE source' = [source EXCEPT ![c] = source[c] + 1] /\ missing' = missing \ {c}
      BY <3>1, <3>2
    <3>3. CASE HideSource(c)
      BY <3>1, <3>3 DEF HideSource
    <3> QED BY <1>5, <3>2, <3>3 DEF ReplaceSource
  <2>3. TypeOK'
    BY <2>1, <2>2 DEF WorkerInv, TypeOK, QueueTypeOK, queueVars, hostVars, httpVars
  <2>4. InStep'
    BY <2>1, RequestsFrame DEF WorkerInv, InStep, RunningIsHeld, Running, AttemptsBounded, RowsNameClips,
       NamesClip, ConsumerInStep, Target, queueVars, hostVars, httpVars
  <2> QED BY <2>3, <2>4
<1> QED BY <1>1, <1>3, <1>4, <1>5

\* The process stops and starts.
LEMMA HostStep ==
  ASSUME WorkerInv, Shutdown \/ Stopped \/ Crash \/ Start
  PROVE  TypeOK' /\ InStep'
<1> TypeOK /\ QueueTypeOK
  BY DEF WorkerInv, TypeOK
<1>1. CASE Shutdown
  <2>1. host' \in [state: {"up", "stopping", "down"}, stops: Nat] /\ host'.state = "stopping"
    <3>1. host.stops + 1 \in Nat
      BY DEF TypeOK
    <3> QED BY <1>1, <3>1 DEF Shutdown
  <2>2. QueueTypeOK' /\ InStep'
    <3>1. CASE UNCHANGED queueVars
      <4>1. QueueTypeOK'
        BY <3>1 DEF QueueTypeOK, queueVars
      <4>2. InStep'
        BY <1>1, <2>1, <3>1, RequestsFrame DEF Shutdown, WorkerInv, InStep, RunningIsHeld, Running,
           AttemptsBounded, RowsNameClips, NamesClip, ConsumerInStep, Target, queueVars, httpVars
      <4> QED BY <4>1, <4>2
    <3>2. CASE \E j \in Running : RequestCancel(j)
      BY <1>1, <2>1, <3>2, CancelKeeps DEF Shutdown, Running
    <3> QED BY <1>1, <3>1, <3>2 DEF Shutdown
  <2> QED BY <1>1, <2>1, <2>2 DEF Shutdown, TypeOK, httpVars, fileVars
<1>2. CASE Stopped
  <2>1. /\ TypeOK' /\ job' = job /\ w' = IdleWorker /\ host'.state = "down" /\ req' = req
    BY <1>2, IdleWorkerType DEF Stopped, TypeOK, QueueTypeOK, queueVars, httpVars, fileVars
  <2>2. ConsumerInStep' /\ RequestsInStep'
    BY <2>1, RequestsFrame DEF WorkerInv, ConsumerInStep, IdleWorker, NoJobPcs, ClipPcs
  <2> QED BY <2>1, <2>2, QuietStep
<1>3. CASE Crash
  <2>1. /\ job' = job /\ w' = IdleWorker /\ host'.state = "down"
        /\ req' = [h \in Handlers |-> IdleReq]
    BY <1>3 DEF Crash, queueVars
  <2>2. host' \in [state: {"up", "stopping", "down"}, stops: Nat]
    BY <1>3 DEF Crash, TypeOK
  <2>3. TypeOK'
    BY <1>3, <2>1, <2>2, IdleWorkerType, IdleReqType DEF Crash, TypeOK, QueueTypeOK, queueVars, fileVars
  <2>4. ConsumerInStep' /\ RequestsInStep'
    BY <2>1 DEF ConsumerInStep, RequestsInStep, IdleWorker, IdleReq, NoJobPcs, ClipPcs
  <2> QED BY <2>1, <2>3, <2>4, QuietStep
<1>4. CASE Start
  <2>1. /\ QueueTypeOK'
        /\ \A j \in Jobs :
             \/ job'[j] = job[j] /\ job[j].state # "running"
             \/ \E s \in {"queued", "failed"} :
                  /\ job[j].state = "running"
                  /\ s = "queued" => job[j].attempt < MaxAttempts
                  /\ job'[j] = [job[j] EXCEPT !.state = s]
    BY <1>4, RecoverEffect DEF Start
  <2>2. host' \in [state: {"up", "stopping", "down"}, stops: Nat] /\ host'.state = "up"
    BY <1>4 DEF Start, TypeOK
  <2>3. TypeOK'
    BY <1>4, <2>1, <2>2 DEF Start, TypeOK, httpVars, fileVars
  <2>4. \A j \in Jobs :
          /\ job'[j].attempt = job[j].attempt
          /\ job'[j].kind = job[j].kind /\ job'[j].clip = job[j].clip
          /\ job'[j].state # "running"
          /\ job[j].state = "none" <=> job'[j].state = "none"
          /\ job'[j].state = "queued" => job[j].state = "queued" \/ job[j].attempt < MaxAttempts
    BY <2>1 DEF QueueTypeOK, JobRows
  <2>5. RunningIsHeld'
    BY <2>4 DEF RunningIsHeld, Running
  <2>6. AttemptsBounded' /\ RowsNameClips'
    BY <2>4 DEF WorkerInv, AttemptsBounded, RowsNameClips, NamesClip
  <2>7. ConsumerInStep'
    BY <1>4, <2>2 DEF Start, WorkerInv, ConsumerInStep, NoJobPcs, ClipPcs
  <2>8. RequestsInStep'
    BY <1>4, <2>4, RequestsFrame DEF Start, WorkerInv, httpVars
  <2> QED BY <2>3, <2>5, <2>6, <2>7, <2>8 DEF InStep
<1> QED BY <1>1, <1>2, <1>3, <1>4

-----------------------------------------------------------------------------
(* The theorems.                                                           *)

LEMMA InitInv == Init => WorkerInv
<1> SUFFICES ASSUME Init PROVE WorkerInv
  OBVIOUS
<1>1. NoRow \in JobRows /\ NoRow.state = "none" /\ NoRow.attempt = 0
  BY DEF NoRow, JobRows, JobStates, Kinds
<1>2. job = [j \in Jobs |-> NoRow] /\ QueueTypeOK
  BY <1>1 DEF Init, QueueInit, QueueTypeOK, ClipRows, ClipStates
<1>3. TypeOK
  BY <1>2, IdleWorkerType, IdleReqType DEF Init, TypeOK
<1>4. RunningIsHeld /\ AttemptsBounded /\ RowsNameClips
  BY <1>1, <1>2, QueueAssumption DEF RunningIsHeld, Running, AttemptsBounded, RowsNameClips
<1>5. ConsumerInStep /\ RequestsInStep
  BY DEF Init, ConsumerInStep, RequestsInStep, IdleWorker, IdleReq, NoJobPcs, ClipPcs
<1> QED BY <1>3, <1>4, <1>5 DEF WorkerInv

\* Every step of the Worker, of its users and of the host keeps the invariant.
LEMMA NextInv == WorkerInv /\ [Next]_vars => WorkerInv'
<1> SUFFICES ASSUME WorkerInv, [Next]_vars PROVE TypeOK' /\ InStep'
  BY DEF WorkerInv, InStep
<1>1. CASE TryBlock
  BY <1>1, TryStep
<1>2. CASE Claim \/ Finish
  BY <1>2, ClaimStep, FinishStep
<1>3. CASE Loop \/ ReadClipToNote \/ RecordFailure \/ Cleanup \/ WriteTimesOut \/ CleanupFails \/ Abort
  BY <1>3, AfterStep
<1>4. CASE \E h \in Handlers : Handle(h)
  BY <1>4, HandleStep
<1>5. CASE \/ (\E j \in Jobs : Cancel(j)) \/ CancelAll
           \/ \E c \in Clips, skip \in BOOLEAN : CompileStaleOnly(c, skip)
           \/ SubmitCleanup
           \/ \E c \in Clips : ReplaceSource(c) \/ HideSource(c)
  BY <1>5, UserStep
<1>6. CASE Shutdown \/ Stopped \/ Crash \/ Start
  BY <1>6, HostStep
<1>7. CASE UNCHANGED vars
  BY <1>7 DEF vars, WorkerInv, TypeOK, QueueTypeOK, InStep, RunningIsHeld, Running, AttemptsBounded,
     RowsNameClips, NamesClip, ConsumerInStep, Target, RequestsInStep
<1> QED
  BY <1>1, <1>2, <1>3, <1>4, <1>5, <1>6, <1>7 DEF Next, Consume, TryBlock

\* The invariant of the Worker holds in every reachable state, whatever fails.
THEOREM WorkerInvariant == Spec => []WorkerInv
BY InitInv, NextInv, PTL DEF Spec

\* Type correctness of the jobs and clips tables, the consumer and the requests.
THEOREM TypeCorrect == Spec => []TypeOK
<1>1. WorkerInv => TypeOK
  BY DEF WorkerInv
<1> QED BY <1>1, WorkerInvariant, PTL

\* At most one row is running, and nothing but the consumer holds it: claim_next
\* is never blocked by a row that nobody works on, unless an exception has ended
\* the consumer.
THEOREM OneRunningJob == Spec => []RunningIsHeld
<1>1. WorkerInv => RunningIsHeld
  BY DEF WorkerInv
<1> QED BY <1>1, WorkerInvariant, PTL

\* max_attempts bounds the attempts of every job, across retries, exceptions,
\* writes of stale copies and restarts.
THEOREM AttemptCap == Spec => []AttemptsBounded
<1>1. WorkerInv => AttemptsBounded
  BY DEF WorkerInv
<1> QED BY <1>1, WorkerInvariant, PTL

-----------------------------------------------------------------------------
(* What a step may do to the jobs table.                                   *)

\* The columns of a row that nothing writes after its INSERT.
Keeps(j) ==
  /\ job'[j].kind = job[j].kind /\ job'[j].clip = job[j].clip
  /\ job'[j].fp = job[j].fp /\ job'[j].created = job[j].created

\* Only the compile request that looks for a duplicate in a step of its own inserts a
\* record although there is one by now.
LooksFirst(i, r) ==
  Duplicate(r) => \E h \in Handlers : req[h].pc = "store" /\ req[h].id = i

\* A record that is built now carries the fingerprint of its clip's row.
Built(r) ==
  /\ r.created = clock + 1 /\ clock' = clock + 1
  /\ r.kind = "compile" => r.clip \in Clips /\ r.fp = clip[r.clip].fp

\* A record is inserted: that of a request, or one that is built in the same step.
Inserts(i, r) ==
  /\ job[i].state = "none" /\ r.state = "queued" /\ r.attempt = 0
  /\ job' = [job EXCEPT ![i] = r]
  /\ w' = w /\ host' = host /\ UNCHANGED fileVars
  /\ \/ \E h \in Handlers : /\ req[h].pc \in {"insert", "store"} /\ req[h].id = i
                             /\ req[h].row = r /\ req' = [req EXCEPT ![h] = IdleReq]
                             /\ clock' = clock
     \/ req' = req /\ Built(r)
  /\ LooksFirst(i, r)

\* Queued rows are cancelled, running ones are flagged.
Cancels ==
  /\ w' = w /\ req' = req /\ clock' = clock /\ UNCHANGED fileVars
  /\ \A k \in Jobs :
       /\ Keeps(k) /\ job'[k].attempt = job[k].attempt
       /\ \/ job'[k].state = job[k].state
          \/ job[k].state = "queued" /\ job'[k].state = "cancelled"

LEMMA CancelRows ==
  ASSUME QueueTypeOK, RequestCancelAll \/ \E j \in Jobs : RequestCancel(j), NEW k \in Jobs
  PROVE  /\ Keeps(k) /\ job'[k].attempt = job[k].attempt
         /\ \/ job'[k].state = job[k].state
            \/ job[k].state = "queued" /\ job'[k].state = "cancelled"
<1>1. job \in [Jobs -> JobRows] /\ job[k] \in JobRows
  BY DEF QueueTypeOK
<1>2. CASE RequestCancelAll
  <2>1. job'[k] = CASE job[k].state = "queued" ->
                         [job[k] EXCEPT !.state = "cancelled", !.cancel = TRUE]
                    [] job[k].state = "running" -> [job[k] EXCEPT !.cancel = TRUE]
                    [] OTHER -> job[k]
    BY <1>2 DEF RequestCancelAll
  <2>2. CASE job[k].state = "queued"
    BY <1>1, <2>1, <2>2 DEF Keeps, JobRows
  <2>3. CASE job[k].state = "running"
    BY <1>1, <2>1, <2>3 DEF Keeps, JobRows
  <2>4. CASE job[k].state \notin {"queued", "running"}
    BY <2>1, <2>4 DEF Keeps
  <2> QED BY <2>2, <2>3, <2>4
<1>3. ASSUME NEW j \in Jobs, RequestCancel(j)
      PROVE  /\ Keeps(k) /\ job'[k].attempt = job[k].attempt
             /\ \/ job'[k].state = job[k].state
                \/ job[k].state = "queued" /\ job'[k].state = "cancelled"
  <2>1. CASE UNCHANGED queueVars
    BY <2>1 DEF Keeps, queueVars
  <2>2. CASE /\ job[j].state = "queued"
             /\ job' = [job EXCEPT ![j].state = "cancelled", ![j].cancel = TRUE]
    BY <1>1, <2>2 DEF Keeps, JobRows
  <2>3. CASE job' = [job EXCEPT ![j].cancel = TRUE]
    BY <1>1, <2>3 DEF Keeps, JobRows
  <2> QED BY <1>3, <2>1, <2>2, <2>3 DEF RequestCancel
<1> QED BY <1>2, <1>3

\* Every step leaves the table alone, saves the held row as running, claims a row,
\* writes an outcome, inserts a record, cancels, or recovers what a crash interrupted.
LEMMA TableSteps ==
  ASSUME WorkerInv, [Next]_vars
  PROVE  \/ job' = job
         \/ TryBlock /\ \E c \in BOOLEAN : Wrote("running", c)
         \/ Claim /\ \E j \in Jobs : ClaimNext(j)
         \/ Finish /\ \E c \in BOOLEAN : Wrote(w.result, c)
         \/ \E i \in Jobs, r \in JobRows : Inserts(i, r)
         \/ Cancels
         \/ Start /\ RecoverInterrupted
<1> TypeOK /\ QueueTypeOK /\ req \in [Handlers -> Requests]
  BY DEF WorkerInv, TypeOK
<1>1. CASE TryBlock
  BY <1>1, TryEffect DEF Saved
<1>2. CASE Claim
  BY <1>2 DEF Claim, queueVars
<1>3. CASE Finish
  <2>1. w.pc = "finish" /\ w.pc \notin NoJobPcs
    BY <1>3 DEF Finish, At, NoJobPcs
  <2>2. w \in WorkerStates /\ w.job \in Jobs /\ w.attempt \in Nat
    BY <2>1, HeldFacts
  <2>3. w.result \in JobStates
    BY <2>1 DEF WorkerInv, ConsumerInStep, Terminal, JobStates, Active
  <2>4. PICK c \in BOOLEAN : Update(w.job, w.result, w.attempt, c)
    <3>1. (IF w.result = "queued" THEN w.cancel ELSE w.result = "cancelled") \in BOOLEAN
      BY <2>2 DEF WorkerStates
    <3> QED BY <1>3, <3>1 DEF Finish
  <2>5. Wrote(w.result, c)
    BY <2>2, <2>3, <2>4, UpdateEffect DEF Update, Wrote
  <2> QED BY <1>3, <2>5
<1>4. CASE Loop \/ ReadClipToNote \/ RecordFailure \/ Cleanup \/ WriteTimesOut \/ CleanupFails \/ Abort
  BY <1>4 DEF Loop, ReadClipToNote, RecordFailure, Cleanup, WriteTimesOut, CleanupFails, Abort, queueVars
<1>5. ASSUME NEW h \in Handlers, Handle(h)
      PROVE  job' = job \/ \E i \in Jobs, r \in JobRows : Inserts(i, r)
  <2>1. CASE ~(Insert(h) \/ Store(h))
    BY <1>5, <2>1 DEF Handle, SubmitCompile, SubmitRecompile, SubmitEdit, SubmitScan, MarkStale,
       CheckActive, RequestScanRead, RequestScanCommit, BuildCompile, Refuse, FindDuplicate, queueVars
  <2>2. CASE Insert(h) \/ Store(h)
    <3> DEFINE i == req[h].id
               r == req[h].row
    <3>1. /\ req[h].pc \in {"insert", "store"} /\ req' = [req EXCEPT ![h] = IdleReq]
          /\ UNCHANGED <<hostVars, w, clock, fileVars>>
          /\ Enqueue(i, r) \/ Persist(i, r)
      BY <2>2 DEF Insert, Store, InRequest, Return
    <3>2. /\ i \in Jobs /\ r \in JobRows /\ job[i].state = "none" /\ r.state = "queued"
          /\ r.attempt = 0
      BY <3>1 DEF WorkerInv, RequestsInStep, Requests
    <3>3. \/ job' = job
          \/ job' = [job EXCEPT ![i] = r] /\ LooksFirst(i, r)
      <4>1. CASE Insert(h)
        BY <3>2, <4>1, EnqueueEffect DEF Insert, Enqueue, LooksFirst, queueVars
      <4>2. CASE Store(h)
        BY <3>2, <4>2, PersistEffect DEF Store, InRequest, LooksFirst
      <4> QED BY <2>2, <4>1, <4>2
    <3>4. CASE job' = [job EXCEPT ![i] = r] /\ LooksFirst(i, r)
      <4>1. Inserts(i, r)
        BY <3>1, <3>2, <3>4 DEF Inserts, hostVars
      <4> QED BY <3>2, <4>1
    <3> QED BY <3>3, <3>4
  <2> QED BY <2>1, <2>2
<1>6. ASSUME NEW k \in Kinds, NEW c \in Clips \cup {NoClip}, NEW f \in Nat,
             NEW j \in FreshIds, Enqueue(j, NewJob(k, c, f, clock + 1)),
             k = "compile" => c \in Clips /\ f = clip[c].fp,
             clock' = clock + 1, UNCHANGED <<hostVars, w, req, fileVars>>
      PROVE  job' = job \/ \E i \in Jobs, r \in JobRows : Inserts(i, r)
  <2> DEFINE r == NewJob(k, c, f, clock + 1)
  <2>1. clock + 1 \in Nat
    BY DEF TypeOK
  <2>2. r \in JobRows /\ r.state = "queued" /\ r.attempt = 0 /\ r.created = clock + 1
    BY <2>1, NewJobType
  <2>3. j \in Jobs /\ job[j].state = "none"
    BY DEF FreshIds
  <2>4. job' = job \/ (job' = [job EXCEPT ![j] = r] /\ LooksFirst(j, r))
    <3>1. CASE Duplicate(r)
      BY <1>6, <3>1 DEF Enqueue, queueVars
    <3>2. CASE ~Duplicate(r)
      BY <1>6, <2>2, <2>3, <3>2, EnqueueEffect DEF LooksFirst
    <3> QED BY <3>1, <3>2
  <2>5. r.kind = k /\ r.clip = c /\ r.fp = f
    BY DEF NewJob, NoRow
  <2> HIDE DEF r
  <2>6. Built(r)
    BY <1>6, <2>2, <2>5 DEF Built
  <2>7. job' = [job EXCEPT ![j] = r] /\ LooksFirst(j, r) => Inserts(j, r)
    BY <1>6, <2>2, <2>3, <2>6 DEF Inserts, hostVars
  <2> QED BY <2>2, <2>3, <2>4, <2>7
<1>7. ASSUME NEW c \in Clips, NEW skip \in BOOLEAN, CompileStaleOnly(c, skip)
      PROVE  job' = job \/ \E i \in Jobs, r \in JobRows : Inserts(i, r)
  <2>1. clip[c].fp \in Nat
    BY DEF QueueTypeOK, ClipRows
  <2> QED BY <1>6, <1>7, <2>1 DEF CompileStaleOnly, Kinds
<1>8. CASE SubmitCleanup
  BY <1>6, <1>8 DEF SubmitCleanup, Kinds
<1>9. ASSUME RequestCancelAll \/ \E j \in Jobs : RequestCancel(j), UNCHANGED <<w, httpVars, fileVars>>
      PROVE  Cancels
  BY <1>9, CancelRows DEF Cancels, httpVars
<1>10. CASE (\E j \in Jobs : Cancel(j)) \/ CancelAll
  BY <1>9, <1>10 DEF Cancel, CancelAll
<1>11. CASE Shutdown
  <2>1. CASE Running = {}
    BY <1>11, <2>1 DEF Shutdown, queueVars
  <2>2. CASE Running # {}
    BY <1>9, <1>11, <2>2 DEF Shutdown, Running
  <2> QED BY <2>1, <2>2
<1>12. CASE Stopped \/ Crash \/ \E c \in Clips : ReplaceSource(c) \/ HideSource(c)
  BY <1>12 DEF Stopped, Crash, ReplaceSource, HideSource, queueVars
<1>13. CASE Start
  BY <1>13 DEF Start
<1>14. CASE UNCHANGED vars
  BY <1>14 DEF vars
<1> QED
  BY <1>1, <1>2, <1>3, <1>4, <1>5, <1>7, <1>8, <1>10, <1>11, <1>12, <1>13, <1>14
     DEF Next, Consume, TryBlock

LEMMA WroteKeeps ==
  ASSUME TypeOK, w.job \in Jobs, NEW s \in JobStates, NEW c \in BOOLEAN, Wrote(s, c)
  PROVE  \A j \in Jobs : Keeps(j)
BY DEF TypeOK, QueueTypeOK, Wrote, Keeps, JobRows

LEMMA ClaimKeepsRows ==
  ASSUME QueueTypeOK, NEW j \in Jobs, ClaimNext(j)
  PROVE  /\ \A k \in Jobs : Keeps(k) /\ (k # j => job'[k] = job[k])
         /\ job'[j].state = "running" /\ job'[j].attempt = job[j].attempt + 1
<1> DEFINE n == job[j].attempt + 1
<1>1. job \in [Jobs -> JobRows]
  BY DEF QueueTypeOK
<1>2. job' = [job EXCEPT ![j] = [job[j] EXCEPT !.state = "running", !.attempt = n]]
  BY ClaimEffect
<1> HIDE DEF n
<1>3. /\ \A k \in Jobs : Keeps(k) /\ (k # j => job'[k] = job[k])
      /\ job'[j].state = "running" /\ job'[j].attempt = n
  BY <1>1, <1>2 DEF Keeps, JobRows
<1> QED BY <1>3 DEF n

LEMMA RecoverKeeps ==
  ASSUME QueueTypeOK, RecoverInterrupted
  PROVE  \A j \in Jobs :
           /\ Keeps(j) /\ job'[j].attempt = job[j].attempt
           /\ \/ job'[j].state = job[j].state /\ job[j].state # "running"
              \/ /\ job[j].state = "running" /\ job'[j].state \in {"queued", "failed"}
                 /\ job'[j].state = "queued" => job[j].attempt < MaxAttempts
BY DEF QueueTypeOK, RecoverInterrupted, Keeps, JobRows

\* A row once inserted stays, with its kind, its clip and its age.
LEMMA RowsStay ==
  ASSUME WorkerInv, [Next]_vars, NEW j \in Jobs, job[j].state # "none"
  PROVE  Keeps(j) /\ job'[j].state # "none"
<1> TypeOK /\ QueueTypeOK
  BY DEF WorkerInv, TypeOK
<1>1. CASE job' = job
  BY <1>1 DEF Keeps
<1>2. ASSUME w.pc \notin NoJobPcs, NEW s \in JobStates \ {"none"}, NEW c \in BOOLEAN, Wrote(s, c)
      PROVE  Keeps(j) /\ job'[j].state # "none"
  <2>1. w.job \in Jobs
    BY <1>2, HeldFacts
  <2> QED BY <1>2, <2>1, WroteKeeps, WroteEffect
<1>3. CASE TryBlock /\ \E c \in BOOLEAN : Wrote("running", c)
  <2>1. w.pc \notin NoJobPcs /\ "running" \in JobStates \ {"none"}
    BY <1>3, TryEffect DEF Holding, NoJobPcs, JobStates, Active
  <2> QED BY <1>2, <1>3, <2>1
<1>4. CASE Finish /\ \E c \in BOOLEAN : Wrote(w.result, c)
  <2>1. w.pc = "finish" /\ w.pc \notin NoJobPcs
    BY <1>4 DEF Finish, At, NoJobPcs
  <2>2. w.result \in JobStates \ {"none"}
    BY <2>1 DEF WorkerInv, ConsumerInStep, Terminal, JobStates, Active
  <2> QED BY <1>2, <1>4, <2>1, <2>2
<1>5. ASSUME NEW k \in Jobs, ClaimNext(k)
      PROVE  Keeps(j) /\ job'[j].state # "none"
  BY <1>5, ClaimKeepsRows
<1>6. ASSUME NEW i \in Jobs, NEW r \in JobRows, Inserts(i, r)
      PROVE  Keeps(j) /\ job'[j].state # "none"
  BY <1>6 DEF Inserts, Keeps, QueueTypeOK
<1>7. CASE Cancels
  BY <1>7 DEF Cancels
<1>8. CASE RecoverInterrupted
  BY <1>8, RecoverKeeps
<1> QED BY <1>1, <1>3, <1>4, <1>5, <1>6, <1>7, <1>8, TableSteps

-----------------------------------------------------------------------------
(* The lifecycle.  A write that times out makes the consumer write a row   *)
(* that has ended once more, so the lifecycle needs writes that do not.    *)

\* The row of the job in hand is running until _finish has written it.
HoldsRunning == w.pc \in Holding => job[w.job].state = "running"

LEMMA HoldsRunningNext ==
  ASSUME WorkerInv, ~DbTimeouts, HoldsRunning, [Next]_vars
  PROVE  HoldsRunning'
<1> TypeOK /\ QueueTypeOK /\ w \in WorkerStates
  BY DEF WorkerInv, TypeOK
<1>1. CASE TryBlock
  <2>1. w.pc \in Holding /\ w.pc \notin NoJobPcs /\ w'.job = w.job /\ Saved
    BY <1>1, TryEffect DEF MovesOn, Holding, NoJobPcs
  <2>2. w.job \in Jobs /\ job[w.job].state = "running" /\ "running" \in JobStates
    BY <2>1, HeldFacts DEF HoldsRunning, JobStates, Active
  <2>3. job'[w.job].state = "running"
    BY <2>1, <2>2, WroteEffect DEF Saved
  <2> QED BY <2>1, <2>3 DEF HoldsRunning
<1>2. CASE Claim
  <2>1. CASE w' = IdleWorker
    BY <2>1 DEF HoldsRunning, IdleWorker, Holding
  <2>2. ASSUME NEW j \in Jobs, ClaimNext(j), w'.job = j
        PROVE  HoldsRunning'
    BY <2>2, ClaimKeepsRows DEF HoldsRunning
  <2> QED BY <1>2, <2>1, <2>2 DEF Claim, IdleWorker
<1>3. CASE Finish \/ Loop \/ ReadClipToNote \/ RecordFailure \/ Cleanup \/ CleanupFails \/ Abort
  <2>1. w'.pc \in {"idle", "noteread", "cleanup", "claim", "note", "dead", "stranded"}
    <3>1. CASE Loop \/ ReadClipToNote \/ RecordFailure
      BY <3>1 DEF Loop, ReadClipToNote, ReadRow, RecordFailure, WorkerStates
    <3>2. CASE Cleanup \/ CleanupFails \/ Abort
      BY <3>2 DEF Cleanup, CleanupFails, Abort, IdleWorker, WorkerStates
    <3>3. CASE Finish
      BY <3>3 DEF Finish, IdleWorker, WorkerStates
    <3> QED BY <1>3, <3>1, <3>2, <3>3
  <2> QED BY <2>1 DEF HoldsRunning, Holding
<1>4. ASSUME w' = w, w.pc \in Holding,
             \A j \in Jobs : job[j].state = "running" => job'[j].state = "running"
      PROVE  HoldsRunning'
  <2>1. w.job \in Jobs
    BY <1>4, HeldFacts DEF Holding, NoJobPcs
  <2> QED BY <1>4, <2>1 DEF HoldsRunning
<1>5. CASE w' = w /\ ~Start /\ ~TryBlock /\ ~Claim /\ ~Finish
  <2>1. CASE job' = job
    BY <1>5, <2>1 DEF HoldsRunning
  <2>2. ASSUME NEW i \in Jobs, NEW r \in JobRows, Inserts(i, r)
        PROVE  \A j \in Jobs : job[j].state = "running" => job'[j].state = "running"
    BY <2>2 DEF Inserts, QueueTypeOK
  <2>3. CASE Cancels
    BY <1>4, <1>5, <2>3 DEF Cancels, HoldsRunning
  <2> QED BY <1>4, <1>5, <2>1, <2>2, <2>3, TableSteps DEF HoldsRunning
<1>6. CASE Stopped \/ Crash
  BY <1>6 DEF Stopped, Crash, IdleWorker, HoldsRunning, Holding
<1>7. CASE Start
  BY <1>7 DEF Start, WorkerInv, ConsumerInStep, HoldsRunning, Holding
<1>8. ~WriteTimesOut
  BY DEF WriteTimesOut
<1>9. \/ TryBlock \/ Claim \/ Finish \/ Loop \/ ReadClipToNote \/ RecordFailure \/ Cleanup
      \/ CleanupFails \/ Abort \/ Stopped \/ Crash \/ Start \/ w' = w
  BY <1>8 DEF Next, Consume, TryBlock, Handle, SubmitCompile, SubmitRecompile, SubmitEdit,
     SubmitScan, BuildCompile, MarkStale, CheckActive, RequestScanRead, RequestScanCommit, Refuse,
     Insert, FindDuplicate, Store, CompileStaleOnly, SubmitCleanup, Cancel, CancelAll, Shutdown,
     ReplaceSource, HideSource, vars
<1> QED BY <1>1, <1>2, <1>3, <1>5, <1>6, <1>7, <1>9

\* A UUID that no row carries has no attempts.
UnusedRows == \A j \in Jobs : job[j].state = "none" => job[j].attempt = 0

LEMMA UnusedRowsNext ==
  ASSUME WorkerInv, UnusedRows, [Next]_vars
  PROVE  UnusedRows'
<1> TypeOK /\ QueueTypeOK /\ job \in [Jobs -> JobRows]
  BY DEF WorkerInv, TypeOK, QueueTypeOK
<1> SUFFICES ASSUME NEW j \in Jobs, job'[j].state = "none"
             PROVE  job'[j].attempt = 0
  BY DEF UnusedRows
<1>1. job[j].state = "none" /\ job[j].attempt = 0
  BY RowsStay DEF UnusedRows
<1>2. ASSUME w.pc \notin NoJobPcs, NEW s \in JobStates, NEW c \in BOOLEAN, Wrote(s, c)
      PROVE  job'[j].attempt = 0
  <2>1. w.job \in Jobs /\ w.job # j
    BY <1>1, <1>2, HeldFacts
  <2> QED BY <1>1, <1>2, <2>1, WroteEffect
<1>3. CASE TryBlock /\ \E c \in BOOLEAN : Wrote("running", c)
  BY <1>2, <1>3, TryEffect DEF Holding, NoJobPcs, JobStates, Active
<1>4. CASE Finish /\ \E c \in BOOLEAN : Wrote(w.result, c)
  BY <1>2, <1>4 DEF Finish, At, NoJobPcs, WorkerInv, ConsumerInStep, Terminal, JobStates, Active
<1>5. ASSUME NEW k \in Jobs, ClaimNext(k)
      PROVE  job'[j].attempt = 0
  BY <1>1, <1>5, ClaimKeepsRows, ClaimEffect
<1>6. ASSUME NEW i \in Jobs, NEW r \in JobRows, Inserts(i, r)
      PROVE  job'[j].attempt = 0
  BY <1>1, <1>6 DEF Inserts
<1>7. CASE Cancels
  BY <1>1, <1>7 DEF Cancels
<1>8. CASE RecoverInterrupted
  BY <1>1, <1>8, RecoverKeeps
<1> QED BY <1>1, <1>3, <1>4, <1>5, <1>6, <1>7, <1>8, TableSteps

\* Without writes that time out the queue is an implementation of JobLifecycle: every
\* step of the Worker is a step of a job's life or leaves all jobs as they are.
LEMMA LifecycleStep ==
  ASSUME WorkerInv, ~DbTimeouts, HoldsRunning, UnusedRows, [Next]_vars
  PROVE  [Lifecycle!Next]_(Lifecycle!vars)
<1> DEFINE state == [j \in Jobs |-> job[j].state]
           attempt == [j \in Jobs |-> job[j].attempt]
<1> TypeOK /\ QueueTypeOK /\ job \in [Jobs -> JobRows]
  BY DEF WorkerInv, TypeOK, QueueTypeOK
<1>1. ASSUME \A j \in Jobs : job'[j].state = job[j].state /\ job'[j].attempt = job[j].attempt
      PROVE  state' = state /\ attempt' = attempt
  BY <1>1
<1>2. ASSUME NEW k \in Jobs, \A j \in Jobs : j # k => job'[j] = job[j]
      PROVE  /\ state' = [state EXCEPT ![k] = job'[k].state]
             /\ attempt' = [attempt EXCEPT ![k] = job'[k].attempt]
  BY <1>2
<1>3. CASE TryBlock /\ \E c \in BOOLEAN : Wrote("running", c)
  <2>1. w.pc \in Holding /\ w.pc \notin NoJobPcs /\ "running" \in JobStates
    BY <1>3, TryEffect DEF Holding, NoJobPcs, JobStates, Active
  <2>2. w.job \in Jobs /\ job[w.job].state = "running" /\ job[w.job].attempt = w.attempt
    BY <2>1, HeldFacts DEF HoldsRunning
  <2>3. \A j \in Jobs : job'[j].state = job[j].state /\ job'[j].attempt = job[j].attempt
    BY <1>3, <2>1, <2>2, WroteEffect
  <2> QED BY <1>1, <2>3 DEF Lifecycle!vars
<1>4. ASSUME NEW k \in Jobs, ClaimNext(k)
      PROVE  Lifecycle!Start(k)
  <2>1. /\ job'[k].state = "running" /\ job'[k].attempt = job[k].attempt + 1
        /\ \A j \in Jobs : j # k => job'[j] = job[j]
        /\ job[k].state = "queued" /\ Running = {}
    BY <1>4, ClaimKeepsRows, ClaimEffect
  <2>2. job[k].attempt < MaxAttempts /\ \A j \in Jobs : job[j].state # "running"
    BY <2>1 DEF WorkerInv, AttemptsBounded, Running
  <2> QED BY <1>2, <2>1, <2>2 DEF Lifecycle!Start, Lifecycle!Move
<1>5. CASE Finish /\ \E c \in BOOLEAN : Wrote(w.result, c)
  <2>1. w.pc = "finish" /\ w.pc \in Holding /\ w.pc \notin NoJobPcs
    BY <1>5 DEF Finish, At, Holding, Pcs, NoJobPcs
  <2>2. /\ w.job \in Jobs /\ job[w.job].state = "running" /\ job[w.job].attempt = w.attempt
        /\ w.result = "queued" => w.attempt < MaxAttempts
    BY <2>1, HeldFacts DEF HoldsRunning
  <2>3. w.result \in Terminal \cup {"queued"} /\ w.result \in JobStates
    BY <2>1 DEF WorkerInv, ConsumerInStep, Terminal, JobStates, Active
  <2>4. /\ job'[w.job].state = w.result /\ job'[w.job].attempt = job[w.job].attempt
        /\ \A j \in Jobs : j # w.job => job'[j] = job[j]
    BY <1>5, <2>2, <2>3, WroteEffect
  <2>5. PICK k \in Jobs : k = w.job
    BY <2>2
  <2>6. Lifecycle!Retry(k) \/ Lifecycle!End(k)
    <3>1. state' = [state EXCEPT ![k] = w.result] /\ state[k] = "running"
      BY <2>2, <2>4, <2>5
    <3>2. attempt' = attempt /\ attempt[k] = w.attempt
      BY <2>2, <2>4, <2>5
    <3> HIDE DEF state, attempt
    <3>3. CASE w.result = "queued"
      BY <2>2, <3>1, <3>2, <3>3 DEF Lifecycle!Retry, Lifecycle!Move, state, attempt
    <3>4. CASE w.result \in Terminal
      BY <2>2, <3>1, <3>2, <3>4 DEF Lifecycle!End, Lifecycle!Move, Terminal, state, attempt
    <3> QED BY <2>3, <3>3, <3>4
  <2> QED BY <2>6 DEF Lifecycle!Next
<1>6. ASSUME NEW i \in Jobs, NEW r \in JobRows, Inserts(i, r)
      PROVE  Lifecycle!Submit(i)
  <2>1. /\ job[i].state = "none" /\ job'[i].state = "queued" /\ job'[i].attempt = 0
        /\ \A j \in Jobs : j # i => job'[j] = job[j]
    BY <1>6 DEF Inserts
  <2>2. job[i].attempt = 0
    BY <2>1 DEF UnusedRows
  <2>3. state' = [state EXCEPT ![i] = "queued"] /\ state[i] = "none"
    BY <2>1
  <2>4. attempt' = attempt
    BY <2>1, <2>2
  <2> QED BY <2>3, <2>4 DEF Lifecycle!Submit, Lifecycle!Move
<1>7. CASE Cancels
  <2>1. PICK js \in SUBSET Jobs :
          js = {j \in Jobs : job[j].state = "queued" /\ job'[j].state = "cancelled"}
    OBVIOUS
  <2>2. Lifecycle!Withdraw(js)
    <3>1. \A j \in js : state[j] = "queued"
      BY <2>1
    <3>2. attempt' = attempt
      BY <1>7 DEF Cancels
    <3>3. \A j \in Jobs : job'[j].state = IF j \in js THEN "cancelled" ELSE job[j].state
      BY <1>7, <2>1 DEF Cancels
    <3>4. state' = [j \in Jobs |-> IF j \in js THEN "cancelled" ELSE state[j]]
      BY <3>3
    <3> QED BY <3>1, <3>2, <3>4 DEF Lifecycle!Withdraw
  <2> QED BY <2>2 DEF Lifecycle!Next
<1>8. CASE RecoverInterrupted
  <2>1. \A j \in Jobs :
           /\ job'[j].attempt = job[j].attempt
           /\ \/ job'[j].state = job[j].state /\ job[j].state # "running"
              \/ /\ job[j].state = "running" /\ job'[j].state \in {"queued", "failed"}
                 /\ job'[j].state = "queued" => job[j].attempt < MaxAttempts
    BY <1>8, RecoverKeeps
  <2>2. CASE Running = {}
    BY <1>1, <2>1, <2>2 DEF Running, Lifecycle!vars
  <2>3. ASSUME NEW k \in Jobs, job[k].state = "running"
        PROVE  Lifecycle!Retry(k) \/ Lifecycle!End(k)
    <3>1. \A j \in Jobs : j # k => job[j].state # "running"
      BY <2>3 DEF WorkerInv, RunningIsHeld, Running
    <3>2. /\ \A j \in Jobs : j # k => job'[j].state = job[j].state
          /\ \A j \in Jobs : job'[j].attempt = job[j].attempt
      BY <2>1, <3>1
    <3>3. state' = [state EXCEPT ![k] = job'[k].state] /\ attempt' = attempt
      BY <3>2
    <3> QED BY <2>1, <2>3, <3>3 DEF Lifecycle!Retry, Lifecycle!End, Lifecycle!Move
  <2> QED BY <2>2, <2>3 DEF Running, Lifecycle!Next
<1>9. CASE job' = job
  BY <1>9 DEF Lifecycle!vars
<1> QED
  BY <1>3, <1>4, <1>5, <1>6, <1>7, <1>8, <1>9, TableSteps DEF Lifecycle!Next

LEMMA LifecycleInit == Init => Lifecycle!Init /\ HoldsRunning /\ UnusedRows
<1> SUFFICES ASSUME Init PROVE Lifecycle!Init /\ HoldsRunning /\ UnusedRows
  OBVIOUS
<1>1. \A j \in Jobs : job[j].state = "none" /\ job[j].attempt = 0
  BY DEF Init, QueueInit, NoRow
<1> QED BY <1>1 DEF Init, Lifecycle!Init, HoldsRunning, IdleWorker, Holding, UnusedRows

\* What clients are promised of their jobs: a job is queued once, runs alone, is
\* retried only below its cap, and keeps the outcome it reaches, across crashes and
\* restarts, while no write waits past busy_timeout.
THEOREM QueueImplementsLifecycle ==
  ASSUME ~DbTimeouts
  PROVE  Spec => LifecycleSpec
<1>1. HoldsRunning /\ UnusedRows /\ WorkerInv /\ [Next]_vars
        => (HoldsRunning /\ UnusedRows)' /\ [Lifecycle!Next]_(Lifecycle!vars)
  BY HoldsRunningNext, UnusedRowsNext, LifecycleStep
<1> QED BY <1>1, LifecycleInit, WorkerInvariant, PTL DEF Spec, LifecycleSpec, Lifecycle!Spec

-----------------------------------------------------------------------------
(* What a step may do to the consumer, to the clips and to the files.      *)

\* A step that is not the consumer's leaves its state and its files alone, and only
\* a stop takes its state away.
OthersStep ==
  /\ w' = w /\ UNCHANGED <<output, temp, published>>
  /\ host' = host \/ Shutdown \/ Start

LEMMA ConsumerSteps ==
  ASSUME [Next]_vars
  PROVE  \/ TryBlock \/ Claim \/ Finish \/ Loop \/ ReadClipToNote \/ RecordFailure \/ Cleanup
         \/ WriteTimesOut \/ CleanupFails \/ Abort \/ Stopped \/ Crash \/ OthersStep
<1>1. CASE \E h \in Handlers : Handle(h)
  BY <1>1 DEF Handle, SubmitCompile, SubmitRecompile, SubmitEdit,
     SubmitScan, BuildCompile, MarkStale, CheckActive, RequestScanRead, RequestScanCommit, Refuse,
     Insert, FindDuplicate, Store, OthersStep, hostVars, fileVars
<1>2. CASE \/ (\E j \in Jobs : Cancel(j)) \/ CancelAll \/ SubmitCleanup
           \/ \E c \in Clips, skip \in BOOLEAN : CompileStaleOnly(c, skip)
           \/ \E c \in Clips : ReplaceSource(c) \/ HideSource(c)
  BY <1>2 DEF Cancel, CancelAll, SubmitCleanup, CompileStaleOnly, ReplaceSource, HideSource, OthersStep,
     hostVars, fileVars
<1>3. CASE Shutdown \/ Start \/ UNCHANGED vars
  BY <1>3 DEF Shutdown, Start, vars, OthersStep, fileVars
<1> QED BY <1>1, <1>2, <1>3 DEF Next, Consume, TryBlock

\* The kind and the clip of the job in hand do not change under it.
LEMMA JobInHandStays ==
  ASSUME WorkerInv, [Next]_vars, w.job # NoJob, w'.job = w.job
  PROVE  w.job \in Jobs /\ Kind' = Kind /\ Target' = Target
<1>1. w.job \in Jobs /\ job[w.job].state # "none"
  BY DEF WorkerInv, ConsumerInStep, TypeOK, WorkerStates
<1> QED BY <1>1, RowsStay DEF Kind, Target, Keeps

\* No statement of the try block leads from the jobs of one kind to those of another.
LEMMA TryKeepsKind ==
  ASSUME WorkerInv, TryBlock
  PROVE  /\ w'.pc \in EncodingPcs => w.pc \in EncodingPcs
         /\ w'.pc \in {"scan", "scanning"} => w.pc = "scan"
         /\ w'.pc # "sweep"
         /\ w'.result = "queued" => Kind = "compile" \/ w.result = "queued"
<1> w \in WorkerStates
  BY DEF WorkerInv, TypeOK
<1>1. CASE MakeTemp \/ Raise
  BY <1>1 DEF MakeTemp, Raise, At, Raising, EncodingPcs, ClipPcs, WorkerStates
<1>2. CASE Prepare \/ Poll \/ Tick
  BY <1>2 DEF Prepare, Poll, Tick, At, EncodingPcs, ClipPcs, WorkerStates
<1>3. CASE ProcessExits \/ Deadline \/ NextPhase \/ NoteNoProgress
  BY <1>3 DEF ProcessExits, Deadline, NextPhase, NoteNoProgress, At, EncodingPcs, ClipPcs, WorkerStates
<1>4. CASE Judge \/ Validate
  BY <1>4 DEF Judge, Validate, FailAttempt, Settle, Raising, At, EncodingPcs, ClipPcs, WorkerStates
<1>5. CASE Publish \/ ReadClip \/ Record
  BY <1>5 DEF Publish, ReadClip, ReadRow, Record, Settle, At, EncodingPcs, ClipPcs, WorkerStates
<1>6. CASE Except \/ Sweep
  BY <1>6 DEF Except, Sweep, Settle, Raising, At, EncodingPcs, ClipPcs, WorkerStates
<1>7. CASE WorkerScanRead \/ WorkerScanCommit
  BY <1>7 DEF WorkerScanRead, WorkerScanCommit, At, EncodingPcs, ClipPcs, WorkerStates
<1> QED BY <1>1, <1>2, <1>3, <1>4, <1>5, <1>6, <1>7 DEF TryBlock

\* What the branches of run_once after _finish do to the consumer.
LEMMA AfterFinish ==
  ASSUME WorkerInv,
         Finish \/ ReadClipToNote \/ RecordFailure \/ WriteTimesOut \/ CleanupFails
  PROVE  \/ /\ w'.job = w.job /\ w'.pc \in {"noteread", "note", "cleanup", "except", "abort", "stranded"}
            /\ w'.result = w.result \/ w'.result = "none"
            /\ w'.read \in {w.read, NoRead} \/ ReadClipToNote
         \/ w' = [IdleWorker EXCEPT !.pc = "dead"] \/ w' = IdleWorker
<1> w \in WorkerStates
  BY DEF WorkerInv, TypeOK
<1>1. CASE Finish
  BY <1>1 DEF Finish, WorkerStates
<1>2. CASE ReadClipToNote \/ RecordFailure
  BY <1>2 DEF ReadClipToNote, RecordFailure, ReadRow, WorkerStates
<1>3. CASE WriteTimesOut \/ CleanupFails
  BY <1>3 DEF WriteTimesOut, CleanupFails, Raising, WorkerStates
<1> QED BY <1>1, <1>2, <1>3

\* What claim_next leaves in the consumer: nothing, or a job to begin with.
LEMMA ClaimedJob ==
  ASSUME Claim
  PROVE  \/ w' = IdleWorker
         \/ \E j \in Jobs :
              /\ ClaimNext(j)
              /\ w'.job = j /\ w'.result = "none" /\ w'.phase = "encode" /\ w'.read = NoRead
              /\ w'.pc = CASE job[j].kind = "scan" -> "scan"
                           [] job[j].kind = "cleanup" -> "sweep"
                           [] OTHER -> "mkdir"
              /\ w'.pc \in {"scan", "sweep", "mkdir"}
<1>1. ASSUME NEW j \in Jobs, NEW p, NEW n, NEW x,
             w' = [IdleWorker EXCEPT !.pc = p, !.job = j, !.attempt = n, !.cancel = x]
      PROVE  /\ w'.job = j /\ w'.result = "none" /\ w'.phase = "encode" /\ w'.read = NoRead
             /\ w'.pc = p
  BY <1>1 DEF IdleWorker
<1> DEFINE first(j) == CASE job[j].kind = "scan" -> "scan"
                         [] job[j].kind = "cleanup" -> "sweep"
                         [] OTHER -> "mkdir"
<1>2. \A j : first(j) \in {"scan", "sweep", "mkdir"}
  OBVIOUS
<1>3. w' = IdleWorker \/ \E j \in Jobs :
        /\ ClaimNext(j)
        /\ w' = [IdleWorker EXCEPT !.pc = first(j), !.job = j, !.attempt = job[j].attempt + 1,
                                   !.cancel = job[j].cancel]
  BY DEF Claim
<1> HIDE DEF first
<1>4. w' = IdleWorker \/ \E j \in Jobs :
        /\ ClaimNext(j)
        /\ w'.job = j /\ w'.result = "none" /\ w'.phase = "encode" /\ w'.read = NoRead
        /\ w'.pc = first(j) /\ w'.pc \in {"scan", "sweep", "mkdir"}
  <2>1. ASSUME NEW j \in Jobs,
               w' = [IdleWorker EXCEPT !.pc = first(j), !.job = j, !.attempt = job[j].attempt + 1,
                                       !.cancel = job[j].cancel]
        PROVE  /\ w'.job = j /\ w'.result = "none" /\ w'.phase = "encode" /\ w'.read = NoRead
               /\ w'.pc = first(j)
    BY <1>1, <2>1
  <2> QED BY <1>2, <1>3, <2>1
<1> QED BY <1>4 DEF first

LEMMA KindsNext ==
  ASSUME WorkerInv, KindsInStep, [Next]_vars
  PROVE  KindsInStep'
<1> w \in WorkerStates
  BY DEF WorkerInv, TypeOK
<1>1. CASE TryBlock
  <2>1. w'.job = w.job /\ w.job # NoJob
    BY <1>1, TryEffect, HeldFacts, WorkerAssumption DEF MovesOn, Holding, NoJobPcs
  <2>2. Kind' = Kind
    BY <2>1, JobInHandStays
  <2> QED BY <1>1, <2>1, <2>2, TryKeepsKind DEF KindsInStep
<1>2. CASE Claim
  <2>1. CASE w' = IdleWorker
    BY <2>1 DEF KindsInStep, IdleWorker, EncodingPcs, ClipPcs
  <2>2. ASSUME NEW j \in Jobs, ClaimNext(j), w'.job = j, w'.result = "none",
               w'.pc = CASE job[j].kind = "scan" -> "scan"
                         [] job[j].kind = "cleanup" -> "sweep"
                         [] OTHER -> "mkdir"
        PROVE  KindsInStep'
    <3>1. job'[j].kind = job[j].kind /\ job[j].kind \in Kinds
      BY <2>2, ClaimKeepsRows DEF WorkerInv, TypeOK, QueueTypeOK, JobRows, Keeps
    <3> QED BY <2>2, <3>1 DEF KindsInStep, Kind, EncodingPcs, ClipPcs, Kinds
  <2> QED BY <1>2, <2>1, <2>2, ClaimedJob
<1>3. CASE Finish \/ ReadClipToNote \/ RecordFailure \/ WriteTimesOut \/ CleanupFails
  <2>1. w'.pc \notin EncodingPcs \cup {"scan", "scanning", "sweep"}
    BY <1>3, AfterFinish DEF IdleWorker, EncodingPcs, ClipPcs
  <2>2. CASE w'.job = w.job /\ w.job # NoJob
    BY <1>3, <2>1, <2>2, AfterFinish, JobInHandStays DEF KindsInStep, IdleWorker
  <2>3. w'.job = w.job \/ w'.job = NoJob
    BY <1>3, AfterFinish DEF IdleWorker
  <2> QED BY <2>1, <2>2, <2>3 DEF KindsInStep
<1>4. CASE Loop \/ Cleanup \/ Abort \/ Stopped \/ Crash
  <2>1. w'.job = NoJob /\ w'.pc \in {"idle", "dead", "claim"}
    <3>1. CASE Loop
      BY <3>1 DEF Loop, At, WorkerInv, ConsumerInStep, NoJobPcs, WorkerStates
    <3>2. CASE Cleanup \/ Abort \/ Stopped \/ Crash
      BY <3>2 DEF Cleanup, Abort, Stopped, Crash, IdleWorker
    <3> QED BY <1>4, <3>1, <3>2
  <2> QED BY <2>1 DEF KindsInStep, EncodingPcs, ClipPcs
<1>5. CASE OthersStep
  <2>1. CASE w.job = NoJob
    <3>1. w.pc \in NoJobPcs
      BY <2>1 DEF WorkerInv, ConsumerInStep
    <3> QED BY <1>5, <2>1, <3>1 DEF OthersStep, KindsInStep, NoJobPcs, EncodingPcs, ClipPcs
  <2>2. CASE w.job # NoJob
    BY <1>5, <2>2, JobInHandStays DEF OthersStep, KindsInStep
  <2> QED BY <2>1, <2>2
<1> QED BY <1>1, <1>2, <1>3, <1>4, <1>5, ConsumerSteps

-----------------------------------------------------------------------------
(* Temporary directories.                                                  *)

\* Which directories the statements of the try block make and remove.
LEMMA TryTemp ==
  ASSUME WorkerInv, KindsInStep, TryBlock
  PROVE  \/ temp' = temp
         \/ Kind \in {"compile", "edit"} /\ temp' = temp \cup {w.job}
         \/ w.pc = "sweep" /\ Kind = "cleanup" /\ temp \cap Running \subseteq temp'
            /\ temp' \subseteq temp
<1>1. CASE MakeTemp
  BY <1>1 DEF MakeTemp, At, KindsInStep, EncodingPcs, ClipPcs
<1>2. CASE Sweep
  BY <1>2 DEF Sweep, At, KindsInStep
<1>3. CASE ~(MakeTemp \/ Sweep)
  BY <1>3 DEF TryBlock, Prepare, Poll, Tick, ProcessExits, Deadline, NextPhase, NoteNoProgress,
     Judge, Validate, Publish, ReadClip, Record, Raise, Except, WorkerScanRead, WorkerScanCommit, fileVars
<1> QED BY <1>1, <1>2, <1>3

LEMMA TempsNext ==
  ASSUME WorkerInv, KindsInStep, TempsInStep, [Next]_vars
  PROVE  TempsInStep'
<1>1. /\ w \in WorkerStates /\ temp \subseteq Jobs /\ NoJob \notin Jobs
      /\ w.job = NoJob /\ host.stops = 0 => temp = {}
  BY WorkerAssumption DEF WorkerInv, TypeOK, TempsInStep, NoTempLeak
<1>2. CASE host' = host /\ host.stops = 0
  <2>1. host'.state # "up" => host'.stops > 0
    BY <1>2 DEF TempsInStep
  <2>2. CASE TryBlock
    <3>1. w'.job = w.job /\ w.job # NoJob
      BY <2>2, TryEffect, HeldFacts, WorkerAssumption DEF MovesOn, Holding, NoJobPcs
    <3>2. Kind' = Kind
      BY <3>1, JobInHandStays
    <3> QED BY <1>2, <2>1, <2>2, <3>1, <3>2, TryTemp DEF TempsInStep, NoTempLeak
  <2>3. CASE Claim
    <3>1. w.job = NoJob /\ temp' = temp
      BY <2>3 DEF Claim, At, fileVars, WorkerInv, ConsumerInStep, NoJobPcs
    <3> QED BY <1>1, <1>2, <2>1, <3>1 DEF TempsInStep, NoTempLeak
  <2>4. CASE Finish \/ ReadClipToNote \/ RecordFailure \/ WriteTimesOut \/ CleanupFails
    <3>1. temp' = temp
      BY <2>4 DEF Finish, ReadClipToNote, RecordFailure, WriteTimesOut, CleanupFails, fileVars
    <3>2. w'.job = w.job \/ w'.job = NoJob
      BY <2>4, AfterFinish DEF IdleWorker
    <3>3. CASE w'.job = w.job
      <4>1. w.job = NoJob \/ Kind' = Kind
        BY <3>3, JobInHandStays
      <4> QED BY <1>1, <1>2, <2>1, <3>1, <3>3, <4>1 DEF TempsInStep, NoTempLeak
    <3>4. CASE w'.job = NoJob
      <4>1. w.job = NoJob \/ Kind \in {"scan", "cleanup"}
        BY <1>1, <2>4, <3>4 DEF Finish, ReadClipToNote, RecordFailure, WriteTimesOut, CleanupFails, ReadRow, Raising, At,
           WorkerInv, ConsumerInStep, NoJobPcs, WorkerStates
      <4> QED BY <1>1, <1>2, <2>1, <3>1, <3>4, <4>1 DEF TempsInStep, NoTempLeak
    <3> QED BY <3>2, <3>3, <3>4
  <2>5. CASE Loop \/ Cleanup \/ Abort \/ Stopped \/ Crash
    <3>1. temp' = {} /\ w'.job = NoJob
      <4>1. CASE Loop
        BY <1>1, <1>2, <4>1 DEF Loop, At, fileVars, WorkerInv, ConsumerInStep, NoJobPcs, WorkerStates
      <4>2. CASE Cleanup \/ Abort
        BY <1>2, <4>2 DEF Cleanup, Abort, IdleWorker, TempsInStep, NoTempLeak
      <4>3. CASE Stopped \/ Crash
        BY <1>2, <4>3 DEF Stopped, Crash, TempsInStep
      <4> QED BY <2>5, <4>1, <4>2, <4>3
    <3> QED BY <1>2, <2>1, <3>1 DEF TempsInStep, NoTempLeak
  <2>6. CASE OthersStep
    <3>1. w.job = NoJob \/ Kind' = Kind
      BY <2>6, JobInHandStays DEF OthersStep
    <3> QED BY <1>1, <1>2, <2>1, <2>6, <3>1 DEF OthersStep, TempsInStep, NoTempLeak
  <2> QED BY <2>2, <2>3, <2>4, <2>5, <2>6, ConsumerSteps
<1>3. CASE host' # host \/ host.stops # 0
  <2>1. host'.stops > 0
    <3>1. host.stops \in Nat /\ host \in [state: {"up", "stopping", "down"}, stops: Nat]
      BY DEF WorkerInv, TypeOK
    <3>2. CASE Shutdown \/ Stopped \/ Crash \/ Start
      BY <3>1, <3>2 DEF Shutdown, Stopped, Crash, Start, Alive, TempsInStep
    <3>3. CASE host' = host
      BY <1>3, <3>1, <3>3
    <3>4. ASSUME ~(Shutdown \/ Stopped \/ Crash \/ Start)
          PROVE  host' = host
      <4>1. CASE TryBlock
        BY <4>1, TryEffect
      <4>2. CASE ~TryBlock
        BY <3>4, <4>2, ConsumerSteps DEF Claim, Finish, Loop, ReadClipToNote, RecordFailure, Cleanup,
           WriteTimesOut, CleanupFails, Abort, OthersStep, hostVars
      <4> QED BY <4>1, <4>2
    <3> QED BY <3>2, <3>3, <3>4
  <2> QED BY <2>1 DEF TempsInStep, NoTempLeak
<1> QED BY <1>2, <1>3

-----------------------------------------------------------------------------
(* Published results.                                                      *)

\* A file is never counted as published less often than before.
LEMMA PublishedGrows ==
  ASSUME WorkerInv, [Next]_vars
  PROVE  \/ published' = published
         \/ Publish /\ published' = [published EXCEPT ![w.job] = @ + 1]
<1>1. CASE TryBlock
  BY <1>1 DEF TryBlock, MakeTemp, Prepare, Poll, Tick, ProcessExits, Deadline, NextPhase, NoteNoProgress,
     Judge, Validate, Publish, ReadClip, Record, Raise, Except, Sweep, WorkerScanRead, WorkerScanCommit,
     fileVars
<1>2. CASE ~TryBlock
  BY <1>2, ConsumerSteps DEF Claim, Finish, Loop, ReadClipToNote, RecordFailure, Cleanup, WriteTimesOut, CleanupFails,
     Abort, Stopped, Crash, OthersStep, fileVars
<1> QED BY <1>1, <1>2

\* The job in hand becomes successful only by a scan, a sweep or its publication.
LEMMA TrySucceeds ==
  ASSUME WorkerInv, KindsInStep, TryBlock
  PROVE  /\ w'.pc \in {"published", "record"} => Publish \/ w.pc = "published"
         /\ w'.result = "succeeded" =>
              w.result = "succeeded" \/ w.pc = "record" \/ Kind \in {"scan", "cleanup"}
<1> w \in WorkerStates
  BY DEF WorkerInv, TypeOK
<1>1. CASE MakeTemp \/ Raise
  BY <1>1 DEF MakeTemp, Raise, Raising, WorkerStates, At
<1>2. CASE Prepare \/ Poll \/ Tick
  BY <1>2 DEF Prepare, Poll, Tick, WorkerStates
<1>3. CASE ProcessExits \/ Deadline \/ NextPhase \/ NoteNoProgress
  BY <1>3 DEF ProcessExits, Deadline, NextPhase, NoteNoProgress, WorkerStates
<1>4. CASE Judge \/ Validate
  BY <1>4 DEF Judge, Validate, FailAttempt, Settle, Raising, WorkerStates
<1>5. CASE Publish \/ ReadClip \/ Record
  BY <1>5 DEF Publish, ReadClip, ReadRow, Record, Settle, WorkerStates, At
<1>6. CASE Except \/ Sweep
  BY <1>6 DEF Except, Sweep, Settle, Raising, WorkerStates, At, KindsInStep
<1>7. CASE WorkerScanRead \/ WorkerScanCommit
  BY <1>7 DEF WorkerScanRead, WorkerScanCommit, WorkerStates, At, KindsInStep
<1> QED BY <1>1, <1>2, <1>3, <1>4, <1>5, <1>6, <1>7 DEF TryBlock

\* A row becomes successful only when _finish writes that outcome.
LEMMA SucceedsByFinish ==
  ASSUME WorkerInv, [Next]_vars, NEW j \in Jobs, job'[j].state = "succeeded"
  PROVE  job[j].state = "succeeded" \/ (Finish /\ w.result = "succeeded" /\ j = w.job)
<1> TypeOK /\ QueueTypeOK
  BY DEF WorkerInv, TypeOK
<1>1. CASE TryBlock /\ \E c \in BOOLEAN : Wrote("running", c)
  <2>1. w.pc \notin NoJobPcs /\ "running" \in JobStates
    BY <1>1, TryEffect DEF Holding, NoJobPcs, JobStates, Active
  <2> QED BY <1>1, <2>1, HeldFacts, WroteEffect
<1>2. CASE Finish /\ \E c \in BOOLEAN : Wrote(w.result, c)
  <2>1. w.pc \notin NoJobPcs /\ w.result \in JobStates
    BY <1>2 DEF Finish, At, NoJobPcs, WorkerInv, ConsumerInStep, Terminal, JobStates, Active
  <2> QED BY <1>2, <2>1, HeldFacts, WroteEffect
<1>3. ASSUME NEW k \in Jobs, ClaimNext(k)
      PROVE  job[j].state = "succeeded"
  BY <1>3, ClaimKeepsRows
<1>4. ASSUME NEW i \in Jobs, NEW r \in JobRows, Inserts(i, r)
      PROVE  job[j].state = "succeeded"
  BY <1>4 DEF Inserts, QueueTypeOK
<1>5. CASE Cancels
  BY <1>5 DEF Cancels
<1>6. CASE RecoverInterrupted
  BY <1>6, RecoverKeeps
<1> QED BY <1>1, <1>2, <1>3, <1>4, <1>5, <1>6, TableSteps

LEMMA PublishedNext ==
  ASSUME WorkerInv, KindsInStep, PublishedInStep, [Next]_vars
  PROVE  PublishedInStep'
<1> w \in WorkerStates /\ published \in [Jobs -> Nat]
  BY DEF WorkerInv, TypeOK
<1>1. \A j \in Jobs : published[j] > 0 => published'[j] > 0
  BY PublishedGrows
<1>2. w.pc \in {"published", "record"} => w.job # NoJob
  BY DEF WorkerInv, ConsumerInStep, NoJobPcs
<1>3. SuccessWasPublished'
  <2> SUFFICES ASSUME NEW j \in Jobs, job'[j].state = "succeeded", job'[j].kind \in {"compile", "edit"}
               PROVE  published[j] > 0
    BY <1>1 DEF SuccessWasPublished
  <2>1. CASE job[j].state = "succeeded"
    BY <2>1, RowsStay DEF Keeps, PublishedInStep, SuccessWasPublished
  <2>2. CASE Finish /\ w.result = "succeeded" /\ j = w.job
    <3>1. job[j].state # "none" /\ w.job # NoJob
      BY <2>2 DEF Finish, At, WorkerInv, ConsumerInStep, NoJobPcs
    <3> QED BY <2>2, <3>1, RowsStay DEF Keeps, PublishedInStep, Kind
  <2> QED BY <2>1, <2>2, SucceedsByFinish
<1>4. ASSUME w'.job = w.job, w.job # NoJob,
             w'.pc \in {"published", "record"} => w.pc \in {"published", "record"},
             w'.result = "succeeded" => w.result = "succeeded"
      PROVE  PublishedInStep'
  BY <1>1, <1>3, <1>4, JobInHandStays DEF PublishedInStep
<1>5. CASE TryBlock
  <2>1. w'.job = w.job /\ w.job # NoJob /\ w.job \in Jobs
    BY <1>5, TryEffect, HeldFacts, WorkerAssumption DEF MovesOn, Holding, NoJobPcs
  <2>2. Kind' = Kind
    BY <2>1, JobInHandStays
  <2>3. Publish => published'[w.job] > 0
    BY <2>1 DEF Publish
  <2> QED BY <1>1, <1>3, <1>5, <2>1, <2>2, <2>3, TrySucceeds DEF PublishedInStep
<1>6. CASE Claim \/ Loop \/ Cleanup \/ Abort \/ Stopped \/ Crash
  <2>1. /\ w'.pc \notin {"published", "record"}
        /\ w'.job = NoJob \/ w'.result = "none"
    <3>1. CASE Loop
      BY <3>1 DEF Loop, At, WorkerInv, ConsumerInStep, NoJobPcs, WorkerStates
    <3>2. CASE Cleanup \/ Abort \/ Stopped \/ Crash
      BY <3>2 DEF Cleanup, Abort, Stopped, Crash, IdleWorker
    <3>3. CASE Claim
      BY <3>3, ClaimedJob DEF IdleWorker
    <3> QED BY <1>6, <3>1, <3>2, <3>3
  <2> QED BY <1>3, <2>1 DEF PublishedInStep
<1>7. CASE Finish \/ ReadClipToNote \/ RecordFailure \/ WriteTimesOut \/ CleanupFails
  <2>1. CASE w'.job = w.job /\ w.job # NoJob
    <3>1. /\ w'.pc \notin {"published", "record"}
          /\ w'.result = "succeeded" => w.result = "succeeded"
      BY <1>7, <2>1, AfterFinish DEF IdleWorker
    <3> QED BY <1>4, <2>1, <3>1
  <2>2. CASE w'.job = NoJob
    <3>1. w'.pc \notin {"published", "record"}
      BY <1>7, AfterFinish DEF IdleWorker
    <3> QED BY <1>3, <2>2, <3>1 DEF PublishedInStep
  <2>3. w'.job = w.job \/ w'.job = NoJob
    BY <1>7, AfterFinish DEF IdleWorker
  <2> QED BY <2>1, <2>2, <2>3
<1>8. CASE OthersStep
  <2>1. CASE w.job = NoJob
    <3>1. w'.job = NoJob /\ w'.pc \notin {"published", "record"}
      BY <1>2, <1>8, <2>1 DEF OthersStep
    <3> QED BY <1>3, <3>1 DEF PublishedInStep
  <2>2. CASE w.job # NoJob
    BY <1>4, <1>8, <2>2 DEF OthersStep
  <2> QED BY <2>1, <2>2
<1> QED BY <1>5, <1>6, <1>7, <1>8, ConsumerSteps

-----------------------------------------------------------------------------
(* Compiled outputs.                                                       *)

\* A step that promises no more of a clip's compiled file than the row does.
KeepsPromise(c) ==
  /\ clip'[c].out = clip[c].out
  /\ clip'[c].state = "ready" => clip[c].state = "ready" \/ clip[c].out

\* A transaction that sets a state of its own leaves the promise as it is.
LEMMA SetClipKeepsPromise ==
  ASSUME QueueTypeOK, NEW d, NEW s \in ClipStates \ {"ready"},
         clip' = clip \/ clip' = SetClip(d, s), NEW c \in Clips
  PROVE  KeepsPromise(c)
BY DEF QueueTypeOK, SetClip, ClipRows, KeepsPromise

LEMMA UpdateKeepsPromise ==
  ASSUME QueueTypeOK, NEW j, NEW s, NEW a, NEW x, Update(j, s, a, x), NEW c \in Clips
  PROVE  KeepsPromise(c)
<1>1. \E d, t : t \in ClipStates \ {"ready"} /\ (clip' = clip \/ clip' = SetClip(d, t))
  BY DEF Update, Withdrawn, ClipStates
<1> QED BY <1>1, SetClipKeepsPromise

LEMMA ClaimKeepsPromise ==
  ASSUME QueueTypeOK, NEW j, ClaimNext(j), NEW c \in Clips
  PROVE  KeepsPromise(c)
BY SetClipKeepsPromise DEF ClaimNext, ClipStates

LEMMA EnqueueKeepsPromise ==
  ASSUME QueueTypeOK, NEW j, NEW r, Enqueue(j, r) \/ Persist(j, r), NEW c \in Clips
  PROVE  KeepsPromise(c)
BY SetClipKeepsPromise DEF Enqueue, Persist, ClipStates, queueVars

LEMMA CancelKeepsPromise ==
  ASSUME QueueTypeOK, RequestCancelAll \/ \E j \in Jobs : RequestCancel(j), NEW c \in Clips
  PROVE  KeepsPromise(c)
<1>1. CASE RequestCancelAll
  <2>1. clip'[c] = clip[c] \/ clip'[c] = [clip[c] EXCEPT !.state = Withdrawn(c)]
    BY <1>1 DEF RequestCancelAll
  <2>2. Withdrawn(c) # "ready" /\ clip[c] \in ClipRows
    BY DEF Withdrawn, QueueTypeOK
  <2> QED BY <2>1, <2>2 DEF KeepsPromise, ClipRows
<1>2. ASSUME NEW j \in Jobs, RequestCancel(j)
      PROVE  KeepsPromise(c)
  <2>1. \E d, t : t \in ClipStates \ {"ready"} /\ (clip' = clip \/ clip' = SetClip(d, t))
    BY <1>2 DEF RequestCancel, Withdrawn, ClipStates, queueVars
  <2> QED BY <2>1, SetClipKeepsPromise
<1> QED BY <1>1, <1>2

\* A scan makes ready only what was read as ready or available, and that it still is.
LEMMA ScanKeepsPromise ==
  ASSUME QueueTypeOK, NEW r, NEW v, ScanCommit(r, v), ReadHolds(r), NEW c \in Clips
  PROVE  KeepsPromise(c)
<1>1. \A seen, out, fp, valid :
        /\ ScannedClip(seen, out, fp, valid).out = out
        /\ ScannedClip(seen, out, fp, valid).state = "ready" => seen.out \/ seen.state = "ready"
  BY DEF ScannedClip
<1>2. MissingClip(clip[c]).out = clip[c].out /\ MissingClip(clip[c]).state = "deleted"
  BY DEF MissingClip, QueueTypeOK, ClipRows
<1>3. CASE c = r.clip
  <2>1. clip'[c] = ScannedClip(r.seen, clip[c].out, r.rev, c \in v)
    BY <1>3 DEF ScanCommit
  <2> QED BY <1>1, <1>3, <2>1 DEF ReadHolds, KeepsPromise
<1>4. CASE c # r.clip /\ c \in missing
  <2>1. clip'[c] = MissingClip(clip[c])
    BY <1>4 DEF ScanCommit
  <2> QED BY <1>2, <2>1 DEF KeepsPromise
<1>5. CASE c # r.clip /\ c \notin missing
  <2>1. clip'[c] = ScannedClip(clip[c], clip[c].out, source[c], c \in v)
    BY <1>5 DEF ScanCommit
  <2> QED BY <1>1, <2>1 DEF KeepsPromise
<1> QED BY <1>3, <1>4, <1>5

\* Only the record of a finished compile job promises more than the row did.
LEMMA PromisesKept ==
  ASSUME WorkerInv, OutputsInStep, [Next]_vars, NEW c \in Clips
  PROVE  KeepsPromise(c) \/ (Record /\ Kind = "compile" /\ c = Target /\ clip'[c].out)
<1> TypeOK /\ QueueTypeOK /\ w \in WorkerStates
  BY DEF WorkerInv, TypeOK
<1>1. CASE clip' = clip
  BY <1>1 DEF KeepsPromise
<1>2. CASE Prepare \/ Tick \/ ProcessExits \/ NoteNoProgress \/ Judge \/ Validate
  BY <1>1, <1>2, UpdateKeepsPromise DEF Prepare, Tick, ProcessExits, NoteNoProgress, Judge, Validate,
     SaveProgress, queueVars
<1>3. CASE Finish
  BY <1>3, UpdateKeepsPromise DEF Finish
<1>4. CASE Record
  BY <1>4 DEF Record, KeepsPromise, QueueTypeOK, ClipRows
<1>5. CASE RecordFailure
  BY <1>5 DEF RecordFailure, KeepsPromise, QueueTypeOK, ClipRows
<1>6. CASE WorkerScanCommit
  BY <1>1, <1>6, ScanKeepsPromise DEF WorkerScanCommit, OutputsInStep
<1>7. CASE Claim
  BY <1>1, <1>7, ClaimKeepsPromise DEF Claim, queueVars
<1>8. ASSUME NEW h \in Handlers, MarkStale(h) \/ RequestScanCommit(h) \/ Insert(h) \/ Store(h)
      PROVE  KeepsPromise(c)
  <2>1. CASE MarkStale(h)
    BY <2>1, SetClipKeepsPromise DEF MarkStale, ClipStates
  <2>2. CASE RequestScanCommit(h)
    <3>1. ReadHolds(req[h].read)
      BY DEF OutputsInStep
    <3>2. clip' = clip => KeepsPromise(c)
      BY DEF KeepsPromise
    <3> QED BY <2>2, <3>1, <3>2, ScanKeepsPromise DEF RequestScanCommit
  <2>3. CASE Insert(h) \/ Store(h)
    BY <2>3, EnqueueKeepsPromise DEF Insert, Store
  <2> QED BY <1>8, <2>1, <2>2, <2>3
<1>9. CASE SubmitCleanup \/ \E d \in Clips, skip \in BOOLEAN : CompileStaleOnly(d, skip)
  BY <1>9, EnqueueKeepsPromise DEF SubmitCleanup, CompileStaleOnly
<1>10. CASE (\E j \in Jobs : Cancel(j)) \/ CancelAll \/ Shutdown
  BY <1>1, <1>10, CancelKeepsPromise DEF Cancel, CancelAll, Shutdown, Running, queueVars
<1>11. CASE MakeTemp \/ Poll \/ Deadline \/ NextPhase \/ Publish \/ ReadClip \/ Raise \/ Except \/ Sweep
            \/ WorkerScanRead \/ Loop \/ ReadClipToNote \/ Cleanup \/ WriteTimesOut \/ CleanupFails \/ Abort
  BY <1>1, <1>11 DEF MakeTemp, Poll, Deadline, NextPhase, Publish, ReadClip, Raise, Except, Sweep,
     WorkerScanRead, Loop, ReadClipToNote, Cleanup, WriteTimesOut, CleanupFails, Abort, queueVars
<1>12. ASSUME NEW h \in Handlers, Handle(h), ~(MarkStale(h) \/ RequestScanCommit(h) \/ Insert(h) \/ Store(h))
       PROVE  clip' = clip
  BY <1>12 DEF Handle, SubmitCompile, SubmitRecompile, SubmitEdit, SubmitScan, CheckActive,
     RequestScanRead, BuildCompile, Refuse, FindDuplicate, queueVars
<1>13. CASE \/ Stopped \/ Crash \/ Start \/ (\E d \in Clips : ReplaceSource(d) \/ HideSource(d))
            \/ UNCHANGED vars
  BY <1>1, <1>13 DEF Stopped, Crash, Start, RecoverInterrupted, ReplaceSource, HideSource, queueVars, vars
<1>14. CASE \E h \in Handlers : Handle(h)
  BY <1>1, <1>8, <1>12, <1>14
<1> QED BY <1>2, <1>3, <1>4, <1>5, <1>6, <1>7, <1>9, <1>10, <1>11, <1>13, <1>14 DEF Next, Consume

\* A compiled file, once there, is only replaced by another.
LEMMA OutputsStay ==
  ASSUME WorkerInv, OutputsInStep, [Next]_vars
  PROVE  /\ \A c \in Clips : output[c] # 0 => output'[c] # 0
         /\ Publish /\ Kind = "compile" => output'[Target] # 0
<1> w \in WorkerStates /\ output \in [Clips -> Nat]
  BY DEF WorkerInv, TypeOK
<1>1. CASE Publish
  <2>1. w.made # 0 /\ Target \in Clips
    BY <1>1, HeldFacts DEF Publish, At, OutputsInStep, MadeInStep, NoJobPcs, ClipPcs
  <2> QED BY <1>1, <2>1 DEF Publish
<1>2. CASE ~Publish
  <2>1. CASE TryBlock
    BY <1>2, <2>1 DEF TryBlock, MakeTemp, Prepare, Poll, Tick, ProcessExits, Deadline, NextPhase, NoteNoProgress,
       Judge, Validate, ReadClip, Record, Raise, Except, Sweep, WorkerScanRead, WorkerScanCommit,
       fileVars
  <2>2. CASE ~TryBlock
    <3>1. output' = output
      BY <2>2, ConsumerSteps DEF Claim, Finish, Loop, ReadClipToNote, RecordFailure, Cleanup, WriteTimesOut, CleanupFails,
         Abort, Stopped, Crash, OthersStep, fileVars
    <3> QED BY <1>2, <3>1
  <2> QED BY <1>2, <2>1, <2>2
<1> QED BY <1>1, <1>2

\* A row that is read outside the transaction in which it is written: its promise
\* is that of the table, and no later step takes it back.
LEMMA ReadsHold ==
  ASSUME WorkerInv, OutputsInStep, [Next]_vars
  PROVE  /\ ReadHolds(NoRead)'
         /\ \A r : ReadHolds(r) => \/ r.clip \notin Clips \/ ~(r.seen.out \/ r.seen.state = "ready")
                                   \/ clip'[r.clip].out
         /\ \A r \in FirstReads : ReadHolds(r)
         /\ \A c \in Clips : ReadHolds([clip |-> c, seen |-> clip[c], rev |-> 0])
<1>1. \A c \in Clips : clip[c].out => clip'[c].out
  BY PromisesKept DEF KeepsPromise
<1>2. NoRead.clip \notin Clips
  BY QueueAssumption DEF NoRead
<1>3. \A n : \A c \in Clips : ReadHolds([clip |-> c, seen |-> clip[c], rev |-> n])
  BY DEF ReadHolds, OutputsInStep, AvailableOutputExists
<1> QED BY <1>1, <1>2, <1>3 DEF ReadHolds, FirstReads

\* The row the consumer has read is the one it had, none, or fresh.
LEMMA ConsumerReads ==
  ASSUME WorkerInv, [Next]_vars
  PROVE  \/ w'.read = w.read \/ w'.read = NoRead \/ w'.read \in FirstReads
         \/ Target \in Clips /\ w'.read = [clip |-> Target, seen |-> clip[Target], rev |-> 0]
<1> w \in WorkerStates
  BY DEF WorkerInv, TypeOK
<1>1. CASE MakeTemp \/ Raise \/ Prepare \/ Poll \/ Tick
  BY <1>1 DEF MakeTemp, Raise, Prepare, Poll, Tick, Raising, WorkerStates
<1>2. CASE ProcessExits \/ Deadline \/ NextPhase \/ NoteNoProgress
  BY <1>2 DEF ProcessExits, Deadline, NextPhase, NoteNoProgress, WorkerStates
<1>3. CASE Judge \/ Validate \/ Except \/ Sweep \/ Record
  BY <1>3 DEF Judge, Validate, Except, Sweep, Record, FailAttempt, Settle, Raising, WorkerStates
<1>4. CASE Publish \/ WorkerScanRead \/ WorkerScanCommit
  BY <1>4 DEF Publish, WorkerScanRead, WorkerScanCommit, WorkerStates
<1>5. CASE ReadClip \/ ReadClipToNote
  <2>1. Target \in Clips
    BY <1>5, HeldFacts DEF ReadClip, ReadClipToNote, At, NoJobPcs, ClipPcs
  <2>2. w'.read = [clip |-> Target, seen |-> clip[Target], rev |-> 0]
    BY <1>5 DEF ReadClip, ReadClipToNote, ReadRow, WorkerStates
  <2> QED BY <2>1, <2>2
<1>6. CASE TryBlock
  BY <1>1, <1>2, <1>3, <1>4, <1>5, <1>6 DEF TryBlock
<1>7. CASE Claim
  BY <1>7, ClaimedJob DEF IdleWorker
<1>8. CASE Finish \/ RecordFailure \/ WriteTimesOut \/ CleanupFails
  BY <1>5, <1>8, AfterFinish DEF IdleWorker
<1>9. CASE Loop \/ Cleanup \/ Abort \/ Stopped \/ Crash \/ OthersStep
  BY <1>9 DEF Loop, Cleanup, Abort, Stopped, Crash, OthersStep, IdleWorker, WorkerStates
<1> QED BY <1>5, <1>6, <1>7, <1>8, <1>9, ConsumerSteps

LEMMA RequestReads ==
  ASSUME WorkerInv, [Next]_vars, NEW h \in Handlers
  PROVE  req'[h].read = req[h].read \/ req'[h].read = NoRead \/ req'[h].read \in FirstReads
<1> TypeOK /\ req \in [Handlers -> Requests]
  BY DEF WorkerInv, TypeOK
<1>1. ASSUME NEW g \in Handlers, Handle(g)
      PROVE  req'[h].read = req[h].read \/ req'[h].read = NoRead \/ req'[h].read \in FirstReads
  <2>1. ASSUME NEW q, req' = [req EXCEPT ![g] = q],
               q.read = req[g].read \/ q.read = NoRead \/ q.read \in FirstReads
        PROVE  req'[h].read = req[h].read \/ req'[h].read = NoRead \/ req'[h].read \in FirstReads
    BY <2>1
  <2>2. CASE \E c \in Clips, skip \in BOOLEAN : SubmitCompile(g, c, skip)
    <3>1. PICK c \in Clips, skip \in BOOLEAN, r \in FirstReads :
            req' = [req EXCEPT ![g] = [IdleReq EXCEPT !.pc = "scanning", !.clip = c, !.skip = skip,
                                                      !.read = r]]
      BY <2>2 DEF SubmitCompile
    <3> DEFINE q == [IdleReq EXCEPT !.pc = "scanning", !.clip = c, !.skip = skip, !.read = r]
    <3>2. q.read = r
      BY DEF IdleReq
    <3> HIDE DEF q
    <3> QED BY <2>1, <3>1, <3>2 DEF q
  <2>3. CASE \/ \E c \in Clips : SubmitRecompile(g, c) \/ SubmitEdit(g, c)
             \/ SubmitScan(g) \/ BuildCompile(g)
    <3>1. ASSUME NEW k, NEW c, NEW f, BuildJob(g, k, c, f)
          PROVE  req'[h].read = req[h].read \/ req'[h].read = NoRead
      BY <3>1 DEF BuildJob, IdleReq
    <3>2. ASSUME Return(g) \/ Goto(g, "refused")
          PROVE  req'[h].read = req[h].read \/ req'[h].read = NoRead
      BY <3>2 DEF Return, Goto, IdleReq, Requests
    <3>3. ASSUME NEW c \in Clips, SubmitRecompile(g, c)
          PROVE  req'[h].read = req[h].read \/ req'[h].read = NoRead
      BY <3>3 DEF SubmitRecompile, IdleReq
    <3> QED BY <2>3, <3>1, <3>2, <3>3 DEF SubmitEdit, SubmitScan, BuildCompile
  <2>4. CASE MarkStale(g) \/ CheckActive(g) \/ Refuse(g) \/ Insert(g) \/ FindDuplicate(g) \/ Store(g)
    BY <2>4 DEF MarkStale, CheckActive, Refuse, Insert, FindDuplicate, Store, Return, Goto, IdleReq,
       Requests
  <2>5. CASE RequestScanRead(g) \/ RequestScanCommit(g)
    BY <2>5 DEF RequestScanRead, RequestScanCommit, Requests
  <2> QED BY <1>1, <2>2, <2>3, <2>4, <2>5 DEF Handle
<1>2. CASE Crash
  BY <1>2 DEF Crash, IdleReq
<1>3. ASSUME ~Crash, ~\E g \in Handlers : Handle(g)
      PROVE  req' = req
  <2>1. CASE TryBlock
    BY <2>1, TryEffect
  <2>2. CASE ~TryBlock
    BY <1>3, <2>2 DEF Next, Consume, TryBlock, Claim, Finish, Loop, ReadClipToNote, RecordFailure, Cleanup,
       WriteTimesOut, CleanupFails, Abort, CompileStaleOnly, SubmitCleanup, Cancel, CancelAll, Shutdown, Stopped,
       Start, ReplaceSource, HideSource, httpVars, vars
  <2> QED BY <2>1, <2>2
<1> QED BY <1>1, <1>2, <1>3

\* A process that ended well has read its clip's file.
LEMMA TryMakes ==
  ASSUME WorkerInv, OutputsInStep, TryBlock
  PROVE  MadeInStep'
<1> /\ w \in WorkerStates /\ w.made \in Nat /\ w.began \in Nat
    /\ output \in [Clips -> Nat] /\ source \in [Clips -> Nat]
  BY DEF WorkerInv, TypeOK, WorkerStates
<1>1. w.pc \notin NoJobPcs /\ w'.job = w.job /\ w.job # NoJob
  BY TryEffect, HeldFacts, WorkerAssumption DEF MovesOn, Holding, NoJobPcs
<1>2. Kind' = Kind /\ Target' = Target
  BY <1>1, JobInHandStays DEF Next, Consume, TryBlock
<1>3. OutputsInStep => MadeInStep
  BY DEF OutputsInStep
<1>4. CASE MakeTemp \/ Raise \/ Except \/ Sweep \/ WorkerScanRead \/ WorkerScanCommit
  BY <1>4 DEF MakeTemp, Raise, Raising, Except, Settle, Sweep, WorkerScanRead, WorkerScanCommit,
     MadeInStep, WorkerStates
<1>5. CASE Prepare
  BY <1>5 DEF Prepare, MadeInStep, WorkerStates
<1>6. CASE Poll \/ Tick \/ Deadline
  BY <1>3, <1>6 DEF Poll, Tick, Deadline, At, MadeInStep, WorkerStates
<1>7. CASE ProcessExits
  <2>1. source[Target] \in Nat
    BY <1>1, <1>7, HeldFacts DEF ProcessExits, At, ClipPcs
  <2>2. \A r \in w.began .. source[Target] : w.began > 0 => r > 0
    BY <2>1
  <2>3. w.phase \in {"analysis", "encode", "final"} /\ (w.phase = "final" => w.made > 0)
    BY <1>3, <1>7 DEF ProcessExits, At, MadeInStep, WorkerStates, Phases
  <2>4. CASE w' = [w EXCEPT !.pc = "exited", !.began = 0, !.result = "failed"]
    BY <2>4 DEF MadeInStep, WorkerStates
  <2>5. CASE w.phase # "encode" /\ w' = [w EXCEPT !.pc = "exited", !.began = 0, !.result = "ok"]
    BY <2>3, <2>5 DEF MadeInStep, WorkerStates
  <2>6. ASSUME NEW r \in w.began .. source[Target], w.began > 0,
               w' = [w EXCEPT !.pc = "exited", !.began = 0, !.result = "ok", !.made = r]
        PROVE  MadeInStep'
    <3>1. r > 0 /\ w'.pc = "exited" /\ w'.made = r
      BY <2>2, <2>6 DEF WorkerStates
    <3> QED BY <3>1 DEF MadeInStep
  <2> QED BY <1>7, <2>4, <2>5, <2>6 DEF ProcessExits
<1>8. CASE NextPhase
  BY <1>3, <1>8 DEF NextPhase, At, MadeInStep, WorkerStates
<1>9. CASE NoteNoProgress \/ Judge
  <2>1. CASE NoteNoProgress
    BY <1>3, <2>1 DEF NoteNoProgress, At, MadeInStep, WorkerStates
  <2>2. CASE Settle("cancelled") \/ FailAttempt
    BY <2>2 DEF FailAttempt, Settle, Raising, MadeInStep, WorkerStates
  <2>3. CASE /\ Judge /\ w.result = "ok" /\ w.phase # "analysis"
             /\ w' = [w EXCEPT !.pc = "validate", !.phase = "encode", !.result = "none"]
    BY <1>3, <2>3 DEF Judge, At, MadeInStep, WorkerStates
  <2> QED BY <1>9, <2>1, <2>2, <2>3 DEF Judge
<1>10. CASE Validate
  BY <1>3, <1>10 DEF Validate, FailAttempt, Settle, Raising, At, MadeInStep, WorkerStates
<1>11. CASE Publish
  <2>1. w'.pc = "published"
    BY <1>11 DEF Publish, WorkerStates
  <2>2. Kind = "compile" => output'[Target] # 0
    BY <1>11, OutputsStay DEF Next, Consume
  <2> QED BY <1>2, <2>1, <2>2 DEF MadeInStep
<1>12. CASE ReadClip \/ Record
  <2>1. output' = output
    BY <1>12 DEF ReadClip, Record, fileVars
  <2>2. w'.pc = "finish" \/ (w'.pc = "record" /\ w.pc = "published")
    BY <1>12 DEF ReadClip, ReadRow, Record, Settle, At, WorkerStates
  <2> QED BY <1>2, <1>3, <2>1, <2>2 DEF MadeInStep
<1> QED
  BY <1>4, <1>5, <1>6, <1>7, <1>8, <1>9, <1>10, <1>11, <1>12 DEF TryBlock

LEMMA MadeNext ==
  ASSUME WorkerInv, OutputsInStep, [Next]_vars
  PROVE  MadeInStep'
<1> w \in WorkerStates
  BY DEF WorkerInv, TypeOK
<1> DEFINE making == {"validate", "publish", "poll", "wait", "exited", "judged", "published", "record"}
<1>1. CASE TryBlock
  BY <1>1, TryMakes
<1>2. CASE Claim \/ Loop \/ Cleanup \/ Abort \/ Stopped \/ Crash
  <2>1. w'.pc \notin making
    <3>1. CASE Loop \/ Cleanup \/ Abort \/ Stopped \/ Crash
      BY <3>1 DEF Loop, Cleanup, Abort, Stopped, Crash, IdleWorker, WorkerStates
    <3>2. CASE Claim
      BY <3>2, ClaimedJob DEF IdleWorker
    <3> QED BY <1>2, <3>1, <3>2
  <2> QED BY <2>1 DEF MadeInStep
<1>3. CASE Finish \/ ReadClipToNote \/ RecordFailure \/ WriteTimesOut \/ CleanupFails
  <2>1. w'.pc \notin making
    BY <1>3, AfterFinish DEF IdleWorker
  <2> QED BY <2>1 DEF MadeInStep
<1>4. CASE OthersStep
  <2>1. w' = w /\ output' = output /\ MadeInStep
    BY <1>4 DEF OthersStep, OutputsInStep
  <2>2. w.pc \in making => Kind' = Kind /\ Target' = Target
    BY <2>1, JobInHandStays DEF WorkerInv, ConsumerInStep, NoJobPcs
  <2> QED BY <2>1, <2>2 DEF MadeInStep
<1> QED BY <1>1, <1>2, <1>3, <1>4, ConsumerSteps

LEMMA OutputsNext ==
  ASSUME WorkerInv, OutputsInStep, [Next]_vars
  PROVE  OutputsInStep'
<1>1. AvailableOutputExists'
  <2> SUFFICES ASSUME NEW c \in Clips, (clip'[c].out \/ clip'[c].state = "ready")
               PROVE  clip'[c].out /\ output'[c] # 0
    BY DEF AvailableOutputExists
  <2>1. CASE KeepsPromise(c)
    BY <2>1, OutputsStay DEF KeepsPromise, OutputsInStep, AvailableOutputExists
  <2>2. CASE Record /\ Kind = "compile" /\ c = Target /\ clip'[c].out
    BY <2>2, OutputsStay DEF Record, At, OutputsInStep, MadeInStep
  <2> QED BY <2>1, <2>2, PromisesKept
<1> DEFINE Still(r) == \/ r.clip \notin Clips \/ ~(r.seen.out \/ r.seen.state = "ready")
                       \/ clip'[r.clip].out
<1>2. /\ \A r : ReadHolds(r) => Still(r)
      /\ \A r \in FirstReads : ReadHolds(r)
      /\ \A c \in Clips : ReadHolds([clip |-> c, seen |-> clip[c], rev |-> 0])
  BY ReadsHold
<1>3. \A r : r = NoRead => Still(r)
  BY QueueAssumption DEF NoRead
<1> HIDE DEF Still
<1>4. ReadHolds(w.read)'
  <2>1. PICK r : r = w'.read
    OBVIOUS
  <2>2. r = w.read => ReadHolds(r)
    BY DEF OutputsInStep
  <2>3. \/ r = w.read \/ r = NoRead \/ r \in FirstReads
        \/ \E c \in Clips : r = [clip |-> c, seen |-> clip[c], rev |-> 0]
    BY <2>1, ConsumerReads
  <2>4. Still(r)
    BY <1>2, <1>3, <2>2, <2>3
  <2> QED BY <2>1, <2>4 DEF ReadHolds, Still
<1>5. ASSUME NEW h \in Handlers
      PROVE  ReadHolds(req[h].read)'
  <2>1. PICK r : r = req'[h].read
    OBVIOUS
  <2>2. r = req[h].read => ReadHolds(r)
    BY DEF OutputsInStep
  <2>3. \/ r = req[h].read \/ r = NoRead \/ r \in FirstReads
    BY <2>1, RequestReads
  <2>4. Still(r)
    BY <1>2, <1>3, <2>2, <2>3
  <2> QED BY <2>1, <2>4 DEF ReadHolds, Still
<1> QED BY <1>1, <1>4, <1>5, MadeNext DEF OutputsInStep

-----------------------------------------------------------------------------
(* The invariant of the Worker's files.                                    *)

FilesInStep == KindsInStep /\ TempsInStep /\ PublishedInStep /\ OutputsInStep

LEMMA InitFiles == Init => FilesInStep
<1> SUFFICES ASSUME Init PROVE FilesInStep
  OBVIOUS
<1>1. /\ w.pc = "idle" /\ w.job = NoJob /\ w.read = NoRead /\ w.result = "none"
      /\ temp = {} /\ host.state = "up"
  BY DEF Init, IdleWorker
<1>2. \A j \in Jobs : job[j].state = "none"
  BY DEF Init, QueueInit, NoRow
<1>3. \A c \in Clips : ~clip[c].out /\ clip[c].state # "ready"
  BY DEF Init, QueueInit
<1>4. \A h \in Handlers : req[h].read = NoRead
  BY DEF Init, IdleReq
<1>5. NoRead.clip \notin Clips
  BY QueueAssumption DEF NoRead
<1>6. KindsInStep /\ TempsInStep
  BY <1>1 DEF KindsInStep, TempsInStep, NoTempLeak, EncodingPcs, ClipPcs
<1>7. PublishedInStep
  BY <1>1, <1>2 DEF PublishedInStep, SuccessWasPublished
<1>8. OutputsInStep
  BY <1>1, <1>3, <1>4, <1>5 DEF OutputsInStep, AvailableOutputExists, MadeInStep, ReadHolds
<1> QED BY <1>6, <1>7, <1>8 DEF FilesInStep

\* The consumer's branches, directories, publications and copies of rows stay in
\* step with the tables and the files in every reachable state.
THEOREM FilesInvariant == Spec => []FilesInStep
<1>1. WorkerInv /\ FilesInStep /\ [Next]_vars => FilesInStep'
  BY KindsNext, TempsNext, PublishedNext, OutputsNext DEF FilesInStep
<1> QED BY <1>1, InitFiles, WorkerInvariant, PTL DEF Spec

\* As long as the process has not been stopped, no directory of an ended job is left
\* under the temporary root, whatever raised in run_once.
THEOREM NoDirectoryLeaks == Spec => []NoTempLeak
<1>1. FilesInStep => NoTempLeak
  BY DEF FilesInStep, TempsInStep
<1> QED BY <1>1, FilesInvariant, PTL

\* A compile or edit job that is reported successful has replaced its target file,
\* across retries, crashes, restarts and writes that time out.
THEOREM SuccessIsPublished == Spec => []SuccessWasPublished
<1>1. FilesInStep => SuccessWasPublished
  BY DEF FilesInStep, PublishedInStep
<1> QED BY <1>1, FilesInvariant, PTL

\* A clip offered as playable has a compiled file, although scans, requests and jobs
\* write rows that they have read before.
THEOREM OfferedClipsExist == Spec => []AvailableOutputExists
<1>1. FilesInStep => AvailableOutputExists
  BY DEF FilesInStep, OutputsInStep
<1> QED BY <1>1, FilesInvariant, PTL

-----------------------------------------------------------------------------
(* Edits.  The directory of an interrupted edit protects its source file   *)
(* until the edit has failed because of it: every cleanup job waits behind *)
(* the edit.  A write that times out can remove the directory of an edit   *)
(* whose row is still running, so this part needs writes that do not.      *)

\* Rows appear only by an INSERT.
LEMMA RowsAppear ==
  ASSUME WorkerInv, [Next]_vars
  PROVE  \/ \A j \in Jobs : job'[j].state # "none" => job[j].state # "none"
         \/ \E i \in Jobs, r \in JobRows : Inserts(i, r)
<1> TypeOK /\ QueueTypeOK
  BY DEF WorkerInv, TypeOK
<1>1. ASSUME w.pc \notin NoJobPcs, NEW s \in JobStates, NEW c \in BOOLEAN, Wrote(s, c)
      PROVE  \A j \in Jobs : job'[j].state # "none" => job[j].state # "none"
  BY <1>1, HeldFacts, WroteEffect
<1>2. CASE TryBlock /\ \E c \in BOOLEAN : Wrote("running", c)
  <2>1. w.pc \notin NoJobPcs /\ "running" \in JobStates
    BY <1>2, TryEffect DEF Holding, NoJobPcs, JobStates, Active
  <2> QED BY <1>1, <1>2, <2>1
<1>3. CASE Finish /\ \E c \in BOOLEAN : Wrote(w.result, c)
  <2>1. w.pc \notin NoJobPcs /\ w.result \in JobStates
    BY <1>3 DEF Finish, At, NoJobPcs, WorkerInv, ConsumerInStep, Terminal, JobStates, Active
  <2> QED BY <1>1, <1>3, <2>1
<1>4. ASSUME NEW k \in Jobs, ClaimNext(k)
      PROVE  \A j \in Jobs : job'[j].state # "none" => job[j].state # "none"
  BY <1>4, ClaimKeepsRows, ClaimEffect
<1>5. CASE Cancels
  BY <1>5 DEF Cancels
<1>6. CASE RecoverInterrupted
  BY <1>6, RecoverKeeps
<1> QED BY <1>2, <1>3, <1>4, <1>5, <1>6, TableSteps

\* A record built for a request is no cleanup job.
Builds(r) == Built(r) /\ r.kind # "cleanup"

\* A request that has a record to insert has had it, or has built it just now.
LEMMA RecordsBuilt ==
  ASSUME WorkerInv, [Next]_vars
  PROVE  /\ clock' = clock \/ clock' = clock + 1
         /\ \A h \in Handlers : Inserting(h)' =>
              \/ Inserting(h) /\ req'[h].row = req[h].row
              \/ Builds(req'[h].row)
<1> TypeOK /\ req \in [Handlers -> Requests] /\ clock \in Nat
  BY DEF WorkerInv, TypeOK
<1> DEFINE Becomes(h) == Inserting(h)' =>
              \/ Inserting(h) /\ req'[h].row = req[h].row
              \/ Builds(req'[h].row)
<1>1. ASSUME NEW g \in Handlers, Handle(g)
      PROVE  (clock' = clock \/ clock' = clock + 1) /\ \A h \in Handlers : Becomes(h)
  <2>1. ASSUME NEW q, req' = [req EXCEPT ![g] = q],
               \/ q.pc \notin {"insert", "store"}
               \/ Inserting(g) /\ q.row = req[g].row
        PROVE  \A h \in Handlers : Becomes(h)
    BY <2>1 DEF Inserting
  <2>2. CASE \E c \in Clips, skip \in BOOLEAN : SubmitCompile(g, c, skip)
    <3>1. PICK c \in Clips, skip \in BOOLEAN, r \in FirstReads :
            /\ req' = [req EXCEPT ![g] = [IdleReq EXCEPT !.pc = "scanning", !.clip = c, !.skip = skip,
                                                         !.read = r]]
            /\ clock' = clock
      BY <2>2 DEF SubmitCompile
    <3> DEFINE q == [IdleReq EXCEPT !.pc = "scanning", !.clip = c, !.skip = skip, !.read = r]
    <3>2. q.pc = "scanning"
      BY DEF IdleReq
    <3> HIDE DEF q
    <3> QED BY <2>1, <3>1, <3>2 DEF q
  <2>3. ASSUME NEW k \in Kinds \ {"cleanup"}, NEW c \in Clips \cup {NoClip}, NEW f \in Nat,
               k = "compile" => c \in Clips /\ f = clip[c].fp, BuildJob(g, k, c, f)
        PROVE  clock' = clock + 1 /\ \A h \in Handlers : Becomes(h)
    <3> DEFINE r == NewJob(k, c, f, clock + 1)
    <3>1. r.created = clock + 1 /\ r.kind = k /\ r.clip = c /\ r.fp = f
      BY DEF NewJob, NoRow
    <3> HIDE DEF r
    <3>2. PICK j \in Jobs :
            req' = [req EXCEPT ![g] = [IdleReq EXCEPT !.pc = "insert", !.clip = c, !.id = j,
                                         !.recompile = req[g].recompile, !.row = r]]
      BY <2>3 DEF BuildJob, FreshIds, r
    <3>3. clock' = clock + 1
      BY <2>3 DEF BuildJob
    <3>4. req'[g].row = r /\ \A h \in Handlers : h # g => req'[h] = req[h]
      BY <3>2 DEF IdleReq
    <3>5. Builds(r)
      BY <2>3, <3>1, <3>3 DEF Builds, Built
    <3> QED BY <3>3, <3>4, <3>5 DEF Inserting
  <2>4. CASE \/ \E c \in Clips : SubmitRecompile(g, c) \/ SubmitEdit(g, c)
             \/ SubmitScan(g) \/ BuildCompile(g)
    <3>1. CASE (\E c \in Clips : SubmitEdit(g, c)) \/ SubmitScan(g)
      BY <2>3, <3>1 DEF SubmitEdit, SubmitScan, Kinds
    <3>2. ASSUME NEW c \in Clips, SubmitRecompile(g, c)
          PROVE  clock' = clock /\ \A h \in Handlers : Becomes(h)
      <4>1. PICK p \in {"check", "mark"} :
              /\ req' = [req EXCEPT ![g] = [IdleReq EXCEPT !.pc = p, !.clip = c, !.recompile = TRUE]]
              /\ clock' = clock
        BY <3>2 DEF SubmitRecompile
      <4> DEFINE q == [IdleReq EXCEPT !.pc = p, !.clip = c, !.recompile = TRUE]
      <4>2. q.pc = p
        BY DEF IdleReq
      <4> HIDE DEF q
      <4> QED BY <2>1, <4>1, <4>2 DEF q
    <3>3. CASE BuildCompile(g)
      <4>1. req[g].clip \in Clips /\ clip[req[g].clip].fp \in Nat
        BY <3>3 DEF BuildCompile, InRequest, WorkerInv, RequestsInStep, TypeOK, QueueTypeOK, ClipRows
      <4>2. CASE BuildJob(g, "compile", req[g].clip, clip[req[g].clip].fp)
        BY <2>3, <4>1, <4>2 DEF Kinds
      <4>3. CASE (Return(g) \/ Goto(g, "refused")) /\ clock' = clock
        BY <2>1, <4>3 DEF Return, Goto, IdleReq, Inserting, Requests
      <4> QED BY <3>3, <4>2, <4>3 DEF BuildCompile
    <3> QED BY <2>4, <3>1, <3>2, <3>3
  <2>5. CASE MarkStale(g) \/ CheckActive(g) \/ Refuse(g) \/ Insert(g) \/ FindDuplicate(g) \/ Store(g)
    <3>1. clock' = clock
      BY <2>5 DEF MarkStale, CheckActive, Refuse, Insert, FindDuplicate, Store
    <3>2. ASSUME Return(g) \/ (\E p \in {"check", "scan"} : Goto(g, p))
                   \/ (Goto(g, "store") /\ req[g].pc = "insert")
          PROVE  \A h \in Handlers : Becomes(h)
      BY <3>2 DEF Return, Goto, IdleReq, Inserting, Requests
    <3> QED BY <2>5, <3>1, <3>2 DEF MarkStale, CheckActive, Refuse, Insert, FindDuplicate, Store,
          InRequest
  <2>6. CASE RequestScanRead(g) \/ RequestScanCommit(g)
    BY <2>6 DEF RequestScanRead, RequestScanCommit, Requests, Inserting
  <2> QED BY <1>1, <2>2, <2>4, <2>5, <2>6 DEF Handle
<1>2. CASE Crash
  BY <1>2 DEF Crash, IdleReq, Inserting
<1>3. ASSUME ~Crash, ~\E g \in Handlers : Handle(g)
      PROVE  req' = req /\ (clock' = clock \/ clock' = clock + 1)
  <2>1. CASE TryBlock
    BY <2>1 DEF TryBlock, MakeTemp, Prepare, Poll, Tick, ProcessExits, Deadline, NextPhase, NoteNoProgress,
       Judge, Validate, Publish, ReadClip, Record, Raise, Except, Sweep, WorkerScanRead, WorkerScanCommit,
       httpVars
  <2>2. CASE ~TryBlock
    BY <1>3, <2>2 DEF Next, Consume, TryBlock, Claim, Finish, Loop, ReadClipToNote, RecordFailure, Cleanup,
       WriteTimesOut, CleanupFails, Abort, CompileStaleOnly, SubmitCleanup, Cancel, CancelAll, Shutdown, Stopped,
       Start, ReplaceSource, HideSource, httpVars, vars
  <2> QED BY <2>1, <2>2
<1> QED BY <1>1, <1>2, <1>3 DEF Inserting

LEMMA AgesNext ==
  ASSUME WorkerInv, Ages, [Next]_vars
  PROVE  Ages'
<1> /\ TypeOK /\ QueueTypeOK /\ clock \in Nat
    /\ \A j \in Jobs : job[j].created \in Nat
    /\ \A h \in Handlers : req[h].row.created \in Nat
  BY DEF WorkerInv, TypeOK, QueueTypeOK, JobRows, Requests
<1>1. CASE \A j \in Jobs : job'[j].state # "none" => job[j].state # "none"
  <2>1. \A j \in Jobs : job'[j].state # "none" =>
          /\ job[j].state # "none" /\ job'[j].created = job[j].created /\ job'[j].kind = job[j].kind
    BY <1>1, RowsStay DEF Keeps
  <2> QED BY <2>1, RecordsBuilt DEF Ages, Builds, Built
<1>2. ASSUME NEW i \in Jobs, NEW r \in JobRows, Inserts(i, r)
      PROVE  Ages'
  <2>1. job'[i] = r /\ \A j \in Jobs : j # i => job'[j] = job[j]
    BY <1>2 DEF Inserts, QueueTypeOK
  <2>2. CASE req' = req /\ r.created = clock + 1 /\ clock' = clock + 1
    BY <2>1, <2>2 DEF Ages, Inserting
  <2>3. ASSUME NEW h \in Handlers, req[h].pc \in {"insert", "store"}, req[h].row = r,
               req' = [req EXCEPT ![h] = IdleReq], clock' = clock
        PROVE  Ages'
    <3>1. r.created <= clock /\ r.kind # "cleanup"
      BY <2>3 DEF Ages, Inserting
    <3>2. \A g \in Handlers : Inserting(g)' => Inserting(g) /\ req'[g].row = req[g].row
      BY <2>3 DEF Inserting, IdleReq, TypeOK
    <3>3. \A k \in Jobs : job[k].state # "none" /\ job[k].kind = "cleanup" => r.created # job[k].created
      BY <2>3 DEF Ages, Inserting
    <3> QED BY <2>1, <2>3, <3>1, <3>2, <3>3 DEF Ages
  <2>4. \/ req' = req /\ r.created = clock + 1 /\ clock' = clock + 1
        \/ \E h \in Handlers : /\ req[h].pc \in {"insert", "store"} /\ req[h].row = r
                               /\ req' = [req EXCEPT ![h] = IdleReq] /\ clock' = clock
    BY <1>2 DEF Inserts, Built
  <2> QED BY <2>2, <2>3, <2>4
<1> QED BY <1>1, <1>2, RowsAppear

\* Without writes that time out no row leaves its outcome, and run_once is left only
\* with the outcome of its job written.
LEMMA EndedStay ==
  ASSUME WorkerInv, ~DbTimeouts, HoldsRunning, [Next]_vars, NEW j \in Jobs
  PROVE  /\ job[j].state \in Terminal => job'[j].state = job[j].state
         /\ job[j].state = "running" /\ job'[j].state \in Terminal =>
              Start \/ (Finish /\ j = w.job)
<1> TypeOK /\ QueueTypeOK
  BY DEF WorkerInv, TypeOK
<1> "running" \notin Terminal /\ "queued" \notin Terminal /\ "none" \notin Terminal
  BY DEF Terminal
<1>1. ASSUME w.pc \in Holding, NEW s \in JobStates, NEW c \in BOOLEAN, Wrote(s, c)
      PROVE  /\ job[w.job].state = "running" /\ job'[w.job].state = s
             /\ j # w.job => job'[j] = job[j]
  <2>1. w.pc \notin NoJobPcs
    BY <1>1 DEF Holding, NoJobPcs
  <2> QED BY <1>1, <2>1, HeldFacts, WroteEffect DEF HoldsRunning
<1>2. CASE TryBlock /\ \E c \in BOOLEAN : Wrote("running", c)
  <2>1. w.pc \in Holding /\ "running" \in JobStates
    BY <1>2, TryEffect DEF JobStates, Active
  <2> QED BY <1>1, <1>2, <2>1
<1>3. CASE Finish /\ \E c \in BOOLEAN : Wrote(w.result, c)
  <2>1. w.pc \in Holding /\ w.result \in JobStates
    BY <1>3 DEF Finish, At, Holding, Pcs, WorkerInv, ConsumerInStep, Terminal, JobStates, Active
  <2> QED BY <1>1, <1>3, <2>1
<1>4. ASSUME NEW k \in Jobs, ClaimNext(k)
      PROVE  /\ job[j].state \in Terminal => job'[j].state = job[j].state
             /\ ~(job[j].state = "running" /\ job'[j].state \in Terminal)
  BY <1>4, ClaimKeepsRows, ClaimEffect
<1>5. ASSUME NEW i \in Jobs, NEW r \in JobRows, Inserts(i, r)
      PROVE  /\ job[j].state \in Terminal => job'[j].state = job[j].state
             /\ ~(job[j].state = "running" /\ job'[j].state \in Terminal)
  BY <1>5 DEF Inserts, QueueTypeOK
<1>6. CASE Cancels
  BY <1>6 DEF Cancels
<1>7. CASE Start /\ RecoverInterrupted
  BY <1>7, RecoverKeeps
<1> QED BY <1>2, <1>3, <1>4, <1>5, <1>6, <1>7, TableSteps

\* An edit whose directory is removed has ended.
EditEnded ==
  /\ w.pc \notin {"abort", "dead"}
  /\ w.pc \in {"noteread", "note", "cleanup"} /\ Kind = "edit" => job[w.job].state \in Terminal

LEMMA EditEndedNext ==
  ASSUME WorkerInv, ~DbTimeouts, HoldsRunning, KindsInStep, EditEnded, [Next]_vars
  PROVE  EditEnded'
<1> w \in WorkerStates /\ ~WriteTimesOut
  BY DEF WorkerInv, TypeOK, WriteTimesOut
<1> DEFINE late == {"abort", "dead", "noteread", "note", "cleanup"}
<1>1. CASE TryBlock \/ Loop \/ Claim \/ Cleanup \/ CleanupFails \/ Abort \/ Stopped \/ Crash
  <2>1. w'.pc \notin late
    <3>1. CASE TryBlock
      BY <3>1, TryEffect DEF MovesOn, Holding
    <3>2. CASE Claim
      BY <3>2, ClaimedJob DEF IdleWorker
    <3>3. CASE Loop \/ Cleanup \/ CleanupFails \/ Stopped \/ Crash
      BY <3>3 DEF Loop, Cleanup, CleanupFails, Stopped, Crash, IdleWorker, WorkerStates
    <3>4. CASE Abort
      BY <3>4 DEF Abort, At, EditEnded
    <3> QED BY <1>1, <3>1, <3>2, <3>3, <3>4
  <2> QED BY <2>1 DEF EditEnded
<1>2. CASE Finish
  <2>1. /\ w.pc \in Holding /\ w.pc \notin NoJobPcs
        /\ w.result \in Terminal \cup {"queued"}
    BY <1>2 DEF Finish, At, Holding, Pcs, NoJobPcs, WorkerInv, ConsumerInStep
  <2>2. w.job \in Jobs /\ w.job # NoJob /\ w.result \in JobStates
    BY <2>1, HeldFacts, WorkerAssumption DEF JobStates, Active, Terminal
  <2>3. CASE w' = IdleWorker
    BY <2>3 DEF EditEnded, IdleWorker
  <2>4. CASE w'.job = w.job /\ w'.pc \in {"noteread", "cleanup"}
    <3>1. Kind' = Kind
      BY <2>2, <2>4, JobInHandStays
    <3>2. Kind = "edit" => w.result \in Terminal
      BY <2>1, <2>2 DEF KindsInStep
    <3>3. job'[w.job].state = w.result
      <4>1. PICK c \in BOOLEAN : Update(w.job, w.result, w.attempt, c)
        <5>1. (IF w.result = "queued" THEN w.cancel ELSE w.result = "cancelled") \in BOOLEAN
          BY DEF WorkerStates
        <5> QED BY <1>2, <5>1 DEF Finish
      <4> QED BY <2>2, <4>1 DEF Update, WorkerInv, TypeOK, QueueTypeOK, JobRows
    <3> QED BY <2>4, <3>1, <3>2, <3>3 DEF EditEnded
  <2>5. w' = IdleWorker \/ (w'.job = w.job /\ w'.pc \in {"noteread", "cleanup"})
    BY <1>2 DEF Finish, WorkerStates
  <2> QED BY <2>3, <2>4, <2>5
<1>3. CASE ReadClipToNote \/ RecordFailure \/ OthersStep
  <2>1. w'.job = w.job /\ w'.pc \notin {"abort", "dead"}
    BY <1>3 DEF ReadClipToNote, RecordFailure, ReadRow, OthersStep, EditEnded, WorkerStates
  <2>2. w'.pc \in {"noteread", "note", "cleanup"} => w.pc \in {"noteread", "note", "cleanup"}
    BY <1>3 DEF ReadClipToNote, RecordFailure, OthersStep, At
  <2>3. w.pc \in {"noteread", "note", "cleanup"} => w.job # NoJob /\ w.job \in Jobs
    BY HeldFacts, WorkerAssumption DEF NoJobPcs
  <2> QED BY <2>1, <2>2, <2>3, JobInHandStays, EndedStay DEF EditEnded
<1> QED BY <1>1, <1>2, <1>3, ConsumerSteps

\* A cleanup job runs only when no edit has begun, so no sweep removes the directory
\* of an edit that waits to be started again.
LEMMA SweepFindsNoEdit ==
  ASSUME WorkerInv, HoldsRunning, KindsInStep, EditsInStep, NEW j \in Jobs, Begun(j)
  PROVE  w.pc # "sweep"
<1> SUFFICES ASSUME w.pc = "sweep" PROVE FALSE
  OBVIOUS
<1>1. w.job \in Jobs /\ job[w.job].state = "running" /\ job[w.job].kind = "cleanup"
  BY HeldFacts DEF HoldsRunning, KindsInStep, Kind, Holding, Pcs, NoJobPcs
<1> QED BY <1>1 DEF EditsInStep, Active

\* An edit begins when it is claimed; it has begun until it ends.
LEMMA Beginnings ==
  ASSUME WorkerInv, ~DbTimeouts, HoldsRunning, EditsInStep, [Next]_vars, NEW j \in Jobs, Begun(j)'
  PROVE  \/ Begun(j) /\ job'[j].created = job[j].created
         \/ /\ Claim /\ ClaimNext(j) /\ published[j] = 0 /\ published' = published
            /\ job[j].kind = "edit" /\ job'[j].created = job[j].created
<1> TypeOK /\ QueueTypeOK /\ published \in [Jobs -> Nat]
  BY DEF WorkerInv, TypeOK
<1>1. job[j].state # "none"
  <2> SUFFICES ASSUME job[j].state = "none" PROVE FALSE
    OBVIOUS
  <2>1. published[j] = 0
    BY DEF EditsInStep
  <2>2. w.job # j \/ ~Publish
    BY DEF Publish, At, WorkerInv, ConsumerInStep, NoJobPcs
  <2>3. published'[j] = 0
    BY <2>1, <2>2, PublishedGrows DEF Publish
  <2>4. job'[j].state = "running"
    BY <2>3 DEF Begun
  <2>5. \E i \in Jobs, r \in JobRows : Inserts(i, r)
    BY <2>4, RowsAppear
  <2> QED BY <2>4, <2>5 DEF Inserts, QueueTypeOK
<1>2. Keeps(j)
  BY <1>1, RowsStay
<1>3. job[j].state \notin Terminal
  BY EndedStay DEF Begun, Terminal
<1>4. CASE job[j].state = "running"
  BY <1>2, <1>4 DEF Keeps, Begun
<1>5. CASE job[j].state = "queued"
  <2>1. w.pc \in Holding => j # w.job
    BY <1>5 DEF HoldsRunning
  <2>2. published'[j] = published[j]
    <3>1. Publish => w.pc \in Holding
      BY DEF Publish, At, Holding, Pcs
    <3> QED BY <2>1, <3>1, PublishedGrows
  <2>3. CASE published[j] > 0
    BY <1>2, <1>5, <2>3 DEF Keeps, Begun
  <2>4. CASE published[j] = 0
    <3>1. job'[j].state = "running"
      BY <2>2, <2>4 DEF Begun
    <3>2. Claim /\ ClaimNext(j)
      <4>1. ASSUME w.pc \in Holding, NEW s \in JobStates, NEW c \in BOOLEAN, Wrote(s, c)
            PROVE  FALSE
        <5>1. w.pc \notin NoJobPcs
          BY <4>1 DEF Holding, NoJobPcs
        <5> QED BY <1>5, <2>1, <3>1, <4>1, <5>1, HeldFacts, WroteEffect
      <4>2. CASE TryBlock /\ \E c \in BOOLEAN : Wrote("running", c)
        BY <4>1, <4>2, TryEffect DEF JobStates, Active
      <4>3. CASE Finish /\ \E c \in BOOLEAN : Wrote(w.result, c)
        BY <4>1, <4>3 DEF Finish, At, Holding, Pcs, WorkerInv, ConsumerInStep, Terminal, JobStates, Active
      <4>4. ASSUME NEW k \in Jobs, ClaimNext(k) PROVE ClaimNext(j)
        BY <1>5, <3>1, <4>4, ClaimKeepsRows
      <4>5. ASSUME NEW i \in Jobs, NEW r \in JobRows, Inserts(i, r) PROVE FALSE
        BY <1>5, <3>1, <4>5 DEF Inserts, QueueTypeOK
      <4>6. CASE Cancels
        BY <1>5, <3>1, <4>6 DEF Cancels
      <4>7. CASE RecoverInterrupted
        BY <1>5, <3>1, <4>7, RecoverKeeps
      <4> QED BY <1>5, <3>1, <4>2, <4>3, <4>4, <4>5, <4>6, <4>7, TableSteps
    <3>3. published' = published
      BY <3>2 DEF Claim, fileVars
    <3> QED BY <1>2, <2>4, <3>2, <3>3 DEF Keeps, Begun
  <2> QED BY <2>3, <2>4
<1> QED BY <1>1, <1>3, <1>4, <1>5 DEF QueueTypeOK, JobRows, JobStates, Active, Terminal

\* Which steps remove a directory.
LEMMA DirectoriesStay ==
  ASSUME WorkerInv, ~DbTimeouts, HoldsRunning, KindsInStep, EditsInStep, EditEnded, [Next]_vars,
         NEW j \in temp, Begun(j)
  PROVE  j \in temp'
<1> temp \subseteq Jobs
  BY DEF WorkerInv, TypeOK
<1>1. CASE TryBlock
  BY <1>1, TryTemp, SweepFindsNoEdit
<1>2. CASE Cleanup
  <2>1. w.job \in Jobs /\ w.pc = "cleanup"
    BY <1>2, HeldFacts DEF Cleanup, At, NoJobPcs
  <2>2. Kind = "edit" => job[w.job].state \in Terminal
    BY <2>1 DEF EditEnded
  <2>3. j # w.job
    BY <2>1, <2>2 DEF Begun, Kind, Terminal
  <2> QED BY <1>2, <2>3 DEF Cleanup
<1>3. ~Abort
  BY DEF Abort, At, EditEnded
<1>4. CASE ~(TryBlock \/ Cleanup)
  BY <1>3, <1>4, ConsumerSteps DEF Claim, Finish, Loop, ReadClipToNote, RecordFailure,
     WriteTimesOut, CleanupFails, Stopped, Crash, OthersStep, fileVars
<1> QED BY <1>1, <1>2, <1>4

\* A row that is active was active before, or is new, or waits.
LEMMA ActiveRows ==
  ASSUME WorkerInv, ~DbTimeouts, HoldsRunning, [Next]_vars, NEW k \in Jobs, job'[k].state \in Active
  PROVE  \/ \E r \in JobRows : Inserts(k, r)
         \/ /\ job[k].state \in Active /\ Keeps(k)
            /\ job[k].state = "queued" => job'[k].state = "queued" \/ (Claim /\ ClaimNext(k))
<1> TypeOK /\ QueueTypeOK
  BY DEF WorkerInv, TypeOK
<1>1. CASE job[k].state = "none"
  <2>1. PICK i \in Jobs, r \in JobRows : Inserts(i, r)
    BY <1>1, RowsAppear DEF Active
  <2>2. i = k
    BY <1>1, <2>1 DEF Inserts, QueueTypeOK, Active
  <2> QED BY <2>1, <2>2
<1>2. CASE job[k].state # "none"
  <2>1. Keeps(k)
    BY <1>2, RowsStay
  <2>2. job[k].state \in Active
    BY <1>2, EndedStay DEF Active, Terminal, QueueTypeOK, JobRows, JobStates
  <2>3. ASSUME job[k].state = "queued", job'[k].state = "running"
        PROVE  Claim /\ ClaimNext(k)
    <3>1. w.pc \in Holding => k # w.job
      BY <2>3 DEF HoldsRunning
    <3>2. ASSUME w.pc \in Holding, NEW s \in JobStates, NEW c \in BOOLEAN, Wrote(s, c)
          PROVE  FALSE
      <4>1. w.pc \notin NoJobPcs
        BY <3>2 DEF Holding, NoJobPcs
      <4> QED BY <2>3, <3>1, <3>2, <4>1, HeldFacts, WroteEffect
    <3>3. CASE TryBlock /\ \E c \in BOOLEAN : Wrote("running", c)
      BY <3>2, <3>3, TryEffect DEF JobStates, Active
    <3>4. CASE Finish /\ \E c \in BOOLEAN : Wrote(w.result, c)
      BY <3>2, <3>4 DEF Finish, At, Holding, Pcs, WorkerInv, ConsumerInStep, Terminal, JobStates, Active
    <3>5. ASSUME NEW i \in Jobs, ClaimNext(i) PROVE ClaimNext(k)
      BY <2>3, <3>5, ClaimKeepsRows
    <3>6. ASSUME NEW i \in Jobs, NEW r \in JobRows, Inserts(i, r) PROVE FALSE
      BY <2>3, <3>6 DEF Inserts, QueueTypeOK
    <3>7. CASE Cancels
      BY <2>3, <3>7 DEF Cancels
    <3>8. CASE RecoverInterrupted
      BY <2>3, <3>8, RecoverKeeps
    <3> QED BY <2>3, <3>3, <3>4, <3>5, <3>6, <3>7, <3>8, TableSteps
  <2> QED BY <2>1, <2>2, <2>3 DEF Active
<1> QED BY <1>1, <1>2

\* The cleanup jobs that an edit in progress has behind it.
LEMMA CleanupsBehind ==
  ASSUME WorkerInv, ~DbTimeouts, HoldsRunning, Ages, EditsInStep, [Next]_vars,
         NEW j \in Jobs, NEW k \in Jobs, Begun(j)', job'[k].kind = "cleanup", job'[k].state \in Active
  PROVE  job'[k].state = "queued" /\ job'[k].created > job'[j].created
<1> /\ TypeOK /\ QueueTypeOK /\ clock \in Nat
    /\ \A i \in Jobs : job[i].created \in Nat
  BY DEF WorkerInv, TypeOK, QueueTypeOK, JobRows
<1>1. job[j].state # "none" /\ job[j].kind = "edit"
  BY Beginnings, ClaimEffect DEF Begun
<1>2. ASSUME NEW r \in JobRows, Inserts(k, r)
      PROVE  job'[k].state = "queued" /\ job'[k].created > job'[j].created
  <2>1. job'[k] = r /\ r.state = "queued" /\ r.kind = "cleanup" /\ job'[j] = job[j]
    BY <1>1, <1>2 DEF Inserts, QueueTypeOK
  <2>2. r.created = clock + 1
    <3>1. \A h \in Handlers : req[h].pc \in {"insert", "store"} => req[h].row # r
      BY <2>1 DEF Ages, Inserting
    <3> QED BY <1>2, <3>1 DEF Inserts, Built
  <2>3. job[j].created <= clock
    BY <1>1 DEF Ages
  <2> QED BY <2>1, <2>2, <2>3
<1>3. CASE /\ job[k].state \in Active /\ Keeps(k)
           /\ job[k].state = "queued" => job'[k].state = "queued" \/ (Claim /\ ClaimNext(k))
  <2>1. job[k].kind = "cleanup" /\ job'[k].created = job[k].created /\ job[k].state # "none"
    BY <1>3 DEF Keeps, Active
  <2>2. CASE Begun(j) /\ job'[j].created = job[j].created
    <3>1. job[k].state = "queued" /\ job[k].created > job[j].created
      BY <1>3, <2>1, <2>2 DEF EditsInStep
    <3>2. ~ClaimNext(k)
      <4> SUFFICES ASSUME ClaimNext(k) PROVE FALSE
        OBVIOUS
      <4>1. job[j].state = "queued" => job[k].created <= job[j].created
        BY DEF ClaimNext, Claimable
      <4>2. job[j].state # "running"
        BY DEF ClaimNext, Claimable, Running
      <4> QED BY <2>2, <3>1, <4>1, <4>2 DEF Begun
    <3> QED BY <1>3, <2>1, <2>2, <3>1, <3>2
  <2>3. CASE ClaimNext(j) /\ job'[j].created = job[j].created
    <3>1. job[k].state = "queued"
      BY <1>3, <2>3 DEF ClaimNext, Claimable, Running, Active
    <3>2. job[j].created <= job[k].created
      BY <2>3, <3>1 DEF ClaimNext, Claimable
    <3>3. job[j].created # job[k].created
      BY <1>1, <2>1 DEF Ages
    <3>4. k # j
      BY <1>1, <2>1
    <3>5. job'[k] = job[k]
      BY <2>3, <3>4, ClaimKeepsRows
    <3> QED BY <2>1, <2>3, <3>1, <3>2, <3>3, <3>5
  <2> QED BY <2>2, <2>3, Beginnings
<1> QED BY <1>2, <1>3, ActiveRows

LEMMA EditsNext ==
  ASSUME WorkerInv, ~DbTimeouts, HoldsRunning, KindsInStep, Ages, EditsInStep, EditEnded, [Next]_vars
  PROVE  EditsInStep'
<1> /\ TypeOK /\ QueueTypeOK /\ published \in [Jobs -> Nat] /\ temp \subseteq Jobs
    /\ w \in WorkerStates
  BY DEF WorkerInv, TypeOK
<1>1. ASSUME Publish
      PROVE  /\ w.job \in Jobs /\ w.pc = "publish" /\ job[w.job].state = "running"
             /\ w'.pc = "published" /\ w'.job = w.job /\ temp' = temp
             /\ Kind = "edit" => w.job \in temp /\ published[w.job] = 0
             /\ \A j \in Jobs : j # w.job => published'[j] = published[j]
             /\ published'[w.job] = published[w.job] + 1
  <2>1. w.pc = "publish" /\ w.pc \notin NoJobPcs /\ w.pc \in Holding
    BY <1>1 DEF Publish, At, NoJobPcs, Holding, Pcs
  <2>2. w.job \in Jobs
    BY <2>1, HeldFacts
  <2> QED BY <1>1, <2>1, <2>2 DEF Publish, HoldsRunning, WorkerStates, EditsInStep, EncodingPcs, ClipPcs
<1>2. ASSUME NEW j \in Jobs, job'[j].kind = "edit"
      PROVE  published'[j] <= 1
  <2>1. CASE job[j].state = "none"
    <3>1. published[j] = 0
      BY <2>1 DEF EditsInStep
    <3>2. published'[j] = published[j]
      BY <1>1, <2>1, PublishedGrows
    <3> QED BY <3>1, <3>2
  <2>2. CASE job[j].state # "none"
    <3>1. job[j].kind = "edit" /\ published[j] <= 1
      BY <1>2, <2>2, RowsStay DEF Keeps, EditsInStep, EditAppliedOnce
    <3>2. CASE published'[j] = published[j]
      BY <3>1, <3>2
    <3>3. CASE Publish /\ j = w.job
      <4>1. published[j] = 0 /\ published'[j] = published[j] + 1
        BY <1>1, <3>1, <3>3 DEF Kind
      <4> QED BY <4>1
    <3> QED BY <1>1, <3>2, <3>3, PublishedGrows
  <2> QED BY <2>1, <2>2
<1>3. ASSUME NEW j \in Jobs, job'[j].state = "none"
      PROVE  published'[j] = 0
  <2>1. job[j].state = "none" /\ published[j] = 0
    BY <1>3, RowsStay DEF EditsInStep
  <2> QED BY <1>1, <2>1, PublishedGrows
<1>4. ASSUME NEW j \in Jobs, Begun(j)', published'[j] > 0
      PROVE  j \in temp'
  <2>1. CASE published[j] > 0
    <3>1. Begun(j)
      BY <1>4, <2>1, Beginnings
    <3>2. j \in temp
      BY <2>1, <3>1 DEF EditsInStep
    <3> QED BY <3>1, <3>2, DirectoriesStay
  <2>2. CASE published[j] = 0
    <3>1. Publish /\ j = w.job
      BY <1>1, <1>4, <2>2, PublishedGrows
    <3>2. Keeps(j)
      BY <1>1, <3>1, RowsStay
    <3>3. Kind = "edit"
      BY <1>4, <3>1, <3>2 DEF Begun, Keeps, Kind
    <3> QED BY <1>1, <3>1, <3>3
  <2> QED BY <2>1, <2>2
<1>5. ASSUME w'.pc \in EncodingPcs \ {"mkdir"}, Kind' = "edit"
      PROVE  /\ w'.job \in temp'
             /\ w'.pc \notin {"published", "record"} => published'[w'.job] = 0
  <2>1. CASE TryBlock
    <3>1. w.pc \in Holding /\ w'.job = w.job /\ w.job # NoJob /\ w.job \in Jobs /\ w.pc \in EncodingPcs
      BY <1>5, <2>1, TryEffect, TryKeepsKind, HeldFacts, WorkerAssumption DEF MovesOn, Holding, NoJobPcs
    <3>2. Kind = "edit" /\ job[w.job].state = "running" /\ Begun(w.job)
      BY <1>5, <3>1, JobInHandStays DEF HoldsRunning, Begun, Kind
    <3>3. CASE w.pc = "mkdir"
      <4>1. MakeTemp
        BY <2>1, <3>3 DEF TryBlock, Prepare, Poll, Tick, ProcessExits, Deadline, NextPhase,
           NoteNoProgress, Judge, Validate, Publish, ReadClip, Record, Raise, Except, Sweep,
           WorkerScanRead, WorkerScanCommit, At
      <4>2. w.job \notin temp
        <5>1. w'.pc # "except"
          BY <1>5 DEF EncodingPcs, ClipPcs
        <5>2. Raising => w'.pc = "except"
          BY DEF Raising, WorkerStates
        <5> QED BY <4>1, <5>1, <5>2 DEF MakeTemp
      <4>3. published[w.job] = 0
        BY <3>1, <3>2, <4>2 DEF EditsInStep
      <4> QED BY <3>1, <4>1, <4>2, <4>3 DEF MakeTemp
    <3>4. CASE w.pc # "mkdir"
      <4>1. w.job \in temp /\ (w.pc \notin {"published", "record"} => published[w.job] = 0)
        BY <3>1, <3>2, <3>4 DEF EditsInStep
      <4>2. w.job \in temp'
        BY <3>2, <4>1, DirectoriesStay
      <4>3. w'.pc \notin {"published", "record"} => w.pc \notin {"published", "record"}
        BY <1>5, <2>1 DEF TryBlock, MakeTemp, Prepare, Poll, Tick, ProcessExits, Deadline, NextPhase,
           NoteNoProgress, Judge, Validate, Publish, ReadClip, ReadRow, Record, Settle, Raise, Raising,
           FailAttempt, Except, Sweep, WorkerScanRead, WorkerScanCommit, At, WorkerStates, EncodingPcs, ClipPcs
      <4>4. w'.pc \notin {"published", "record"} => published' = published
        BY <1>1, PublishedGrows
      <4> QED BY <3>1, <4>1, <4>2, <4>3, <4>4
    <3> QED BY <3>3, <3>4
  <2>2. CASE Claim \/ Finish \/ Loop \/ ReadClipToNote \/ RecordFailure \/ Cleanup \/ CleanupFails
             \/ Abort \/ Stopped \/ Crash
    <3>1. w'.pc \notin EncodingPcs \ {"mkdir"}
      <4>1. CASE Claim
        BY <4>1, ClaimedJob DEF IdleWorker, EncodingPcs, ClipPcs
      <4>2. CASE Finish \/ ReadClipToNote \/ RecordFailure
        BY <4>2, AfterFinish DEF IdleWorker, EncodingPcs, ClipPcs
      <4>3. CASE Loop \/ Cleanup \/ CleanupFails \/ Abort \/ Stopped \/ Crash
        BY <4>3 DEF Loop, Cleanup, CleanupFails, Abort, Stopped, Crash, IdleWorker, EncodingPcs, ClipPcs,
           WorkerStates
      <4> QED BY <2>2, <4>1, <4>2, <4>3
    <3> QED BY <1>5, <3>1
  <2>3. CASE OthersStep
    <3>1. w.job # NoJob
      BY <1>5, <2>3 DEF OthersStep, WorkerInv, ConsumerInStep, NoJobPcs, EncodingPcs, ClipPcs
    <3>2. Kind = "edit"
      BY <1>5, <2>3, <3>1, JobInHandStays DEF OthersStep
    <3> QED BY <1>5, <2>3, <3>2 DEF OthersStep, EditsInStep
  <2>4. ~WriteTimesOut
    BY DEF WriteTimesOut
  <2> QED BY <2>1, <2>2, <2>3, <2>4, ConsumerSteps
<1> QED BY <1>2, <1>3, <1>4, <1>5, CleanupsBehind DEF EditsInStep, EditAppliedOnce

\* An edit changes its source file at most once, across crashes and restarts at any
\* step and whatever cleanup jobs are requested, while no write waits past
\* busy_timeout.
THEOREM EditsApplyOnce ==
  ASSUME ~DbTimeouts
  PROVE  Spec => []EditAppliedOnce
<1> DEFINE Inv == HoldsRunning /\ KindsInStep /\ Ages /\ EditsInStep /\ EditEnded
<1>1. Init => Inv
  <2> SUFFICES ASSUME Init PROVE Inv
    OBVIOUS
  <2>1. w.pc = "idle" /\ w.job = NoJob
    BY DEF Init, IdleWorker
  <2>2. \A j \in Jobs : job[j].state = "none" /\ published[j] = 0
    BY DEF Init, QueueInit, NoRow
  <2>3. \A h \in Handlers : req[h].pc = "idle"
    BY DEF Init, IdleReq
  <2>4. HoldsRunning /\ EditEnded /\ KindsInStep
    BY <2>1 DEF HoldsRunning, EditEnded, KindsInStep, Holding, EncodingPcs, ClipPcs
  <2>5. Ages
    BY <2>2, <2>3 DEF Ages, Inserting
  <2>6. EditsInStep
    BY <2>1, <2>2 DEF EditsInStep, EditAppliedOnce, Begun, EncodingPcs, ClipPcs
  <2> QED BY <2>4, <2>5, <2>6
<1>2. WorkerInv /\ Inv /\ [Next]_vars => Inv'
  BY HoldsRunningNext, KindsNext, AgesNext, EditsNext, EditEndedNext
<1>3. Inv => EditAppliedOnce
  BY DEF EditsInStep
<1> QED BY <1>1, <1>2, <1>3, WorkerInvariant, PTL DEF Spec

-----------------------------------------------------------------------------
(* Duplicate work.  POST /api/v1/compile ends its own transaction by its   *)
(* scan, so that two of them may store the same work; this part is about   *)
(* the other ways to a compile job.                                        *)

\* Every request in progress that may come to a compile job is one of
\* request_recompile, whose search for a duplicate and INSERT are one transaction.
RecompilesOnly ==
  \A h \in Handlers :
    /\ req[h].pc \in {"mark", "check", "scan", "scanning", "build"} => req[h].recompile
    /\ req[h].pc = "insert" /\ req[h].row.kind = "compile" => req[h].recompile
    /\ req[h].pc # "store"

LEMMA RecompilesOnlyNext ==
  ASSUME WorkerInv, "compile" \notin Ops, RecompilesOnly, [Next]_vars
  PROVE  RecompilesOnly'
<1> req \in [Handlers -> Requests]
  BY DEF WorkerInv, TypeOK
<1> DEFINE Stays(q) ==
      /\ q.pc \in {"mark", "check", "scan", "scanning", "build"} => q.recompile
      /\ q.pc = "insert" /\ q.row.kind = "compile" => q.recompile
      /\ q.pc # "store"
<1>1. ASSUME NEW g \in Handlers, Handle(g)
      PROVE  RecompilesOnly'
  <2>1. ASSUME NEW q, req' = [req EXCEPT ![g] = q], Stays(q)
        PROVE  RecompilesOnly'
    BY <2>1 DEF RecompilesOnly
  <2>2. Stays(IdleReq)
    BY DEF IdleReq
  <2>3. ASSUME NEW p \in {"check", "scan", "scanning", "build", "refused"},
               req[g].pc \in {"mark", "check", "scan", "scanning", "build"},
               NEW q, q.pc = p, q.recompile = req[g].recompile
        PROVE  Stays(q)
    BY <2>3 DEF RecompilesOnly
  <2>4. ASSUME NEW k, NEW c, NEW f, BuildJob(g, k, c, f), k = "compile" => req[g].recompile
        PROVE  RecompilesOnly'
    <3> DEFINE r == NewJob(k, c, f, clock + 1)
    <3>1. r.kind = k
      BY DEF NewJob, NoRow
    <3> HIDE DEF r
    <3>2. PICK j \in FreshIds :
            req' = [req EXCEPT ![g] = [IdleReq EXCEPT !.pc = "insert", !.clip = c, !.id = j,
                                                      !.recompile = req[g].recompile, !.row = r]]
      BY <2>4 DEF BuildJob, r
    <3>3. /\ req'[g].pc = "insert" /\ req'[g].row = r /\ req'[g].recompile = req[g].recompile
          /\ \A h \in Handlers : h # g => req'[h] = req[h]
      BY <3>2 DEF IdleReq
    <3> QED BY <2>4, <3>1, <3>3 DEF RecompilesOnly
  <2>5. CASE (\E c \in Clips : SubmitEdit(g, c)) \/ SubmitScan(g)
    BY <2>4, <2>5 DEF SubmitEdit, SubmitScan
  <2>6. ASSUME NEW c \in Clips, SubmitRecompile(g, c)
        PROVE  RecompilesOnly'
    <3>1. PICK p \in {"check", "mark"} :
            req' = [req EXCEPT ![g] = [IdleReq EXCEPT !.pc = p, !.clip = c, !.recompile = TRUE]]
      BY <2>6 DEF SubmitRecompile
    <3> DEFINE q == [IdleReq EXCEPT !.pc = p, !.clip = c, !.recompile = TRUE]
    <3>2. q.pc = p /\ q.recompile
      BY DEF IdleReq
    <3> HIDE DEF q
    <3> QED BY <2>1, <3>1, <3>2 DEF q
  <2>7. CASE BuildCompile(g)
    <3>1. req[g].pc = "build" /\ req[g].recompile
      BY <2>7 DEF BuildCompile, InRequest, RecompilesOnly
    <3>2. ASSUME Return(g) \/ Goto(g, "refused")
          PROVE  RecompilesOnly'
      BY <2>1, <2>2, <3>2 DEF Return, Goto, RecompilesOnly, Requests
    <3>3. ASSUME NEW c, NEW f, BuildJob(g, "compile", c, f)
          PROVE  RecompilesOnly'
      BY <2>4, <3>1, <3>3
    <3> QED BY <2>7, <3>2, <3>3 DEF BuildCompile
  <2>8. CASE MarkStale(g) \/ CheckActive(g) \/ RequestScanRead(g) \/ RequestScanCommit(g)
    <3>1. req[g].pc \in {"mark", "check", "scan", "scanning", "build"}
      BY <2>8 DEF MarkStale, CheckActive, RequestScanRead, RequestScanCommit, InRequest
    <3>2. req[g].recompile
      BY <3>1 DEF RecompilesOnly
    <3> QED BY <2>1, <2>2, <2>8, <3>2 DEF MarkStale, CheckActive, RequestScanRead, RequestScanCommit,
          Goto, Return, RecompilesOnly, Requests
  <2>9. CASE Refuse(g) \/ Insert(g)
    BY <2>1, <2>2, <2>9 DEF Refuse, Insert, Return
  <2>10. ~FindDuplicate(g) /\ ~Store(g)
    BY DEF FindDuplicate, Store, InRequest, Apart, RecompilesOnly
  <2>11. \A c, skip : ~SubmitCompile(g, c, skip)
    BY DEF SubmitCompile
  <2> QED BY <1>1, <2>5, <2>6, <2>7, <2>8, <2>9, <2>10, <2>11 DEF Handle
<1>2. CASE Crash
  BY <1>2 DEF Crash, IdleReq, RecompilesOnly
<1>3. ASSUME ~Crash, ~\E g \in Handlers : Handle(g)
      PROVE  req' = req
  <2>1. CASE TryBlock
    BY <2>1, TryEffect
  <2>2. CASE ~TryBlock
    BY <1>3, <2>2 DEF Next, Consume, TryBlock, Claim, Finish, Loop, ReadClipToNote, RecordFailure, Cleanup,
       WriteTimesOut, CleanupFails, Abort, CompileStaleOnly, SubmitCleanup, Cancel, CancelAll, Shutdown, Stopped,
       Start, ReplaceSource, HideSource, httpVars, vars
  <2> QED BY <2>1, <2>2
<1> QED BY <1>1, <1>2, <1>3 DEF RecompilesOnly

LEMMA NoDuplicateNext ==
  ASSUME WorkerInv, ~DbTimeouts, HoldsRunning, RecompilesOnly, NoDuplicateWork, [Next]_vars
  PROVE  NoDuplicateWork'
<1> SUFFICES ASSUME NEW j \in Jobs, NEW k \in Jobs, j \in ActiveCompiles', k \in ActiveCompiles',
                    SameWork(job'[j], job'[k]), j # k
             PROVE  FALSE
  BY DEF NoDuplicateWork, ActiveCompiles, SameWork
<1>1. job'[j].state \in Active /\ job'[k].state \in Active
  BY DEF ActiveCompiles
<1>2. ASSUME NEW i \in {j, k}, ~\E r \in JobRows : Inserts(i, r)
      PROVE  /\ job[i].state \in Active
             /\ job'[i].kind = job[i].kind /\ job'[i].clip = job[i].clip /\ job'[i].fp = job[i].fp
  BY <1>1, <1>2, ActiveRows DEF Keeps
<1>3. ASSUME NEW i \in {j, k}, NEW l \in {j, k}, i # l, NEW r \in JobRows, Inserts(i, r)
      PROVE  FALSE
  <2>1. job'[i] = r /\ job'[l] = job[l] /\ ~Duplicate(r)
    <3>1. job' = [job EXCEPT ![i] = r] /\ job \in [Jobs -> JobRows]
      BY <1>3 DEF Inserts, WorkerInv, TypeOK, QueueTypeOK
    <3>2. ~Duplicate(r)
      <4>1. LooksFirst(i, r)
        BY <1>3 DEF Inserts
      <4> QED BY <4>1 DEF LooksFirst, RecompilesOnly
    <3> QED BY <1>3, <3>1, <3>2
  <2>2. job[l].state \in Active /\ SameWork(job[l], r)
    BY <1>1, <1>3, <2>1 DEF SameWork
  <2> QED BY <2>1, <2>2 DEF Duplicate
<1>4. /\ job[j].state \in Active /\ job[k].state \in Active
      /\ job'[j].kind = job[j].kind /\ job'[j].clip = job[j].clip /\ job'[j].fp = job[j].fp
      /\ job'[k].kind = job[k].kind /\ job'[k].clip = job[k].clip /\ job'[k].fp = job[k].fp
  BY <1>2, <1>3
<1> QED BY <1>4 DEF NoDuplicateWork, ActiveCompiles, SameWork

\* Requests that recompile and requests for stale clips never queue work that is
\* queued or running already, although each looks for active jobs long before it
\* inserts its own.
THEOREM NoWorkIsQueuedTwice ==
  ASSUME ~DbTimeouts, "compile" \notin Ops
  PROVE  Spec => []NoDuplicateWork
<1> DEFINE Inv == HoldsRunning /\ RecompilesOnly /\ NoDuplicateWork
<1>1. Init => Inv
  <2> SUFFICES ASSUME Init PROVE Inv
    OBVIOUS
  <2>1. HoldsRunning
    BY DEF Init, IdleWorker, HoldsRunning, Holding
  <2>2. RecompilesOnly
    BY DEF Init, IdleReq, RecompilesOnly
  <2>3. \A j \in Jobs : job[j].state = "none"
    BY DEF Init, QueueInit, NoRow
  <2>4. NoDuplicateWork
    BY <2>3 DEF NoDuplicateWork, ActiveCompiles, Active
  <2> QED BY <2>1, <2>2, <2>4
<1>2. WorkerInv /\ Inv /\ [Next]_vars => Inv'
  BY HoldsRunningNext, RecompilesOnlyNext, NoDuplicateNext
<1>3. Inv => NoDuplicateWork
  OBVIOUS
<1> QED BY <1>1, <1>2, <1>3, WorkerInvariant, PTL DEF Spec

-----------------------------------------------------------------------------
(* Current outputs.  A request that scans outside of a transaction can     *)
(* write a ready row back that a job has outdated meanwhile, and a row of  *)
(* a file that vanishes forgets that it is stale; this part is about       *)
(* Workers without recompile requests whose files stay.                    *)

\* What a transaction that only sets states does to a row.
Plain(c) ==
  /\ clip'[c].fp = clip[c].fp
  /\ clip'[c].state \in {"ready", "deleted"} => clip'[c].state = clip[c].state

LEMMA SetClipIsPlain ==
  ASSUME QueueTypeOK, NEW d, NEW s \in ClipStates \ {"ready", "deleted"},
         clip' = clip \/ clip' = SetClip(d, s), NEW c \in Clips
  PROVE  Plain(c)
BY DEF QueueTypeOK, SetClip, ClipRows, Plain

LEMMA UpdateIsPlain ==
  ASSUME QueueTypeOK, NEW j, NEW s, NEW a, NEW x, Update(j, s, a, x), NEW c \in Clips
  PROVE  Plain(c)
<1>1. \E d, t : t \in ClipStates \ {"ready", "deleted"} /\ (clip' = clip \/ clip' = SetClip(d, t))
  BY DEF Update, Withdrawn, ClipStates
<1> QED BY <1>1, SetClipIsPlain

LEMMA EnqueueIsPlain ==
  ASSUME QueueTypeOK, NEW j, NEW r, Enqueue(j, r) \/ Persist(j, r), NEW c \in Clips
  PROVE  Plain(c)
BY SetClipIsPlain DEF Enqueue, Persist, ClipStates, queueVars

LEMMA CancelIsPlain ==
  ASSUME QueueTypeOK, RequestCancelAll \/ \E j \in Jobs : RequestCancel(j), NEW c \in Clips
  PROVE  Plain(c)
<1>1. CASE RequestCancelAll
  <2>1. clip'[c] = clip[c] \/ clip'[c] = [clip[c] EXCEPT !.state = Withdrawn(c)]
    BY <1>1 DEF RequestCancelAll
  <2>2. Withdrawn(c) \notin {"ready", "deleted"} /\ clip[c] \in ClipRows
    BY DEF Withdrawn, QueueTypeOK
  <2> QED BY <2>1, <2>2 DEF Plain, ClipRows
<1>2. ASSUME NEW j \in Jobs, RequestCancel(j)
      PROVE  Plain(c)
  <2>1. \E d, t : t \in ClipStates \ {"ready", "deleted"} /\ (clip' = clip \/ clip' = SetClip(d, t))
    BY <1>2 DEF RequestCancel, Withdrawn, ClipStates, queueVars
  <2> QED BY <2>1, SetClipIsPlain
<1> QED BY <1>1, <1>2

\* A scan keeps the state of a row that is not deleted, or the content is another.
LEMMA ScannedIs ==
  ASSUME NEW seen, NEW out, NEW fp, NEW valid, NEW s, s = ScannedClip(seen, out, fp, valid),
         seen.state # "deleted"
  PROVE  /\ s.fp = fp
         /\ \/ seen.fp = fp /\ s.state = seen.state
            \/ s.state \in {"stale", "discovered", "invalid"}
BY DEF ScannedClip

\* What a step makes of a row: its claims stay, or they are true of the file and the
\* output, or a compile job has recorded its file.
Claims(c, ready) ==
  /\ clip'[c].state # "deleted" /\ clip'[c].fp <= source[c]
  /\ clip'[c].state = "ready" => ready /\ clip'[c].fp <= output[c]
Recorded(c) ==
  Record /\ Kind = "compile" /\ c = Target /\ clip'[c].state = "ready"
    /\ clip'[c].fp = job[w.job].fp

\* The row read for the first file of a scan claims what is true.
LEMMA ScanClaims ==
  ASSUME WorkerInv, CurrentInStep, NEW r, NEW v, ScanCommit(r, v), NEW c \in Clips,
         r.clip \in Clips => Recent(r.seen, r.clip) /\ r.rev <= source[r.clip]
  PROVE  Plain(c) \/ Claims(c, c = r.clip /\ r.seen # clip[c])
<1> /\ TypeOK /\ QueueTypeOK /\ source[c] \in Nat /\ output[c] \in Nat /\ clip[c] \in ClipRows
    /\ clip[c].state # "deleted" /\ c \notin missing
  BY DEF WorkerInv, TypeOK, QueueTypeOK, CurrentInStep, ScansInside, Recent
<1>1. CASE c = r.clip
  <2>1. clip'[c] = ScannedClip(r.seen, clip[c].out, r.rev, c \in v)
    BY <1>1 DEF ScanCommit
  <2>2. PICK s : s = clip'[c]
    OBVIOUS
  <2>3. r.seen.state # "deleted" /\ r.rev <= source[c]
        /\ (r.seen.state = "ready" => r.seen.fp <= output[c])
    BY <1>1 DEF Recent
  <2>4. /\ s.fp = r.rev
        /\ \/ r.seen.fp = r.rev /\ s.state = r.seen.state
           \/ s.state \in {"stale", "discovered", "invalid"}
    BY <2>1, <2>2, <2>3, ScannedIs
  <2>5. CASE r.seen = clip[c] /\ r.seen.fp = r.rev /\ s.state = r.seen.state
    BY <2>2, <2>4, <2>5 DEF Plain
  <2>6. CASE r.seen # clip[c]
    BY <1>1, <2>2, <2>3, <2>4, <2>6 DEF Claims
  <2>7. CASE s.state \in {"stale", "discovered", "invalid"}
    BY <2>2, <2>3, <2>4, <2>7 DEF Claims
  <2> QED BY <2>4, <2>5, <2>6, <2>7
<1>2. CASE c # r.clip
  <2>1. clip'[c] = ScannedClip(clip[c], clip[c].out, source[c], c \in v)
    BY <1>2 DEF ScanCommit
  <2>2. PICK s : s = clip'[c]
    OBVIOUS
  <2>3. /\ s.fp = source[c]
        /\ \/ clip[c].fp = source[c] /\ s.state = clip[c].state
           \/ s.state \in {"stale", "discovered", "invalid"}
    BY <2>1, <2>2, ScannedIs
  <2>4. CASE clip[c].fp = source[c] /\ s.state = clip[c].state
    BY <2>2, <2>3, <2>4 DEF Plain
  <2>5. CASE s.state \in {"stale", "discovered", "invalid"}
    BY <2>2, <2>3, <2>5 DEF Claims
  <2> QED BY <2>3, <2>4, <2>5
<1> QED BY <1>1, <1>2

\* Every step keeps what a row claims, or makes it claim what is true.
LEMMA RowsChange ==
  ASSUME WorkerInv, KindsInStep, CurrentInStep, [Next]_vars, NEW c \in Clips
  PROVE  Plain(c) \/ Claims(c, w.pc = "scanning") \/ Recorded(c)
<1> /\ TypeOK /\ QueueTypeOK /\ w \in WorkerStates /\ clip[c] \in ClipRows
    /\ source[c] \in Nat /\ output[c] \in Nat
  BY DEF WorkerInv, TypeOK, QueueTypeOK
<1> FingerprintsInStep /\ EncodedInStep /\ ScansInside /\ Recent(clip[c], c)
  BY DEF CurrentInStep
<1>1. CASE clip' = clip
  BY <1>1 DEF Plain
<1>2. CASE Prepare \/ Tick \/ ProcessExits \/ NoteNoProgress \/ Judge \/ Validate
  BY <1>1, <1>2, UpdateIsPlain DEF Prepare, Tick, ProcessExits, NoteNoProgress, Judge, Validate,
     SaveProgress, queueVars
<1>3. CASE Finish
  BY <1>3, UpdateIsPlain DEF Finish
<1>4. CASE Record
  <2>1. w.pc = "record" /\ Kind \in {"compile", "edit"}
    BY <1>4 DEF Record, At, KindsInStep, EncodingPcs, ClipPcs
  <2>2. CASE c # Target
    <3>1. clip'[c] = clip[c]
      BY <1>4, <2>2 DEF Record
    <3> QED BY <3>1 DEF Plain
  <2>3. CASE c = Target /\ Kind = "compile"
    <3>1. clip'[c] = [state |-> "ready", out |-> TRUE, fp |-> job[w.job].fp]
      BY <1>4, <2>3 DEF Record
    <3> QED BY <1>4, <2>3, <3>1 DEF Recorded
  <2>4. CASE c = Target /\ Kind = "edit"
    <3>1. clip'[c] = [clip[c] EXCEPT !.state = "discovered", !.fp = w.read.seen.fp]
      BY <1>4, <2>4 DEF Record
    <3>2. w.read.seen.fp <= source[c]
      BY <2>1, <2>4 DEF FingerprintsInStep
    <3> QED BY <3>1, <3>2 DEF Claims, ClipRows
  <2> QED BY <2>1, <2>2, <2>3, <2>4
<1>5. CASE RecordFailure
  <2>1. w.pc = "note" /\ Kind \in {"compile", "edit"}
    BY <1>5 DEF RecordFailure, At, EncodedInStep
  <2>2. CASE c # Target
    <3>1. clip'[c] = clip[c]
      BY <1>5, <2>2 DEF RecordFailure
    <3> QED BY <3>1 DEF Plain
  <2>3. CASE c = Target
    <3>1. clip'[c] = [clip[c] EXCEPT !.fp = w.read.seen.fp,
                                     !.state = IF Kind = "edit" THEN "failed" ELSE @]
      BY <1>5, <2>3 DEF RecordFailure
    <3>2. w.read.seen.fp <= source[c]
      BY <2>1, <2>3 DEF FingerprintsInStep
    <3>3. Kind = "compile" => clip[c].state # "ready"
      BY <2>1, <2>3 DEF EncodedInStep, Unready
    <3>4. clip[c].state # "deleted"
      BY DEF Recent
    <3>5. clip'[c].fp = w.read.seen.fp /\ clip'[c].state \notin {"ready", "deleted"}
      BY <2>1, <3>1, <3>3, <3>4 DEF ClipRows
    <3> QED BY <3>2, <3>5 DEF Claims
  <2> QED BY <2>2, <2>3
<1>6. CASE WorkerScanCommit
  <2>1. w.pc = "scanning"
    BY <1>6 DEF WorkerScanCommit, At
  <2>2. w.read.clip \in Clips => Recent(w.read.seen, w.read.clip) /\ w.read.rev <= source[w.read.clip]
    BY <2>1 DEF EncodedInStep
  <2>3. ASSUME NEW v, ScanCommit(w.read, v)
        PROVE  Plain(c) \/ Claims(c, c = w.read.clip /\ w.read.seen # clip[c])
    BY <2>2, <2>3, ScanClaims
  <2> QED BY <1>1, <1>6, <2>1, <2>3 DEF WorkerScanCommit, Claims
<1>7. CASE Claim
  BY <1>1, <1>7, SetClipIsPlain DEF Claim, ClaimNext, ClipStates, queueVars
<1>8. ASSUME NEW h \in Handlers, MarkStale(h) \/ RequestScanCommit(h) \/ Insert(h) \/ Store(h)
      PROVE  Plain(c) \/ Claims(c, FALSE)
  <2>1. CASE MarkStale(h)
    BY <2>1, SetClipIsPlain DEF MarkStale, ClipStates
  <2>2. CASE RequestScanCommit(h)
    <3>1. PICK r : r = req[h].read
      OBVIOUS
    <3>2. r.clip \in Clips => r.seen = clip[r.clip] /\ r.rev <= source[r.clip]
      BY <2>2, <3>1 DEF RequestScanCommit, InRequest, ScansInside
    <3>3. r.clip \in Clips => Recent(r.seen, r.clip)
      BY <3>2 DEF CurrentInStep
    <3>4. ASSUME NEW v, ScanCommit(r, v)
          PROVE  Plain(c) \/ Claims(c, FALSE)
      <4>1. Plain(c) \/ Claims(c, c = r.clip /\ r.seen # clip[c])
        BY <3>2, <3>3, <3>4, ScanClaims
      <4>2. (c = r.clip /\ r.seen # clip[c]) = FALSE
        BY <3>2
      <4> QED BY <4>1, <4>2
    <3>5. clip' = clip => Plain(c)
      BY DEF Plain
    <3> QED BY <2>2, <3>1, <3>4, <3>5 DEF RequestScanCommit
  <2>3. CASE Insert(h) \/ Store(h)
    BY <2>3, EnqueueIsPlain DEF Insert, Store
  <2> QED BY <1>8, <2>1, <2>2, <2>3
<1>9. CASE SubmitCleanup \/ \E d \in Clips, skip \in BOOLEAN : CompileStaleOnly(d, skip)
  BY <1>9, EnqueueIsPlain DEF SubmitCleanup, CompileStaleOnly
<1>10. CASE (\E j \in Jobs : Cancel(j)) \/ CancelAll \/ Shutdown
  BY <1>1, <1>10, CancelIsPlain DEF Cancel, CancelAll, Shutdown, Running, queueVars
<1>11. CASE MakeTemp \/ Poll \/ Deadline \/ NextPhase \/ Publish \/ ReadClip \/ Raise \/ Except \/ Sweep
            \/ WorkerScanRead \/ Loop \/ ReadClipToNote \/ Cleanup \/ WriteTimesOut \/ CleanupFails \/ Abort
  BY <1>1, <1>11 DEF MakeTemp, Poll, Deadline, NextPhase, Publish, ReadClip, Raise, Except, Sweep,
     WorkerScanRead, Loop, ReadClipToNote, Cleanup, WriteTimesOut, CleanupFails, Abort, queueVars
<1>12. ASSUME NEW h \in Handlers, Handle(h), ~(MarkStale(h) \/ RequestScanCommit(h) \/ Insert(h) \/ Store(h))
       PROVE  clip' = clip
  BY <1>12 DEF Handle, SubmitCompile, SubmitRecompile, SubmitEdit, SubmitScan, CheckActive,
     RequestScanRead, BuildCompile, Refuse, FindDuplicate, queueVars
<1>13. CASE \/ Stopped \/ Crash \/ Start \/ (\E d \in Clips : ReplaceSource(d) \/ HideSource(d))
            \/ UNCHANGED vars
  BY <1>1, <1>13 DEF Stopped, Crash, Start, RecoverInterrupted, ReplaceSource, HideSource, queueVars, vars
<1>14. CASE \E h \in Handlers : Handle(h)
  <2>1. Claims(c, FALSE) => Claims(c, w.pc = "scanning")
    BY DEF Claims
  <2> QED BY <1>1, <1>8, <1>12, <1>14, <2>1
<1> QED BY <1>2, <1>3, <1>4, <1>5, <1>6, <1>7, <1>9, <1>10, <1>11, <1>13, <1>14 DEF Next, Consume

\* Contents of a source file are only replaced by later ones, and none is hidden.
LEMMA SourcesGrow ==
  ASSUME WorkerInv, "hide" \notin Ops, [Next]_vars, NEW c \in Clips
  PROVE  /\ source[c] \in Nat /\ source'[c] \in Nat /\ source[c] <= source'[c]
         /\ missing = {} => missing' = {}
<1> TypeOK /\ source \in [Clips -> Nat]
  BY DEF WorkerInv, TypeOK
<1>1. CASE source' = source /\ missing' = missing
  BY <1>1
<1>2. CASE Publish
  BY <1>1, <1>2 DEF Publish
<1>3. CASE \E d \in Clips : ReplaceSource(d) \/ HideSource(d)
  BY <1>3 DEF ReplaceSource, HideSource
<1>4. CASE ~Publish /\ ~\E d \in Clips : ReplaceSource(d) \/ HideSource(d)
  <2>1. UNCHANGED <<source, missing>>
    <3>1. CASE MakeTemp \/ Prepare \/ Poll \/ Tick \/ ProcessExits \/ Deadline \/ NextPhase
               \/ NoteNoProgress \/ Judge \/ Validate
      BY <3>1 DEF MakeTemp, Prepare, Poll, Tick, ProcessExits, Deadline, NextPhase, NoteNoProgress,
         Judge, Validate, fileVars
    <3>2. CASE ReadClip \/ Record \/ Raise \/ Except \/ Sweep \/ WorkerScanRead \/ WorkerScanCommit
      BY <3>2 DEF ReadClip, Record, Raise, Except, Sweep, WorkerScanRead, WorkerScanCommit, fileVars
    <3>3. CASE \E h \in Handlers : Handle(h)
      BY <3>3 DEF Handle, SubmitCompile, SubmitRecompile, SubmitEdit, SubmitScan, BuildCompile, MarkStale,
         CheckActive, RequestScanRead, RequestScanCommit, Refuse, Insert, FindDuplicate, Store, fileVars
    <3>4. CASE ~TryBlock /\ ~\E h \in Handlers : Handle(h)
      BY <1>4, <3>4 DEF Next, Consume, TryBlock, Claim, Finish, Loop, ReadClipToNote, RecordFailure, Cleanup,
         WriteTimesOut, CleanupFails, Abort, CompileStaleOnly, SubmitCleanup, Cancel, CancelAll, Shutdown, Stopped,
         Crash, Start, fileVars, vars
    <3> QED BY <1>4, <3>1, <3>2, <3>3, <3>4 DEF TryBlock
  <2> QED BY <1>1, <2>1
<1> QED BY <1>2, <1>3, <1>4

\* A compiled file is replaced only by what its job has made.
LEMMA OutputsChange ==
  ASSUME [Next]_vars
  PROVE  \/ output' = output
         \/ Publish /\ Kind = "compile" /\ output' = [output EXCEPT ![Target] = w.made]
<1>1. CASE Publish
  <2>1. CASE Kind = "compile"
    <3>1. output' = [output EXCEPT ![Target] = w.made]
      BY <1>1, <2>1, Zenon DEF Publish
    <3> QED BY <1>1, <2>1, <3>1, Zenon
  <2>2. CASE Kind # "compile"
    <3>1. output' = output
      BY <1>1, <2>2 DEF Publish
    <3> QED BY <3>1, Zenon
  <2> QED BY <2>1, <2>2, Zenon
<1>2. CASE ~Publish
  <2>1. output' = output
    <3>1. CASE MakeTemp \/ Prepare \/ Poll \/ Tick \/ ProcessExits \/ Deadline \/ NextPhase
               \/ NoteNoProgress \/ Judge \/ Validate
      BY <3>1 DEF MakeTemp, Prepare, Poll, Tick, ProcessExits, Deadline, NextPhase, NoteNoProgress,
         Judge, Validate, fileVars
    <3>2. CASE ReadClip \/ Record \/ Raise \/ Except \/ Sweep \/ WorkerScanRead \/ WorkerScanCommit
      BY <3>2 DEF ReadClip, Record, Raise, Except, Sweep, WorkerScanRead, WorkerScanCommit, fileVars
    <3>3. CASE ~TryBlock
      BY <3>3, ConsumerSteps DEF Claim, Finish, Loop, ReadClipToNote, RecordFailure, Cleanup, WriteTimesOut, CleanupFails,
         Abort, Stopped, Crash, OthersStep, fileVars
    <3> QED BY <1>2, <3>1, <3>2, <3>3, Zenon DEF TryBlock
  <2> QED BY <2>1, Zenon
<1> QED BY <1>1, <1>2, Zenon

\* Every write of a row waits for the requests that scan, but for their own.
LEMMA WritesWait ==
  ASSUME [Next]_vars
  PROVE  clip' = clip \/ CanWrite \/ (\E g \in Handlers : RequestScanCommit(g)) \/ Shutdown
<1>1. CASE Consume \/ Tick \/ ProcessExits \/ Deadline \/ Raise \/ WriteTimesOut \/ CleanupFails
  <2>1. CASE TryBlock
    <3>1. CASE MakeTemp \/ Prepare \/ Poll \/ Tick \/ ProcessExits \/ Deadline \/ NextPhase
               \/ NoteNoProgress \/ Judge \/ Validate
      BY <3>1 DEF MakeTemp, Prepare, Poll, Tick, ProcessExits, Deadline, NextPhase, NoteNoProgress,
         Judge, Validate, SaveProgress, queueVars
    <3>2. CASE Publish \/ ReadClip \/ Record \/ Raise \/ Except \/ Sweep \/ WorkerScanRead \/ WorkerScanCommit
      BY <3>2 DEF Publish, ReadClip, Record, Raise, Except, Sweep, WorkerScanRead, WorkerScanCommit,
         queueVars
    <3> QED BY <2>1, <3>1, <3>2 DEF TryBlock
  <2>2. CASE ~TryBlock
    BY <1>1, <2>2 DEF Consume, TryBlock, Claim, Finish, Loop, ReadClipToNote, RecordFailure, Cleanup,
       WriteTimesOut, CleanupFails, Abort, queueVars
  <2> QED BY <2>1, <2>2
<1>2. ASSUME NEW h \in Handlers, Handle(h), ~RequestScanCommit(h)
      PROVE  clip' = clip \/ CanWrite
  BY <1>2 DEF Handle, SubmitCompile, SubmitRecompile, SubmitEdit, SubmitScan, MarkStale, CheckActive,
     RequestScanRead, BuildCompile, Refuse, Insert, FindDuplicate, Store, queueVars
<1>3. CASE ~(Consume \/ Tick \/ ProcessExits \/ Deadline \/ Raise \/ WriteTimesOut \/ CleanupFails)
           /\ ~\E h \in Handlers : Handle(h)
  BY <1>3 DEF Next, CompileStaleOnly, SubmitCleanup, Cancel, CancelAll, Stopped, Crash, Start,
     RecoverInterrupted, ReplaceSource, HideSource, queueVars, vars
<1> QED BY <1>1, <1>2, <1>3

\* A request that begins to scan does so while no other does.
Begins(h) ==
  /\ CanWrite /\ clip' = clip /\ source' = source
  /\ req'[h].read \in FirstReads
  /\ \A g \in Handlers : g # h => req'[g] = req[g]
Scans(h) ==
  /\ ~req'[h].recompile /\ req'[h].pc \notin {"mark", "check", "scan"}
  /\ req'[h].pc = "scanning" =>
       (req[h].pc = "scanning" /\ req'[h].read = req[h].read) \/ Begins(h)

LEMMA RequestScans ==
  ASSUME WorkerInv, ScansInside, "recompile" \notin Ops, [Next]_vars
  PROVE  \A h \in Handlers : Scans(h)
<1> req \in [Handlers -> Requests]
  BY DEF WorkerInv, TypeOK
<1>1. \A h \in Handlers : req'[h] = req[h] => Scans(h)
  BY DEF Scans, ScansInside
<1>2. ASSUME NEW g \in Handlers, Handle(g)
      PROVE  \A h \in Handlers : Scans(h)
  <2>1. ASSUME NEW q, req' = [req EXCEPT ![g] = q],
               ~q.recompile, q.pc \notin {"mark", "check", "scan", "scanning"}
        PROVE  \A h \in Handlers : Scans(h)
    <3>1. req'[g] = q /\ \A h \in Handlers : h # g => req'[h] = req[h]
      BY <2>1
    <3> QED BY <1>1, <2>1, <3>1 DEF Scans
  <2>2. CASE \E c \in Clips, skip \in BOOLEAN : SubmitCompile(g, c, skip)
    <3>1. PICK c \in Clips, skip \in BOOLEAN, r \in FirstReads :
            req' = [req EXCEPT ![g] = [IdleReq EXCEPT !.pc = "scanning", !.clip = c, !.skip = skip,
                                                      !.read = r]]
      BY <2>2 DEF SubmitCompile
    <3>2. /\ req'[g].read = r /\ req'[g].pc = "scanning" /\ ~req'[g].recompile
          /\ \A h \in Handlers : h # g => req'[h] = req[h]
      BY <3>1 DEF IdleReq
    <3>3. CanWrite /\ clip' = clip /\ source' = source
      BY <2>2 DEF SubmitCompile, queueVars, fileVars
    <3>4. Begins(g)
      BY <3>2, <3>3 DEF Begins
    <3> QED BY <1>1, <3>2, <3>4 DEF Scans
  <2>3. ASSUME NEW k, NEW c, NEW f, BuildJob(g, k, c, f)
        PROVE  \A h \in Handlers : Scans(h)
    <3> DEFINE r == NewJob(k, c, f, clock + 1)
    <3> HIDE DEF r
    <3>1. PICK j \in FreshIds :
            req' = [req EXCEPT ![g] = [IdleReq EXCEPT !.pc = "insert", !.clip = c, !.id = j,
                                                      !.recompile = req[g].recompile, !.row = r]]
      BY <2>3 DEF BuildJob, r
    <3>2. /\ req'[g].pc = "insert" /\ req'[g].recompile = req[g].recompile
          /\ \A h \in Handlers : h # g => req'[h] = req[h]
      BY <3>1 DEF IdleReq
    <3> QED BY <1>1, <3>2 DEF Scans, ScansInside
  <2>4. CASE (\E c \in Clips : SubmitEdit(g, c)) \/ SubmitScan(g)
    BY <2>3, <2>4 DEF SubmitEdit, SubmitScan
  <2>5. CASE \/ \E c \in Clips : SubmitRecompile(g, c)
             \/ MarkStale(g) \/ CheckActive(g) \/ RequestScanRead(g)
    BY <2>5 DEF SubmitRecompile, MarkStale, CheckActive, RequestScanRead, InRequest, ScansInside
  <2>6. ASSUME Return(g) \/ Goto(g, "refused") \/ Goto(g, "store")
        PROVE  \A h \in Handlers : Scans(h)
    <3>1. /\ req'[g].pc \notin {"mark", "check", "scan", "scanning"}
          /\ req'[g].recompile => req[g].recompile
          /\ \A h \in Handlers : h # g => req'[h] = req[h]
      BY <2>6 DEF Return, Goto, IdleReq, Requests
    <3> QED BY <1>1, <3>1 DEF Scans, ScansInside
  <2>7. CASE BuildCompile(g)
    BY <2>3, <2>6, <2>7 DEF BuildCompile
  <2>8. CASE Refuse(g) \/ Insert(g) \/ FindDuplicate(g) \/ Store(g)
    BY <2>6, <2>8 DEF Refuse, Insert, FindDuplicate, Store
  <2>9. CASE RequestScanCommit(g)
    <3>1. /\ req'[g].pc \in {"build", "refused"} /\ req'[g].recompile = req[g].recompile
          /\ \A h \in Handlers : h # g => req'[h] = req[h]
      BY <2>9 DEF RequestScanCommit, Requests
    <3> QED BY <1>1, <3>1 DEF Scans, ScansInside
  <2> QED BY <1>2, <2>2, <2>4, <2>5, <2>7, <2>8, <2>9 DEF Handle
<1>3. CASE Crash
  BY <1>3 DEF Crash, IdleReq, Scans
<1>4. ASSUME ~Crash, ~\E g \in Handlers : Handle(g)
      PROVE  req' = req
  <2>1. CASE TryBlock
    BY <2>1, TryEffect
  <2>2. CASE ~TryBlock
    BY <1>4, <2>2 DEF Next, Consume, TryBlock, Claim, Finish, Loop, ReadClipToNote, RecordFailure, Cleanup,
       WriteTimesOut, CleanupFails, Abort, CompileStaleOnly, SubmitCleanup, Cancel, CancelAll, Shutdown, Stopped,
       Start, ReplaceSource, HideSource, httpVars, vars
  <2> QED BY <2>1, <2>2
<1> QED BY <1>1, <1>2, <1>3, <1>4

LEMMA ScansInsideNext ==
  ASSUME WorkerInv, ScansInside, "recompile" \notin Ops, "hide" \notin Ops, [Next]_vars
  PROVE  ScansInside'
<1>1. \A h \in Handlers : Scans(h)
  BY RequestScans
<1>2. missing' = {}
  <2>1. CASE Clips = {}
    BY <2>1, NextInv DEF WorkerInv, TypeOK
  <2>2. CASE Clips # {}
    BY <2>2, SourcesGrow DEF ScansInside
  <2> QED BY <2>1, <2>2
<1>3. CanWrite => \A h \in Handlers : req[h].pc # "scanning"
  BY DEF CanWrite, ScansInside
<1>4. ASSUME NEW h \in Handlers, req'[h].pc = "scanning"
      PROVE  /\ \A g \in Handlers : req'[g].pc = "scanning" => g = h
             /\ req'[h].read.clip \in Clips =>
                  /\ req'[h].read.seen = clip'[req'[h].read.clip]
                  /\ req'[h].read.rev <= source'[req'[h].read.clip]
  <2>1. CASE Begins(h)
    <3>1. \A g \in Handlers : req'[g].pc = "scanning" => g = h
      BY <1>3, <2>1 DEF Begins
    <3>2. PICK r : r = req'[h].read
      OBVIOUS
    <3>3. r.clip \in Clips => r.seen = clip[r.clip] /\ r.rev = source[r.clip]
      BY <2>1, <3>2, QueueAssumption DEF Begins, FirstReads, NoRead
    <3>4. r.clip \in Clips => source[r.clip] \in Nat
      BY DEF WorkerInv, TypeOK
    <3> QED BY <2>1, <3>1, <3>2, <3>3, <3>4 DEF Begins
  <2>2. CASE req[h].pc = "scanning" /\ req'[h].read = req[h].read
    <3>1. ~CanWrite
      BY <1>3, <2>2
    <3>2. \A g \in Handlers : req'[g].pc = "scanning" => g = h
      BY <1>1, <2>2, <3>1 DEF Scans, Begins, ScansInside
    <3>3. clip' = clip
      <4>1. ~Shutdown
        BY <2>2 DEF Shutdown
      <4>2. \A g \in Handlers : ~RequestScanCommit(g)
        <5> SUFFICES ASSUME NEW g \in Handlers, RequestScanCommit(g) PROVE FALSE
          OBVIOUS
        <5>1. g = h
          BY <2>2 DEF RequestScanCommit, InRequest, ScansInside
        <5>2. req'[g].pc \in {"build", "refused"}
          BY DEF RequestScanCommit, WorkerInv, TypeOK, Requests
        <5> QED BY <1>4, <5>1, <5>2
      <4> QED BY <3>1, <4>1, <4>2, WritesWait
    <3>4. PICK r : r = req[h].read
      OBVIOUS
    <3>5. r.clip \in Clips => r.seen = clip[r.clip] /\ r.rev <= source[r.clip]
      BY <2>2, <3>4 DEF ScansInside
    <3>6. r.clip \in Clips => source[r.clip] \in Nat /\ source'[r.clip] \in Nat /\ source[r.clip] <= source'[r.clip]
      BY SourcesGrow
    <3>7. r.rev \in Nat
      BY <3>4 DEF WorkerInv, TypeOK, Requests, Reads
    <3> QED BY <2>2, <3>2, <3>3, <3>4, <3>5, <3>6, <3>7
  <2> QED BY <1>1, <1>4, <2>1, <2>2 DEF Scans
<1> QED BY <1>1, <1>2, <1>4 DEF ScansInside, Scans

\* The row that the consumer writes back has been read in the step before.
LEMMA ReadsToWrite ==
  ASSUME WorkerInv, [Next]_vars, w'.pc \in {"record", "note"}
  PROVE  /\ w'.job = w.job /\ w.job # NoJob
         /\ \/ w.pc = w'.pc /\ w'.read = w.read
            \/ Target \in Clips /\ w'.read.seen = clip[Target]
<1> w \in WorkerStates
  BY DEF WorkerInv, TypeOK
<1>1. CASE TryBlock
  <2>1. w'.job = w.job /\ w.pc \notin NoJobPcs
    BY <1>1, TryEffect DEF MovesOn, Holding, NoJobPcs
  <2>2. ReadClip
    <3>1. CASE MakeTemp \/ Prepare \/ Poll \/ Tick \/ ProcessExits \/ Deadline \/ NextPhase
               \/ NoteNoProgress
      BY <3>1 DEF MakeTemp, Raising, Prepare, Poll, Tick, ProcessExits, Deadline, NextPhase,
         NoteNoProgress, WorkerStates
    <3>2. CASE Judge \/ Validate \/ Publish \/ Record \/ Raise \/ Except \/ Sweep
               \/ WorkerScanRead \/ WorkerScanCommit
      BY <3>2 DEF Judge, Validate, FailAttempt, Settle, Raising, Publish, Record, Raise, Except, Sweep,
         WorkerScanRead, WorkerScanCommit, WorkerStates
    <3> QED BY <1>1, <3>1, <3>2 DEF TryBlock
  <2>3. Target \in Clips
    BY <2>1, <2>2, HeldFacts DEF ReadClip, At, ClipPcs
  <2>4. w'.read = [clip |-> Target, seen |-> clip[Target], rev |-> 0]
    BY <2>2 DEF ReadClip, ReadRow, WorkerStates
  <2> QED BY <2>1, <2>3, <2>4 DEF WorkerInv, ConsumerInStep
<1>2. CASE Claim \/ Loop \/ Cleanup \/ Abort \/ Stopped \/ Crash
  <2>1. w'.pc \notin {"record", "note"}
    <3>1. CASE Loop \/ Cleanup \/ Abort \/ Stopped \/ Crash
      BY <3>1 DEF Loop, Cleanup, Abort, Stopped, Crash, IdleWorker, WorkerStates
    <3>2. CASE Claim
      BY <3>2, ClaimedJob DEF IdleWorker
    <3> QED BY <1>2, <3>1, <3>2
  <2> QED BY <2>1
<1>3. CASE ReadClipToNote
  <2>1. w.pc = "noteread" /\ w'.job = w.job
        /\ w'.read = [clip |-> Target, seen |-> clip[Target], rev |-> 0]
    BY <1>3 DEF ReadClipToNote, At, ReadRow, WorkerStates
  <2>2. w.job # NoJob /\ Target \in Clips
    BY <2>1 DEF WorkerInv, ConsumerInStep, NoJobPcs, ClipPcs
  <2> QED BY <2>1, <2>2
<1>4. CASE Finish \/ RecordFailure \/ WriteTimesOut \/ CleanupFails
  <2>1. \/ \E p \in {"noteread", "cleanup", "except", "abort", "stranded"} : w'.pc = p
        \/ w' = [IdleWorker EXCEPT !.pc = "dead"] \/ w' = IdleWorker
    <3>1. CASE Finish
      BY <3>1 DEF Finish, WorkerStates
    <3>2. CASE RecordFailure
      BY <3>2 DEF RecordFailure, WorkerStates
    <3>3. CASE WriteTimesOut \/ CleanupFails
      BY <3>3 DEF WriteTimesOut, CleanupFails, Raising, IdleWorker, WorkerStates
    <3> QED BY <1>4, <3>1, <3>2, <3>3
  <2> QED BY <2>1 DEF IdleWorker
<1>5. CASE OthersStep
  BY <1>5 DEF OthersStep, WorkerInv, ConsumerInStep, NoJobPcs
<1> QED BY <1>1, <1>2, <1>3, <1>4, <1>5, ConsumerSteps

LEMMA FingerprintsNext ==
  ASSUME WorkerInv, KindsInStep, OutputsInStep, CurrentInStep, "hide" \notin Ops, [Next]_vars
  PROVE  FingerprintsInStep'
<1> /\ TypeOK /\ QueueTypeOK /\ FingerprintsInStep /\ EncodedInStep
    /\ TypeOK' /\ WorkerInv'
  BY NextInv DEF WorkerInv, TypeOK, CurrentInStep
<1>1. \A c \in Clips : /\ source[c] \in Nat /\ source'[c] \in Nat /\ source[c] <= source'[c]
                       /\ clip[c].fp \in Nat /\ clip'[c].fp \in Nat /\ clip[c].fp <= source[c]
                       /\ output[c] \in Nat /\ output[c] <= source[c]
  BY SourcesGrow DEF TypeOK, QueueTypeOK, ClipRows, FingerprintsInStep
<1>2. w.pc = "record" => w.job \in Jobs /\ job[w.job].state # "none"
  BY HeldFacts DEF NoJobPcs
<1>3. ASSUME NEW c \in Clips
      PROVE  clip'[c].fp <= source'[c]
  <2>1. clip'[c].fp <= source[c]
    <3>1. CASE Recorded(c)
      <4>1. job[w.job].kind = "compile" /\ c = job[w.job].clip /\ w.pc = "record"
            /\ clip'[c].fp = job[w.job].fp
        BY <3>1 DEF Recorded, Record, At, Kind, Target
      <4> QED BY <1>2, <4>1 DEF FingerprintsInStep, Foreseen
    <3> QED BY <1>1, <3>1, RowsChange DEF Plain, Claims
  <2> QED BY <1>1, <2>1
<1>4. ASSUME NEW c \in Clips
      PROVE  output'[c] <= source'[c]
  <2>1. output'[c] <= source[c]
    <3>1. CASE Publish /\ Kind = "compile" /\ output' = [output EXCEPT ![Target] = w.made] /\ c = Target
      <4>1. w.pc = "publish" /\ w.job # NoJob /\ w.made \in Nat
        BY <3>1, WorkerAssumption DEF Publish, At, WorkerInv, ConsumerInStep, NoJobPcs, TypeOK, WorkerStates
      <4>2. w.made > 0
        BY <4>1 DEF OutputsInStep, MadeInStep
      <4>3. w.made <= source[Target]
        BY <3>1, <4>1, <4>2 DEF EncodedInStep, Encodes
      <4>4. output'[c] = w.made
        BY <3>1 DEF TypeOK
      <4> QED BY <3>1, <4>3, <4>4
    <3>2. CASE output'[c] = output[c]
      BY <1>1, <3>2
    <3> QED BY <3>1, <3>2, OutputsChange DEF TypeOK
  <2>2. output'[c] \in Nat
    BY DEF TypeOK
  <2> QED BY <1>1, <2>1, <2>2
<1>5. ASSUME NEW r \in JobRows, NamesClip(r), Foreseen(r)
      PROVE  Foreseen(r)'
  <2>1. CASE r.kind = "compile"
    <3>1. r.clip \in Clips /\ r.fp \in Nat /\ r.fp <= source[r.clip]
      BY <1>5, <2>1 DEF NamesClip, Foreseen, JobRows
    <3> QED BY <1>1, <3>1 DEF Foreseen
  <2> QED BY <2>1 DEF Foreseen
<1>6. ASSUME NEW r \in JobRows, Built(r)
      PROVE  Foreseen(r)
  BY <1>1, <1>6 DEF Built, Foreseen
<1>7. ASSUME NEW j \in Jobs, job'[j].state # "none"
      PROVE  Foreseen(job[j])'
  <2>1. CASE job[j].state # "none"
    <3>1. PICK r \in JobRows : r = job[j]
      BY DEF QueueTypeOK
    <3>2. Foreseen(r)'
      BY <1>5, <2>1, <3>1 DEF WorkerInv, RowsNameClips, FingerprintsInStep
    <3>3. job'[j].kind = r.kind /\ job'[j].clip = r.clip /\ job'[j].fp = r.fp
      BY <2>1, <3>1, RowsStay DEF Keeps
    <3> QED BY <3>2, <3>3 DEF Foreseen
  <2>2. CASE job[j].state = "none"
    <3>1. PICK i \in Jobs, r \in JobRows : Inserts(i, r)
      BY <1>7, <2>2, RowsAppear
    <3>2. j = i /\ job'[j] = r
      BY <1>7, <2>2, <3>1 DEF Inserts, QueueTypeOK
    <3>3. Foreseen(r)
      BY <1>6, <3>1 DEF Inserts, Inserting, FingerprintsInStep
    <3>4. NamesClip(r)
      BY <1>7, <3>2 DEF WorkerInv, RowsNameClips, NamesClip
    <3>5. Foreseen(r)'
      BY <1>5, <3>3, <3>4
    <3> QED BY <3>2, <3>5 DEF Foreseen
  <2> QED BY <2>1, <2>2
<1>8. ASSUME NEW h \in Handlers, Inserting(h)'
      PROVE  Foreseen(req[h].row)'
  <2>1. PICK r \in JobRows : r = req'[h].row
    BY DEF TypeOK, Requests
  <2>2. NamesClip(r)
    BY <1>8, <2>1 DEF WorkerInv, RequestsInStep, NamesClip, Inserting
  <2>3. Foreseen(r)
    BY <1>6, <1>8, <2>1, RecordsBuilt DEF Builds, FingerprintsInStep
  <2>4. Foreseen(r)'
    BY <1>5, <2>2, <2>3
  <2> QED BY <2>1, <2>4 DEF Foreseen
<1>9. ASSUME w'.pc \in {"record", "note"}, Target' \in Clips
      PROVE  w'.read.seen.fp <= source'[Target']
  <2>1. Target' = Target
    BY <1>9, ReadsToWrite, JobInHandStays
  <2>2. w'.read.seen.fp <= source[Target]
    BY <1>1, <1>9, <2>1, ReadsToWrite DEF FingerprintsInStep
  <2>3. w'.read.seen.fp \in Nat
    BY DEF TypeOK, WorkerStates, Reads, ClipRows
  <2> QED BY <1>1, <1>9, <2>1, <2>2, <2>3
<1> QED BY <1>3, <1>4, <1>7, <1>8, <1>9 DEF FingerprintsInStep

\* The process of a job reads its clip's file as it is or becomes while it runs.
LEMMA EncodesFiles ==
  ASSUME WorkerInv, [Next]_vars, w'.job # NoJob
  PROVE  \/ w'.began = 0 /\ w'.made = 0
         \/ /\ w'.job = w.job
            /\ w'.began \in {0, w.began} \/ (Target \in Clips /\ w'.began = source[Target])
            /\ \/ w'.made \in {0, w.made}
               \/ Target \in Clips /\ w.began > 0 /\ w'.made \in w.began .. source[Target]
<1> w \in WorkerStates
  BY DEF WorkerInv, TypeOK
<1>1. CASE TryBlock
  <2>1. w'.job = w.job
    BY <1>1, TryEffect DEF MovesOn
  <2>2. CASE Prepare \/ NextPhase \/ ProcessExits
    <3>1. Target \in Clips
      BY <2>2, HeldFacts DEF Prepare, NextPhase, ProcessExits, At, ClipPcs, NoJobPcs
    <3>2. CASE Prepare \/ NextPhase
      <4>1. w'.made = w.made /\ w'.began = IF Target \in missing THEN 0 ELSE source[Target]
        BY <3>2 DEF Prepare, NextPhase, WorkerStates
      <4> QED BY <2>1, <3>1, <4>1
    <3>3. CASE ProcessExits
      BY <2>1, <3>1, <3>3 DEF ProcessExits, WorkerStates
    <3> QED BY <2>2, <3>2, <3>3
  <2>3. CASE MakeTemp \/ Poll \/ Tick \/ Deadline \/ NoteNoProgress \/ Judge \/ Validate
    BY <2>1, <2>3 DEF MakeTemp, Raising, Poll, Tick, Deadline, NoteNoProgress, Judge, Validate,
       FailAttempt, Settle, WorkerStates
  <2>4. CASE Publish \/ ReadClip \/ Record \/ Raise \/ Except \/ Sweep \/ WorkerScanRead
             \/ WorkerScanCommit
    BY <2>1, <2>4 DEF Publish, ReadClip, ReadRow, Record, Settle, Raise, Raising, Except, Sweep,
       WorkerScanRead, WorkerScanCommit, WorkerStates
  <2> QED BY <1>1, <2>2, <2>3, <2>4 DEF TryBlock
<1>2. CASE Loop \/ Cleanup \/ Abort \/ Stopped \/ Crash \/ ReadClipToNote \/ RecordFailure
           \/ WriteTimesOut \/ CleanupFails \/ OthersStep
  <2>1. CASE OthersStep
    BY <2>1 DEF OthersStep
  <2>2. CASE Loop \/ ReadClipToNote \/ RecordFailure
    BY <2>2 DEF Loop, ReadClipToNote, ReadRow, RecordFailure, WorkerStates
  <2>3. CASE Cleanup \/ Abort \/ Stopped \/ Crash
    BY <2>3 DEF Cleanup, Abort, Stopped, Crash, IdleWorker
  <2>4. CASE WriteTimesOut \/ CleanupFails
    BY <2>4 DEF WriteTimesOut, CleanupFails, Raising, IdleWorker, WorkerStates
  <2> QED BY <1>2, <2>1, <2>2, <2>3, <2>4
<1>3. CASE Claim
  <2>1. CASE w' = IdleWorker
    BY <2>1 DEF IdleWorker
  <2>2. CASE w' # IdleWorker
    <3>1. PICK j \in Jobs :
            w' = [IdleWorker EXCEPT !.pc = CASE job[j].kind = "scan" -> "scan"
                                             [] job[j].kind = "cleanup" -> "sweep"
                                             [] OTHER -> "mkdir",
                                    !.job = j, !.attempt = job[j].attempt + 1,
                                    !.cancel = job[j].cancel]
      BY <1>3, <2>2 DEF Claim
    <3> QED BY <3>1 DEF IdleWorker
  <2> QED BY <2>1, <2>2
<1>4. CASE Finish
  <2>1. (\E p \in Pcs : w' = [w EXCEPT !.pc = p]) \/ w' = IdleWorker
    BY <1>4 DEF Finish, Pcs
  <2> QED BY <2>1 DEF IdleWorker, WorkerStates
<1> QED BY <1>1, <1>2, <1>3, <1>4, ConsumerSteps

LEMMA EncodesNext ==
  ASSUME WorkerInv, KindsInStep, CurrentInStep, "hide" \notin Ops, [Next]_vars, w'.job # NoJob
  PROVE  (Encodes(w.began) /\ Encodes(w.made))'
<1> /\ TypeOK /\ w.began \in Nat /\ w.made \in Nat
    /\ FingerprintsInStep /\ EncodedInStep
  BY DEF WorkerInv, TypeOK, CurrentInStep, WorkerStates
<1>1. CASE w'.began = 0 /\ w'.made = 0
  BY <1>1 DEF Encodes
<1>2. CASE w'.job = w.job
  <2>1. /\ w.job \in Jobs /\ job[w.job].state # "none" /\ Kind' = Kind /\ Target' = Target
        /\ job'[w'.job].fp = job[w.job].fp
    BY <1>2, JobInHandStays, RowsStay DEF WorkerInv, ConsumerInStep, Keeps
  <2>2. job[w.job] \in JobRows /\ job[w.job].fp \in Nat
    BY <2>1 DEF TypeOK, QueueTypeOK, JobRows
  <2>3. Kind = "compile" => Target \in Clips /\ job[w.job].fp <= source[Target]
    BY <2>1 DEF WorkerInv, RowsNameClips, NamesClip, Kind, Target, FingerprintsInStep, Foreseen
  <2>4. Target \in Clips => source[Target] \in Nat /\ source'[Target] \in Nat /\ source[Target] <= source'[Target]
    BY SourcesGrow
  <2>5. ASSUME NEW n \in Nat, Kind = "compile" /\ n > 0 => job[w.job].fp <= n /\ n <= source[Target]
        PROVE  Kind' = "compile" /\ n > 0 => job'[w'.job].fp <= n /\ n <= source'[Target']
    BY <2>1, <2>2, <2>3, <2>4, <2>5
  <2>6. ASSUME NEW n, n \in {0, w.began, w.made}
        PROVE  n \in Nat /\ (Kind = "compile" /\ n > 0 => job[w.job].fp <= n /\ n <= source[Target])
    BY <1>2, <2>6 DEF EncodedInStep, Encodes
  <2>7. ASSUME Target \in Clips
        PROVE  /\ source[Target] \in Nat
               /\ Kind = "compile" => job[w.job].fp <= source[Target] /\ source[Target] <= source[Target]
    BY <2>3, <2>4, <2>7
  <2>8. ASSUME NEW n, Target \in Clips, w.began > 0, n \in w.began .. source[Target]
        PROVE  n \in Nat /\ (Kind = "compile" => job[w.job].fp <= n /\ n <= source[Target])
    <3>1. Kind = "compile" => job[w.job].fp <= w.began
      BY <2>6, <2>8
    <3> QED BY <2>2, <2>4, <2>8, <3>1
  <2>9. PICK m, n : m = w'.began /\ n = w'.made
    OBVIOUS
  <2>10. m \in Nat /\ (Kind = "compile" /\ m > 0 => job[w.job].fp <= m /\ m <= source[Target])
    BY <2>6, <2>7, <2>9, EncodesFiles
  <2>11. n \in Nat /\ (Kind = "compile" /\ n > 0 => job[w.job].fp <= n /\ n <= source[Target])
    BY <2>6, <2>8, <2>9, EncodesFiles
  <2> QED BY <2>5, <2>9, <2>10, <2>11 DEF Encodes
<1> QED BY <1>1, <1>2, EncodesFiles

\* How the consumer comes to hold a compile or edit job that is not settled, or whose
\* failure is not recorded.
LEMMA HoldsUnready ==
  ASSUME WorkerInv, [Next]_vars, w'.pc \in Unready
  PROVE  \/ TryBlock /\ w'.job = w.job /\ w'.pc \in EncodingPcs
         \/ Claim /\ w'.pc = "mkdir" /\ \E j \in Jobs : ClaimNext(j) /\ w'.job = j
         \/ Finish /\ w.result = "failed" /\ Kind \in {"compile", "edit"} /\ w'.job = w.job
            /\ w'.pc = "noteread"
         \/ ReadClipToNote /\ w.pc = "noteread" /\ w'.pc = "note" /\ w'.job = w.job
         \/ OthersStep
<1> w \in WorkerStates
  BY DEF WorkerInv, TypeOK
<1> DEFINE others == {"idle", "claim", "dead", "stranded", "cleanup", "except", "abort", "scan", "sweep"}
<1>1. w'.pc \notin others
  BY DEF Unready, EncodingPcs, ClipPcs
<1>2. CASE TryBlock
  BY <1>2, TryEffect DEF MovesOn, Holding, Unready
<1>3. CASE Claim
  BY <1>1, <1>3, ClaimedJob DEF IdleWorker
<1>4. CASE Finish
  <2>1. w' # IdleWorker
    BY <1>1 DEF IdleWorker
  <2>2. w' # [w EXCEPT !.pc = "cleanup"]
    BY <1>1 DEF WorkerStates
  <2>3. w.result = "failed" /\ Kind \in {"compile", "edit"} /\ w' = [w EXCEPT !.pc = "noteread"]
    BY <1>4, <2>1, <2>2 DEF Finish
  <2> QED BY <1>4, <2>3 DEF WorkerStates
<1>5. CASE ReadClipToNote
  BY <1>5 DEF ReadClipToNote, ReadRow, At, WorkerStates
<1>6. CASE Loop \/ RecordFailure
  BY <1>1, <1>6 DEF Loop, RecordFailure, WorkerStates
<1>7. CASE Cleanup \/ Abort \/ Stopped \/ Crash
  BY <1>1, <1>7 DEF Cleanup, Abort, Stopped, Crash, IdleWorker
<1>8. CASE WriteTimesOut \/ CleanupFails
  BY <1>1, <1>8 DEF WriteTimesOut, CleanupFails, Raising, IdleWorker, WorkerStates
<1> QED BY <1>2, <1>3, <1>4, <1>5, <1>6, <1>7, <1>8, ConsumerSteps

\* What is compiled stays recent, as long as its row has not been written.
LEMMA RecordNext ==
  ASSUME WorkerInv, KindsInStep, OutputsInStep, CurrentInStep, [Next]_vars,
         w'.pc \in {"published", "record"}, Kind' = "compile"
  PROVE  job'[w'.job].fp <= output'[Target']
<1> /\ TypeOK /\ w.made \in Nat /\ EncodedInStep
  BY DEF WorkerInv, TypeOK, CurrentInStep, WorkerStates
<1>1. \/ TryBlock /\ w'.job = w.job
      \/ OthersStep
  BY HoldsUnready DEF Unready, EncodingPcs, ClipPcs
<1>2. w'.job = w.job /\ w.job # NoJob
  BY <1>1, TryEffect, WorkerAssumption DEF OthersStep, WorkerInv, ConsumerInStep, NoJobPcs, Holding
<1>3. /\ Kind' = Kind /\ Target' = Target /\ job'[w'.job].fp = job[w.job].fp
      /\ w.job \in Jobs /\ job[w.job].state # "none"
  BY <1>2, JobInHandStays, RowsStay DEF WorkerInv, ConsumerInStep, Keeps
<1>4. Target \in Clips
  BY <1>3 DEF WorkerInv, RowsNameClips, NamesClip, Kind, Target
<1>5. CASE Publish
  <2>1. w.made > 0
    BY <1>5 DEF Publish, At, OutputsInStep, MadeInStep
  <2>2. job[w.job].fp <= w.made
    BY <1>2, <1>3, <2>1 DEF EncodedInStep, Encodes
  <2>3. output'[Target] = w.made
    BY <1>3, <1>4, <1>5 DEF Publish, TypeOK
  <2> QED BY <1>3, <2>2, <2>3
<1>6. CASE ~Publish
  <2>1. output' = output
    BY <1>6, OutputsChange
  <2>2. w.pc \in {"published", "record"}
    <3>1. CASE TryBlock
      BY <1>6, <3>1, TrySucceeds
    <3>2. CASE OthersStep
      BY <3>2 DEF OthersStep
    <3> QED BY <1>1, <3>1, <3>2
  <2> QED BY <1>3, <2>1, <2>2 DEF EncodedInStep
<1> QED BY <1>5, <1>6

\* A clip is not ready while its compile job is under way.
LEMMA UnreadyNext ==
  ASSUME WorkerInv, KindsInStep, CurrentInStep, [Next]_vars, w'.pc \in Unready
  PROVE  /\ w'.pc \in {"noteread", "note"} => Kind' \in {"compile", "edit"}
         /\ Kind' = "compile" => clip'[Target'].state # "ready"
<1> /\ TypeOK /\ QueueTypeOK /\ EncodedInStep
  BY DEF WorkerInv, TypeOK, CurrentInStep
<1>1. ASSUME w.pc \in Unready, w'.job = w.job, w'.pc # "finish",
             w'.pc \in {"noteread", "note"} => w.pc \in {"noteread", "note"}
      PROVE  /\ w'.pc \in {"noteread", "note"} => Kind' \in {"compile", "edit"}
             /\ Kind' = "compile" => clip'[Target'].state # "ready"
  <2>1. w.job # NoJob /\ w.job \in Jobs /\ job[w.job].state # "none"
    BY <1>1, HeldFacts DEF Unready, EncodingPcs, ClipPcs, NoJobPcs, WorkerInv, ConsumerInStep
  <2>2. Kind' = Kind /\ Target' = Target
    BY <1>1, <2>1, JobInHandStays
  <2>3. ASSUME Kind = "compile"
        PROVE  clip'[Target].state # "ready"
    <3>1. Target \in Clips
      BY <2>1, <2>3 DEF WorkerInv, RowsNameClips, NamesClip, Kind, Target
    <3>2. clip[Target].state # "ready" /\ w.pc # "scanning"
      BY <1>1, <2>3 DEF EncodedInStep, Unready, EncodingPcs, ClipPcs
    <3>3. ~Record
      BY <1>1 DEF Record, Settle, TypeOK, WorkerStates
    <3> QED BY <3>1, <3>2, <3>3, RowsChange DEF Plain, Claims, Recorded
  <2> QED BY <1>1, <2>2, <2>3 DEF EncodedInStep
<1>2. CASE TryBlock /\ w'.job = w.job /\ w'.pc \in EncodingPcs
  <2>1. w.pc \in EncodingPcs
    BY <1>2, TryKeepsKind
  <2> QED BY <1>1, <1>2, <2>1 DEF Unready, EncodingPcs, ClipPcs
<1>3. ASSUME w'.pc = "mkdir", NEW j \in Jobs, ClaimNext(j), w'.job = j
      PROVE  Kind' = "compile" => clip'[Target'].state # "ready"
  <2>1. job'[j].kind = job[j].kind /\ job'[j].clip = job[j].clip /\ job[j].state = "queued"
    BY <1>3, ClaimKeepsRows, ClaimEffect DEF Keeps
  <2>2. ASSUME job[j].kind = "compile"
        PROVE  clip'[job[j].clip].state # "ready"
    <3>1. job[j].clip \in Clips /\ clip' = SetClip(job[j].clip, "compiling")
      BY <1>3, <2>1, <2>2 DEF ClaimNext, WorkerInv, RowsNameClips, NamesClip
    <3> QED BY <3>1 DEF SetClip, QueueTypeOK, ClipRows
  <2> QED BY <1>3, <2>1, <2>2 DEF Kind, Target
<1>4. CASE Finish /\ w.result = "failed" /\ Kind \in {"compile", "edit"} /\ w'.job = w.job
  <2>1. w.job # NoJob /\ w.job \in Jobs /\ job[w.job].state # "none"
    BY <1>4, HeldFacts DEF Finish, At, NoJobPcs, WorkerInv, ConsumerInStep
  <2>2. Kind' = Kind /\ Target' = Target
    BY <1>4, <2>1, JobInHandStays
  <2>3. ASSUME Kind = "compile"
        PROVE  clip'[Target].state # "ready"
    <3>1. Target \in Clips
      BY <2>1, <2>3 DEF WorkerInv, RowsNameClips, NamesClip, Kind, Target
    <3>2. clip' = SetClip(Target, "failed")
      BY <1>4, <2>3 DEF Finish, Update, Kind, Target
    <3> QED BY <3>1, <3>2 DEF SetClip, QueueTypeOK, ClipRows
  <2> QED BY <1>4, <2>2, <2>3
<1>5. CASE ReadClipToNote /\ w.pc = "noteread" /\ w'.pc = "note" /\ w'.job = w.job
  BY <1>1, <1>5 DEF Unready
<1>6. CASE OthersStep
  BY <1>1, <1>6 DEF OthersStep, Unready, EncodingPcs, ClipPcs
<1> QED BY <1>2, <1>3, <1>4, <1>5, <1>6, HoldsUnready

\* The row that a scan job has read is one it finds, or has found before.
LEMMA ScanReadNext ==
  ASSUME WorkerInv, CurrentInStep, "hide" \notin Ops, [Next]_vars, w'.pc = "scanning"
  PROVE  \A r : r = w'.read /\ r.clip \in Clips =>
           /\ r.seen.state # "deleted" /\ (r.seen.state = "ready" => r.seen.fp <= output'[r.clip])
           /\ r.rev <= source'[r.clip]
<1> w \in WorkerStates
  BY DEF WorkerInv, TypeOK
<1>1. WorkerScanRead \/ OthersStep
  <2>1. CASE TryBlock
    <3>1. CASE MakeTemp \/ Prepare \/ Poll \/ Tick \/ ProcessExits \/ Deadline \/ NextPhase
               \/ NoteNoProgress \/ Judge \/ Validate
      BY <3>1 DEF MakeTemp, Prepare, Poll, Tick, ProcessExits, Deadline, NextPhase, NoteNoProgress,
         Judge, Validate, FailAttempt, Settle, Raising, WorkerStates
    <3>2. CASE Publish \/ ReadClip \/ Record \/ Raise \/ Except \/ Sweep \/ WorkerScanCommit
      BY <3>2 DEF Publish, ReadClip, ReadRow, Record, Settle, Raise, Raising, Except, Sweep,
         WorkerScanCommit, WorkerStates
    <3> QED BY <2>1, <3>1, <3>2 DEF TryBlock
  <2>2. CASE Claim
    BY <2>2, ClaimedJob DEF IdleWorker
  <2>3. CASE Finish \/ ReadClipToNote \/ RecordFailure \/ WriteTimesOut \/ CleanupFails
    BY <2>3, AfterFinish DEF IdleWorker
  <2>4. CASE Loop \/ Cleanup \/ Abort \/ Stopped \/ Crash
    BY <2>4 DEF Loop, Cleanup, Abort, Stopped, Crash, IdleWorker, WorkerStates
  <2> QED BY <2>1, <2>2, <2>3, <2>4, ConsumerSteps
<1>2. output' = output
  BY <1>1 DEF WorkerScanRead, OthersStep, fileVars
<1>3. SUFFICES ASSUME NEW r, r = w'.read, r.clip \in Clips
               PROVE  Recent(r.seen, r.clip) /\ r.rev <= source[r.clip] /\ r.rev \in Nat
  BY <1>2, SourcesGrow DEF Recent
<1>4. CASE WorkerScanRead
  <2>1. r \in FirstReads
    BY <1>3, <1>4 DEF WorkerScanRead, WorkerStates
  <2>2. r.seen = clip[r.clip] /\ r.rev = source[r.clip]
    BY <1>3, <2>1, QueueAssumption DEF FirstReads, NoRead
  <2>3. source[r.clip] \in Nat
    BY <1>3, SourcesGrow
  <2> QED BY <1>3, <2>2, <2>3 DEF CurrentInStep
<1>5. CASE OthersStep
  <2>1. w' = w /\ r.rev \in Nat
    BY <1>3, <1>5 DEF OthersStep, WorkerStates, Reads
  <2> QED BY <1>3, <2>1 DEF CurrentInStep, EncodedInStep
<1> QED BY <1>1, <1>4, <1>5

LEMMA RecentNext ==
  ASSUME WorkerInv, KindsInStep, CurrentInStep, [Next]_vars, NEW c \in Clips
  PROVE  Recent(clip[c], c)'
<1> /\ TypeOK /\ EncodedInStep /\ Recent(clip[c], c)
  BY DEF WorkerInv, TypeOK, CurrentInStep
<1>1. CASE Plain(c)
  <2>1. ASSUME clip'[c].state = "ready"
        PROVE  clip'[c].fp <= output'[c]
    <3>1. clip[c].state = "ready" /\ clip'[c].fp = clip[c].fp /\ clip[c].fp <= output[c]
      BY <1>1, <2>1 DEF Plain, Recent
    <3>2. output'[c] = output[c]
      <4>1. CASE Publish /\ Kind = "compile" /\ c = Target
        BY <3>1, <4>1 DEF Publish, At, EncodedInStep, Unready, EncodingPcs, ClipPcs
      <4> QED BY <4>1, OutputsChange DEF TypeOK
    <3> QED BY <3>1, <3>2
  <2> QED BY <1>1, <2>1 DEF Plain, Recent
<1>2. CASE Claims(c, w.pc = "scanning")
  <2>1. w.pc = "scanning" => output' = output
    BY OutputsChange DEF Publish, At
  <2> QED BY <1>2, <2>1 DEF Claims, Recent
<1>3. CASE Recorded(c)
  <2>1. w.pc = "record" /\ output' = output
    BY <1>3 DEF Recorded, Record, At, fileVars
  <2> QED BY <1>3, <2>1 DEF Recorded, EncodedInStep, Recent
<1> QED BY <1>1, <1>2, <1>3, RowsChange

LEMMA CurrentNext ==
  ASSUME WorkerInv, FilesInStep, CurrentInStep, "recompile" \notin Ops, "hide" \notin Ops,
         [Next]_vars
  PROVE  CurrentInStep'
<1> KindsInStep /\ OutputsInStep
  BY DEF FilesInStep
<1>1. ScansInside'
  BY ScansInsideNext DEF CurrentInStep
<1>2. FingerprintsInStep'
  BY FingerprintsNext
<1>3. \A c \in Clips : Recent(clip[c], c)'
  BY RecentNext
<1>4. w'.job # NoJob => (Encodes(w.began) /\ Encodes(w.made))'
  BY EncodesNext
<1>5. w'.pc \in {"published", "record"} /\ Kind' = "compile" => job'[w'.job].fp <= output'[Target']
  BY RecordNext
<1>6. w'.pc \in {"noteread", "note"} => Kind' \in {"compile", "edit"}
  BY UnreadyNext DEF Unready
<1>7. w'.pc \in Unready /\ Kind' = "compile" => clip'[Target'].state # "ready"
  BY UnreadyNext
<1>8. ASSUME w'.pc = "scanning", w'.read.clip \in Clips
      PROVE  Recent(w.read.seen, w.read.clip)' /\ w'.read.rev <= source'[w'.read.clip]
  BY <1>8, ScanReadNext DEF Recent
<1>9. EncodedInStep'
  BY <1>4, <1>5, <1>6, <1>7, <1>8 DEF EncodedInStep
<1> QED BY <1>1, <1>2, <1>3, <1>9 DEF CurrentInStep

LEMMA InitCurrent == Init => CurrentInStep
<1> SUFFICES ASSUME Init PROVE CurrentInStep
  OBVIOUS
<1>1. /\ w.pc = "idle" /\ w.job = NoJob /\ missing = {}
      /\ \A h \in Handlers : req[h].pc = "idle" /\ ~req[h].recompile
  BY DEF Init, IdleWorker, IdleReq
<1>2. \A j \in Jobs : job[j].state = "none"
  BY DEF Init, QueueInit, NoRow
<1>3. \A c \in Clips : clip[c].state = "discovered" /\ clip[c].fp = 1 /\ source[c] = 1 /\ output[c] = 0
  BY DEF Init, QueueInit
<1> QED BY <1>1, <1>2, <1>3 DEF CurrentInStep, ScansInside, FingerprintsInStep, EncodedInStep, Inserting,
       Recent, Unready, EncodingPcs, ClipPcs

\* Where no request scans outside of a transaction and source files are only replaced,
\* not hidden, a ready clip whose recorded fingerprint is that of its source file was
\* compiled from that very content: no order of edits, replaced files, scans, jobs
\* built from older fingerprints, crashes and writes that time out makes an outdated
\* output pass for a current one.
THEOREM ReadyOutputsAreCurrent ==
  ASSUME "recompile" \notin Ops, "hide" \notin Ops
  PROVE  Spec => []ReadyIsCurrent
<1>1. WorkerInv /\ FilesInStep /\ CurrentInStep /\ [Next]_vars => CurrentInStep'
  BY CurrentNext
<1>2. WorkerInv /\ CurrentInStep => ReadyIsCurrent
  <2> SUFFICES ASSUME WorkerInv, CurrentInStep, NEW c \in Clips,
                      clip[c].state = "ready", clip[c].fp = source[c]
               PROVE  output[c] = source[c]
    BY DEF ReadyIsCurrent
  <2>1. source[c] \in Nat /\ output[c] \in Nat
    BY DEF WorkerInv, TypeOK
  <2>2. source[c] <= output[c] /\ output[c] <= source[c]
    BY DEF CurrentInStep, FingerprintsInStep, Recent
  <2> QED BY <2>1, <2>2
<1>3. Spec => []CurrentInStep
  BY <1>1, InitCurrent, WorkerInvariant, FilesInvariant, PTL DEF Spec
<1> QED BY <1>2, <1>3, WorkerInvariant, PTL
=============================================================================
