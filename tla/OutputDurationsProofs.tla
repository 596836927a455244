------------------------ MODULE OutputDurationsProofs ------------------------
(***************************************************************************)
(* MeasuredIsPlayed for any number of clips, clients and changes.  What a  *)
(* request has measured was the file when it looked at it last; what can   *)
(* happen to the file before the request writes is a removal, or a         *)
(* publication, which is recorded or cut short.                            *)
(***************************************************************************)
EXTENDS OutputDurations, TLAPS

Rows == [Clips -> [avail: BOOLEAN, dur: Nat, stamp: Nat]]

Requests ==
  [pc: {"idle", "row", "before", "probe", "after", "write"}, todo: SUBSET Clips,
   clip: Clips \cup {Free}, budget: Budgets, seen: Nat, before: Nat, got: Nat]

\* The duration of clip c may be set to that of version v.
MayRecord(c, v) ==
  v = file[c] \/ file[c] = 0 \/ c = job \/ c \in cut \/ row[c].dur # 0

\* What a request in state q knows: versions of a file are numbered, and one that was
\* replaced does not return; what was probed is what was looked at, or the second look
\* will tell; and what is about to be written may be.
RequestOK(q) ==
  /\ q.pc \notin {"idle", "row"} => q.clip \in Clips
  /\ q.pc \in {"probe", "after"} => q.before # 0 /\ q.before <= changes + 1
  /\ q.pc = "after" => q.got = q.before \/ file[q.clip] # q.before
  /\ q.pc = "write" => MayRecord(q.clip, q.got)

RequestsOK ==
  /\ reader \in [Readers -> Requests]
  /\ \A r \in Readers : RequestOK(reader[r])

WorkerOK ==
  /\ job \in Clips \cup {Free} /\ changes \in Nat
  /\ \A c \in Clips : file[c] <= changes + 1

DurationInv == TypeOK /\ RequestsOK /\ WorkerOK /\ MeasuredIsPlayed

-----------------------------------------------------------------------------
LEMMA InitHolds == Init => DurationInv
<1> SUFFICES ASSUME Init PROVE DurationInv
  OBVIOUS
<1> USE DurationsAssumption
<1>1. Idle \in Requests
  BY DEF Idle, Requests, Budgets
<1>2. TypeOK
  BY <1>1 DEF Init, TypeOK, Idle
<1>3. RequestsOK
  BY <1>1 DEF Init, RequestsOK, RequestOK, Idle
<1>4. WorkerOK
  BY DEF Init, WorkerOK
<1>5. MeasuredIsPlayed
  BY DEF Init, MeasuredIsPlayed
<1> QED BY <1>2, <1>3, <1>4, <1>5 DEF DurationInv

\* A step of a request that changes nothing but the request, the lock, the throttle
\* and, at its end, a row.
LEMMA RequestKeeps ==
  ASSUME DurationInv, NEW r \in Readers, NEW to \in Requests, Goes(r, to),
         UNCHANGED <<file, job, cut>>, changes' \in Nat, changes <= changes',
         row' \in Rows, wait' \in [Clips -> 0 .. Retry], lock' \in Readers \cup {Free},
         \A c \in Clips : row[c].dur # 0 => row'[c].dur # 0,
         MeasuredIsPlayed', RequestOK(to)
  PROVE  DurationInv'
<1> USE DurationsAssumption
<1>1. reader \in [Readers -> Requests] /\ file \in [Clips -> Nat] /\ changes \in Nat
  BY DEF DurationInv, TypeOK, RequestsOK, WorkerOK
<1>2. reader' \in [Readers -> Requests]
  BY <1>1 DEF Goes
<1>3. ASSUME NEW q \in Requests, RequestOK(q) PROVE RequestOK(q)'
  <2>1. file' = file /\ job' = job /\ cut' = cut
    OBVIOUS
  <2>2. q.pc \notin {"idle", "row"} => q.clip \in Clips
    BY <1>3 DEF RequestOK
  <2>3. q.pc \in {"probe", "after"} => q.before # 0 /\ q.before <= changes' + 1
    BY <1>1, <1>3 DEF RequestOK, Requests
  <2>4. q.pc = "after" => q.got = q.before \/ file'[q.clip] # q.before
    BY <1>3, <2>1 DEF RequestOK
  <2>5. q.pc = "write" => MayRecord(q.clip, q.got)'
    BY <1>3, <2>1, <2>2 DEF RequestOK, MayRecord
  <2> QED BY <2>2, <2>3, <2>4, <2>5 DEF RequestOK
<1>4. RequestsOK'
  <2>1. ASSUME NEW s \in Readers PROVE RequestOK(reader[s])'
    <3>1. reader'[s] \in Requests /\ RequestOK(reader'[s])
      BY <1>1, <1>2 DEF Goes, DurationInv, RequestsOK
    <3> QED BY <1>3, <3>1
  <2> QED BY <1>2, <2>1 DEF RequestsOK
<1>5. TypeOK'
  BY <1>1, <1>2 DEF TypeOK, Rows, Requests
<1>6. WorkerOK'
  BY <1>1 DEF WorkerOK, DurationInv
<1> QED BY <1>4, <1>5, <1>6 DEF DurationInv

\* Every step of a request keeps the invariant.
LEMMA StepKeeps ==
  ASSUME DurationInv, NEW r \in Readers, Step(r) \/ Poll(r) \/ Visit(r)
  PROVE  DurationInv'
<1> USE DurationsAssumption
<1>1. /\ reader[r] \in Requests /\ RequestOK(reader[r]) /\ row \in Rows
      /\ file \in [Clips -> Nat] /\ wait \in [Clips -> 0 .. Retry] /\ changes \in Nat
      /\ lock \in Readers \cup {Free} /\ MeasuredIsPlayed
      /\ reader[r].budget \in Budgets
      /\ \A c \in Clips : file[c] <= changes + 1
  BY DEF DurationInv, TypeOK, RequestsOK, Requests, WorkerOK, Rows
<1>2. ASSUME row' = row, UNCHANGED <<file, job, cut>> PROVE MeasuredIsPlayed'
  BY <1>1, <1>2 DEF MeasuredIsPlayed
\* The request has nothing at hand after most of its steps.
<1>3. ASSUME NEW todo \in SUBSET Clips, NEW budget \in Budgets, NEW pc \in {"idle", "row"}
      PROVE  /\ [Idle EXCEPT !.pc = pc, !.todo = todo, !.budget = budget] \in Requests
             /\ RequestOK([Idle EXCEPT !.pc = pc, !.todo = todo, !.budget = budget])
  BY DEF Idle, Requests, RequestOK, Budgets
<1>4. CASE Poll(r) \/ Visit(r)
  <2> DEFINE todo == {c \in Clips : Unmeasured(c)}
             to == [Idle EXCEPT !.pc = "row", !.todo = todo]
  <2>1. to \in Requests /\ RequestOK(to)
    BY DEF Idle, Requests, RequestOK, Budgets
  <2>2. Goes(r, to)
    BY <1>4 DEF Poll, Visit, Begin
  <2>3. wait' \in [Clips -> 0 .. Retry]
    BY <1>1, <1>4 DEF Poll, Visit, Left
  <2>4. /\ UNCHANGED <<row, file, lock, job, cut>> /\ changes' \in Nat /\ changes <= changes'
    BY <1>1, <1>4 DEF Poll, Visit, Change
  <2>5. MeasuredIsPlayed'
    BY <1>2, <2>4
  <2> HIDE DEF to
  <2> QED BY <1>1, <2>1, <2>2, <2>3, <2>4, <2>5, RequestKeeps
<1>5. CASE Answer(r)
  <2>1. Idle \in Requests /\ RequestOK(Idle)
    BY DEF Idle, Requests, RequestOK, Budgets
  <2>2. Goes(r, Idle) /\ UNCHANGED <<row, file, lock, wait, job, cut, changes>>
    BY <1>5 DEF Answer
  <2>3. MeasuredIsPlayed'
    BY <1>2, <2>2
  <2> QED BY <1>1, <2>1, <2>2, <2>3, RequestKeeps
\* Steps after which the request passes to the next clip.
<1>6. ASSUME NEW c \in Clips \cup {Free}, NEW budget \in Budgets, Past(r, c, budget),
             UNCHANGED <<file, job, cut, changes>>, row' \in Rows,
             wait' \in [Clips -> 0 .. Retry], lock' \in Readers \cup {Free},
             \A d \in Clips : row[d].dur # 0 => row'[d].dur # 0, MeasuredIsPlayed'
      PROVE  DurationInv'
  <2> DEFINE todo == reader[r].todo \ {c}
             to == [Idle EXCEPT !.pc = "row", !.todo = todo, !.budget = budget]
  <2>1. todo \in SUBSET Clips
    BY <1>1 DEF Requests
  <2>2. to \in Requests /\ RequestOK(to)
    BY <2>1 DEF Idle, Requests, RequestOK, Budgets
  <2>3. Goes(r, to)
    BY <1>6 DEF Past
  <2> HIDE DEF to
  <2> QED BY <1>1, <1>6, <2>2, <2>3, RequestKeeps
\* Steps that pass, without a change of any row.
<1>7. ASSUME NEW c \in Clips \cup {Free}, NEW budget \in Budgets, Past(r, c, budget),
             UNCHANGED <<row, file, job, cut, changes>>,
             wait' = wait, lock' \in {lock, Free}
      PROVE  DurationInv'
  <2>1. MeasuredIsPlayed'
    BY <1>2, <1>7
  <2> QED BY <1>1, <1>6, <1>7, <2>1
<1>8. CASE Skip(r)
  <2>1. PICK c \in Clips : Past(r, c, reader[r].budget)
    BY <1>8 DEF Skip
  <2> QED BY <1>1, <1>7, <1>8, <2>1 DEF Skip
<1>9. CASE Look(r)
  <2>1. PICK c \in Clips : IF Unmeasured(c) /\ wait[c] = 0
                            THEN Measure(r, c) /\ wait' = [wait EXCEPT ![c] = Retry]
                            ELSE Past(r, c, reader[r].budget) /\ UNCHANGED <<lock, wait>>
    BY <1>9 DEF Look
  <2>2. UNCHANGED <<row, file, job, cut, changes>>
    BY <1>9 DEF Look
  <2>3. CASE Unmeasured(c) /\ wait[c] = 0
    <3> DEFINE to == [reader[r] EXCEPT !.pc = "before", !.clip = c, !.seen = row[c].stamp]
    <3>1. to \in Requests /\ RequestOK(to)
      BY <1>1 DEF Requests, RequestOK, Rows
    <3>2. Goes(r, to) /\ lock' = r /\ wait' = [wait EXCEPT ![c] = Retry]
      BY <2>1, <2>3 DEF Measure
    <3>3. wait' \in [Clips -> 0 .. Retry]
      BY <1>1, <3>2
    <3>4. MeasuredIsPlayed'
      BY <1>2, <2>2
    <3> HIDE DEF to
    <3> QED BY <1>1, <2>2, <3>1, <3>2, <3>3, <3>4, RequestKeeps
  <2>4. CASE ~(Unmeasured(c) /\ wait[c] = 0)
    BY <1>1, <1>7, <2>1, <2>2, <2>4
  <2> QED BY <2>3, <2>4
<1>10. CASE Before(r)
  <2> DEFINE c == reader[r].clip
             to == [reader[r] EXCEPT !.pc = "probe", !.before = file[c]]
  <2>1. UNCHANGED <<row, file, wait, job, cut, changes>> /\ c \in Clips
    BY <1>1, <1>10 DEF Before, RequestOK
  <2>2. CASE file[c] # 0
    <3>1. to \in Requests /\ RequestOK(to)
      BY <1>1, <2>1, <2>2 DEF Requests, RequestOK
    <3>2. Goes(r, to) /\ lock' = lock
      BY <1>10, <2>2 DEF Before
    <3>3. MeasuredIsPlayed'
      BY <1>2, <2>1
    <3> HIDE DEF to
    <3> QED BY <1>1, <2>1, <3>1, <3>2, <3>3, RequestKeeps
  <2>3. CASE file[c] = 0
    <3>1. Past(r, c, reader[r].budget) /\ lock' = Free
      BY <1>10, <2>3 DEF Before, Done
    <3> QED BY <1>1, <1>7, <2>1, <3>1
  <2> QED BY <2>2, <2>3
<1>11. CASE Probe(r)
  <2> DEFINE c == reader[r].clip
             to(rest) == [reader[r] EXCEPT !.pc = "after", !.got = file[c], !.budget = rest]
  <2>1. UNCHANGED <<row, file, wait, job, cut, changes>> /\ c \in Clips
    BY <1>1, <1>11 DEF Probe, RequestOK
  <2>2. CASE \E rest \in Budgets : file[c] # 0 /\ Goes(r, to(rest)) /\ lock' = lock
    <3>1. PICK rest \in Budgets : file[c] # 0 /\ Goes(r, to(rest)) /\ lock' = lock
      BY <2>2
    <3>2. to(rest) \in Requests /\ RequestOK(to(rest))
      BY <1>1, <1>11, <2>1, <3>1 DEF Probe, Requests, RequestOK
    <3>3. MeasuredIsPlayed'
      BY <1>2, <2>1
    <3> HIDE DEF to
    <3> QED BY <1>1, <2>1, <3>1, <3>2, <3>3, RequestKeeps
  <2>3. CASE \E rest \in Budgets : Past(r, c, rest) /\ lock' = Free
    BY <1>7, <2>1, <2>3
  <2>4. \/ \E rest \in Budgets : file[c] # 0 /\ Goes(r, to(rest)) /\ lock' = lock
        \/ \E rest \in Budgets : Past(r, c, rest) /\ lock' = Free
    BY <1>1, <1>11 DEF Probe, Done, Budgets
  <2> QED BY <2>2, <2>3, <2>4
<1>12. CASE After(r)
  <2> DEFINE c == reader[r].clip
             to == [reader[r] EXCEPT !.pc = "write"]
  <2>1. UNCHANGED <<row, file, wait, job, cut, changes>> /\ c \in Clips
    BY <1>1, <1>12 DEF After, RequestOK
  <2>2. CASE file[c] = reader[r].before
    <3>1. to \in Requests /\ RequestOK(to)
      BY <1>1, <1>12, <2>1, <2>2 DEF After, Requests, RequestOK, MayRecord
    <3>2. Goes(r, to) /\ lock' = lock
      BY <1>12, <2>2 DEF After
    <3>3. MeasuredIsPlayed'
      BY <1>2, <2>1
    <3> HIDE DEF to
    <3> QED BY <1>1, <2>1, <3>1, <3>2, <3>3, RequestKeeps
  <2>3. CASE file[c] # reader[r].before
    <3>1. Past(r, c, reader[r].budget) /\ lock' = Free
      BY <1>12, <2>3 DEF After, Done
    <3> QED BY <1>1, <1>7, <2>1, <3>1
  <2> QED BY <2>2, <2>3
<1>13. CASE Write(r)
  <2> DEFINE c == reader[r].clip
             v == reader[r].got
  <2>1. c \in Clips /\ v \in Nat /\ MayRecord(c, v)
    BY <1>1, <1>13 DEF Write, RequestOK, Requests
  <2>2. /\ UNCHANGED <<file, job, cut, changes>> /\ Past(r, c, reader[r].budget) /\ lock' = Free
        /\ wait' = [wait EXCEPT ![c] = 0]
    BY <1>13 DEF Write, Done
  <2>3. wait' \in [Clips -> 0 .. Retry]
    <3>1. 0 \in 0 .. Retry
      OBVIOUS
    <3> QED BY <1>1, <2>2, <3>1
  <2>4. row' = row \/ (Unmeasured(c) /\ row' = [row EXCEPT ![c].dur = v])
    BY <1>13 DEF Write
  <2>5. /\ row' \in Rows /\ MeasuredIsPlayed'
        /\ \A d \in Clips : row[d].dur # 0 => row'[d].dur # 0
    <3>1. CASE row' = row
      BY <1>1, <1>2, <2>2, <3>1
    <3>2. CASE Unmeasured(c) /\ row' = [row EXCEPT ![c].dur = v]
      <4>1. row' \in Rows
        BY <1>1, <2>1, <3>2 DEF Rows
      <4>2. \A d \in Clips : row[d].dur # 0 => row'[d].dur # 0
        BY <1>1, <3>2 DEF Rows, Unmeasured
      <4>3. MeasuredIsPlayed'
        BY <1>1, <2>1, <2>2, <3>2 DEF Rows, Unmeasured, MeasuredIsPlayed, MayRecord
      <4> QED BY <4>1, <4>2, <4>3
    <3> QED BY <2>4, <3>1, <3>2
  <2> HIDE DEF c
  <2> QED BY <1>1, <1>6, <2>1, <2>2, <2>3, <2>5
<1> QED BY <1>4, <1>5, <1>8, <1>9, <1>10, <1>11, <1>12, <1>13 DEF Step

-----------------------------------------------------------------------------
\* What the rest of the Worker does to files and rows, without any request.
LEMMA WorkerKeeps ==
  ASSUME DurationInv, (\E c \in Clips : Worker(c)) \/ Record \/ Crash
  PROVE  DurationInv'
<1> USE DurationsAssumption
<1>1. /\ reader \in [Readers -> Requests] /\ (\A r \in Readers : RequestOK(reader[r]))
      /\ row \in Rows /\ file \in [Clips -> Nat] /\ wait \in [Clips -> 0 .. Retry]
      /\ lock \in Readers \cup {Free} /\ job \in Clips \cup {Free} /\ changes \in Nat
      /\ MeasuredIsPlayed /\ \A c \in Clips : file[c] <= changes + 1
  BY DEF DurationInv, TypeOK, RequestsOK, WorkerOK, Rows
<1>2. ASSUME NEW c \in Clips, Replace(c) PROVE DurationInv'
  <2>1. /\ changes' = changes + 1 /\ job = Free /\ job' = c
        /\ file' = [file EXCEPT ![c] = changes + 2] /\ UNCHANGED <<row, reader, lock, wait, cut>>
    BY <1>2 DEF Replace, Change
  <2>2. ASSUME NEW r \in Readers PROVE RequestOK(reader[r])'
    <3> DEFINE q == reader[r]
    <3>1. reader'[r] = q /\ q \in Requests /\ RequestOK(q)
      BY <1>1, <2>1
    <3>2. q.pc \in {"probe", "after"} => q.before # 0 /\ q.before <= changes' + 1
      BY <1>1, <2>1, <3>1 DEF RequestOK, Requests
    <3>3. q.pc = "after" => q.got = q.before \/ file'[q.clip] # q.before
      <4>1. CASE q.clip = c
        BY <1>1, <2>1, <3>1, <4>1 DEF RequestOK, Requests
      <4>2. CASE q.clip # c
        BY <1>1, <2>1, <3>1, <4>2 DEF RequestOK, Requests
      <4> QED BY <4>1, <4>2
    <3>4. q.pc = "write" => \/ q.got = file'[q.clip] \/ file'[q.clip] = 0
                            \/ q.clip = job' \/ q.clip \in cut' \/ row'[q.clip].dur # 0
      BY <1>1, <2>1, <3>1 DEF RequestOK, MayRecord, Requests
    <3> HIDE DEF q
    <3> QED BY <3>1, <3>2, <3>3, <3>4 DEF RequestOK, MayRecord
  <2>3. TypeOK' /\ WorkerOK'
    BY <1>1, <2>1 DEF TypeOK, WorkerOK, Rows, Requests
  <2>4. MeasuredIsPlayed'
    BY <1>1, <2>1 DEF MeasuredIsPlayed, Rows
  <2> QED BY <1>1, <2>1, <2>2, <2>3, <2>4 DEF DurationInv, RequestsOK
\* Steps that leave the requests and the bounds of versions alone.
<1>3. ASSUME UNCHANGED <<reader, lock, wait>>, changes' \in Nat, changes <= changes',
             row' \in Rows, file' \in [Clips -> Nat], job' \in Clips \cup {Free},
             \A c \in Clips : file'[c] \in {0, file[c]},
             \A c \in Clips, v \in Nat : MayRecord(c, v) => MayRecord(c, v)',
             MeasuredIsPlayed'
      PROVE  DurationInv'
  <2>1. ASSUME NEW r \in Readers PROVE RequestOK(reader[r])'
    <3> DEFINE q == reader[r]
    <3>1. reader'[r] = q /\ q \in Requests /\ RequestOK(q)
      BY <1>1, <1>3
    <3>2. q.pc \in {"probe", "after"} => q.before # 0 /\ q.before <= changes' + 1
      BY <1>1, <1>3, <3>1 DEF RequestOK, Requests
    <3>3. q.pc = "after" => q.got = q.before \/ file'[q.clip] # q.before
      BY <1>1, <1>3, <3>1 DEF RequestOK, Requests
    <3>4. q.pc = "write" => \/ q.got = file'[q.clip] \/ file'[q.clip] = 0
                            \/ q.clip = job' \/ q.clip \in cut' \/ row'[q.clip].dur # 0
      BY <1>1, <1>3, <3>1 DEF RequestOK, MayRecord, Requests
    <3> HIDE DEF q
    <3> QED BY <3>1, <3>2, <3>3, <3>4 DEF RequestOK, MayRecord
  <2>2. TypeOK'
    BY <1>1, <1>3 DEF TypeOK, Rows, Requests
  <2>3. WorkerOK'
    BY <1>1, <1>3 DEF WorkerOK
  <2> QED BY <1>1, <1>3, <2>1, <2>2, <2>3 DEF DurationInv, RequestsOK
<1>4. ASSUME NEW c \in Clips, Scan(c) \/ Withdraw(c) PROVE DurationInv'
  <2>1. UNCHANGED <<file, reader, lock, wait, job, cut>> /\ changes' \in Nat /\ changes <= changes'
    BY <1>1, <1>4 DEF Scan, Withdraw, Change
  <2>2. /\ row' \in Rows
        /\ \A d \in Clips : row'[d].dur = row[d].dur /\ (row'[d].avail => row[d].avail)
    <3>1. CASE Scan(c)
      BY <1>1, <3>1 DEF Scan, Rows
    <3>2. CASE Withdraw(c)
      BY <1>1, <3>2 DEF Withdraw, Rows
    <3> QED BY <1>4, <3>1, <3>2
  <2>3. MeasuredIsPlayed'
    BY <1>1, <2>1, <2>2 DEF MeasuredIsPlayed
  <2>4. \A d \in Clips, v \in Nat : MayRecord(d, v) => MayRecord(d, v)'
    BY <2>1, <2>2 DEF MayRecord
  <2> QED BY <1>1, <1>3, <2>1, <2>2, <2>3, <2>4
<1>5. ASSUME NEW c \in Clips, Vanish(c) PROVE DurationInv'
  <2>1. /\ UNCHANGED <<row, reader, lock, wait, job, cut>> /\ changes' \in Nat
        /\ changes <= changes' /\ file' = [file EXCEPT ![c] = 0]
    BY <1>1, <1>5 DEF Vanish, Change
  <2>2. file' \in [Clips -> Nat] /\ \A d \in Clips : file'[d] \in {0, file[d]}
    BY <1>1, <2>1
  <2>3. MeasuredIsPlayed'
    BY <1>1, <2>1, <2>2 DEF MeasuredIsPlayed
  <2>4. \A d \in Clips, v \in Nat : MayRecord(d, v) => MayRecord(d, v)'
    BY <2>1, <2>2 DEF MayRecord
  <2> QED BY <1>1, <1>3, <2>1, <2>2, <2>3, <2>4
<1>6. CASE Record
  <2>1. /\ UNCHANGED <<file, reader, lock, wait, changes>> /\ job \in Clips /\ job' = Free
        /\ cut' = cut \ {job}
    BY <1>1, <1>6 DEF Record
  <2>2. row' = [row EXCEPT ![job] = [avail |-> TRUE, dur |-> file[job], stamp |-> row[job].stamp + 1]]
    BY <1>6 DEF Record
  <2>3. row' \in Rows
    BY <1>1, <2>1, <2>2 DEF Rows
  <2>4. MeasuredIsPlayed'
    BY <1>1, <2>1, <2>2 DEF MeasuredIsPlayed, Rows
  <2>5. \A d \in Clips, v \in Nat : MayRecord(d, v) => MayRecord(d, v)'
    BY <1>1, <2>1, <2>2 DEF MayRecord, Rows
  <2> QED BY <1>1, <1>3, <2>1, <2>3, <2>4, <2>5
\* A crash leaves no request; a file that was not recorded joins those that were cut.
<1>7. CASE Crash
  <2>1. /\ UNCHANGED <<row, file>> /\ reader' = [r \in Readers |-> Idle] /\ lock' = Free
        /\ wait' = [c \in Clips |-> 0] /\ changes' = changes + 1 /\ job' = Free
        /\ cut' = IF job = Free THEN cut ELSE cut \cup {job}
    BY <1>7 DEF Crash, Change
  <2>2. Idle \in Requests /\ RequestOK(Idle)' /\ Idle.todo = {}
    BY DEF Idle, Requests, RequestOK, Budgets
  <2>3. RequestsOK'
    BY <2>1, <2>2 DEF RequestsOK
  <2>4. TypeOK' /\ WorkerOK'
    BY <1>1, <2>1, <2>2 DEF TypeOK, WorkerOK, Rows
  <2>5. MeasuredIsPlayed'
    BY <1>1, <2>1 DEF MeasuredIsPlayed
  <2> QED BY <2>3, <2>4, <2>5 DEF DurationInv
<1> QED BY <1>2, <1>4, <1>5, <1>6, <1>7 DEF Worker

\* The invariant is inductive.
LEMMA NextKeeps == DurationInv /\ [Next]_vars => DurationInv'
<1> SUFFICES ASSUME DurationInv, [Next]_vars PROVE DurationInv'
  OBVIOUS
<1>1. CASE Next
  BY <1>1, StepKeeps, WorkerKeeps DEF Next
<1>2. CASE UNCHANGED vars
  BY <1>2 DEF vars, DurationInv, TypeOK, RequestsOK, RequestOK, MayRecord, WorkerOK,
              MeasuredIsPlayed
<1> QED BY <1>1, <1>2

-----------------------------------------------------------------------------
\* What holds of requests, files and rows in every state, whatever the order of listings,
\* probes, publications, scans, removals and crashes (output_duration.py:24-89).
THEOREM DurationInvariant == Spec => []DurationInv
  BY InitHolds, NextKeeps, PTL DEF Spec

\* Every variable keeps its type; no throttle is longer than a failed probe makes it.
THEOREM TypeCorrect == Spec => []TypeOK
<1>1. DurationInv => TypeOK
  BY DEF DurationInv
<1> QED BY DurationInvariant, <1>1, PTL

\* A duration that a clip is listed with was measured on the file it is played from
\* (output_duration.py:52-84): the two looks at the file, and the conditions of the
\* UPDATE, are enough.
THEOREM MeasuredForever == Spec => []MeasuredIsPlayed
<1>1. DurationInv => MeasuredIsPlayed
  BY DEF DurationInv
<1> QED BY DurationInvariant, <1>1, PTL
=============================================================================
