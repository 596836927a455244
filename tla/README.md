# Cinema Collections: a TLA+ development

Cinema Collections compiles short video clips and plays them before a film. Three
programs share the work. The **Worker** (a FastAPI application in one process,
`app/src/cinema_collections_worker`) scans source directories, compiles clips
with FFmpeg and keeps everything in one SQLite database. The **integration**
(`custom_components/cinema_collections`, inside Home Assistant) resolves the
active collection, selects clips, keeps the playback history and asks the Worker
for compilations on a schedule. The **Manager**, a Vue application
(`app/ui/src`), edits collections, profiles and the library through the
Worker's routes.

The modules here follow the paths on which these programs meet: jobs and the
files they write, uploads and the trash, configuration and its migration,
scheduled compilation from the minute it is due to the row in the queue, and the
choice of the next clip.

## 1. Inventory

Worker paths are relative to `app/src/cinema_collections_worker`, integration
paths to `custom_components/cinema_collections`.

| Component | State | Operations | Talks to | What is hard | What makes it correct |
|---|---|---|---|---|---|
| Job queue, `queue.py` | tables `jobs`, `job_attempts`, the state of `clips` | `enqueue(_many)`, `claim_next`, `update`, `request_cancel`, `has_succeeded` | consumer and requests, each in its own thread and connection | `update` writes a copy of the row taken earlier | one running row; ended jobs stay ended; attempts bounded; no duplicate work |
| Job worker, `jobs.py` | local variables of `run_once`, temp directories, processes | claim, run processes, validate, publish, record, finish, clean up; scan and cleanup jobs; edits | queue, catalog, file system, FFmpeg | every statement may raise or be the last one before a crash; cancellation is polled | success implies publication; every job ends; nothing is left behind |
| Requests and lifespan, `api.py`, `manager_web.py` | requests in progress, idempotency records, the stop event | compile, scan, cleanup, cancel, cancel-all; start, recover, stop | queue, job service, library manager | check and insert are far apart; shutdown races the consumer | one effect per key; a restart loses nothing |
| Catalog, `catalog.py` | rows of `clips` | `scan` | file system, ffprobe | long transaction opened late, commits its caller's; moves inferred from contents | a scan neither hides a change nor revives a state; rows agree with the directory; a clip keeps its identity |
| Output durations, `output_duration.py` | a lock and a throttle in memory, one column of `clips` | `ensure_many` on every listing | ffprobe, compiled files | files are replaced while they are probed; a budget shared by all files of a list | a duration is that of the file played; every file is measured |
| Transactions, `database.py` | connection and nesting depth per thread | `transaction`, `connection`, migration | all of the Worker | nesting, implicit BEGIN and COMMIT, busy timeout | atomicity as documented |
| Trash and rename, `library_manager.py` | source, compiled and trash files, `trash_records`, `lifecycle_requests` | `move_to_trash`, `restore`, `permanently_delete`, `rename_or_move` | file system, rows that jobs write | files and rows change one after the other; copies across mounts; compensation | every file is somewhere, and a record says where |
| Uploads, `library_manager.py`, `useUpload.ts` | `upload_sessions`, staging files, the browser's loop | begin, append, finish, abort, sweep | browser, file system | requests outlive their connections | a catalogued clip has every chunk once |
| Repositories, `repositories.py`, `domain.py` | collections, profiles, revisions, idempotency records, audit | create, patch with expected revision | HTTP layer | replay looked up before the transaction | one default; no lost update; a repeat is accepted |
| Migration, `migration.py` | subentries of the config entry | push, read back, remove | API client | failure half way; requests left behind | nothing is removed that the Worker does not hold |
| History, `history.py` | per collection: round, played clips, reset mark | `async_select`, `async_reset`, daily reset, set-up | Home Assistant's store | saving fails after memory changed; eligible sets vary | no repetition in a round, none passed over |
| Selection, `selection.py` | none | candidates, playback modes | Worker's listing, history | the catalog changes between pages | a ready clip is offered |
| Scheduler, `scheduler.py` | run tokens in the entry's options | `async_handle_due` | API client | overlapping callbacks, pruning, restarts | one batch of jobs per occurrence |
| Resolver and coordinator, `resolver.py`, `coordinator.py` | last snapshot, policies, failures | refresh, publish | Worker over HTTP | stale or missing data | an outage changes nothing, its end everything |
| API client and services, `api_client.py`, `services.py`, `__init__.py` | none of their own | bounded retries under one key, paged listings, services | Worker | timeouts of requests that are still handled | every call ends |
| FFmpeg builder, ffprobe's output, paths, settings, authentication | none | pure functions, subprocess calls | job worker, catalog | quoting, timing arithmetic | unit tests; not a matter of states |
| Entities, flows, other views | none of their own | show and ask | coordinator; Worker | | |

`PROJECT.json` repeats this as `components` with what is modelled of each, and
lists under `hazards` what is hard to test, each at its line, with the properties
that would notice it going wrong.

## 2. Modules

| Module | Models |
|---|---|
| `JobQueue` | `queue.py`: the rows `job` and `clip`, one operator per transaction |
| `Catalog` | the row that `CatalogService.scan` writes for a clip |
| `JobWorker` | composes both with the consumer (`w`), the requests (`req`), the process (`host`) and the files |
| `JobLifecycle` | the abstract specification: what the queue promises to its clients |
| `JobProperties` | the properties of the job system, the refinement mapping and the invariants they rest on |
| `Library` | trash, restore, permanent deletion and rename of one clip |
| `Uploads` | the browser's loop over chunks, upload sessions, publication, abort and sweep |
| `Configuration` | repositories, the Manager's forms, the migration |
| `PlaybackHistory` | `history.py` |
| `Playback` | extends it with the listing of clips and `selection.py`: the callers of `async_select` and what they pass |
| `Resolver` | the pure functions over policies: active collection, due schedules, next schedule |
| `Coordinator` | extends it with polling and the published snapshot |
| `Dispatch` | extends `Resolver` with the scheduler's callbacks, the API client and the Worker's idempotency records |
| `Discovery` | `CatalogService.scan` over a whole directory: new, moved and missing files, with the requests and users that change it |
| `OutputDurations` | `output_duration.py`, with the job, scans and withdrawals that change what it measures |
| `MC...` | definitions for TLC: symmetry and the values of constants |
| `...Proofs` | the theorems about one component (section 4) |

Every module is one composition of the programs that meet in it, with the rest
abstracted: `Dispatch` takes what the coordinator knows from a set (`Coordinator`
says how it comes to know it), `Library` sees a compile job as one step (`JobWorker`
has its steps), `Discovery` sees trash and restore as one step each (`Library` has
theirs), `Playback` sees the Worker as a row that changes.

### How state and steps correspond to the code

* **Threads and coroutines.** A Worker route runs in a thread: its `pc` names the
  next statement at which another thread can be seen or can see it (a database
  transaction, a file operation, an unlocked read) and an action runs up to there.
  `append_chunk` runs on the event loop, but its requests and the other routes
  still interleave with it. A Home Assistant coroutine runs without interruption
  between two awaits, so that `async_select` is two steps: up to `await
  async_save`, and from there.
* **The consumer.** `w.attempt` and `w.cancel` are the consumer's *copy* of the
  row; `SaveProgress` and `Finish` write that copy back, as `queue.update` does.
  `w.read` is a row read in one step and used in a later one. Processes are
  abstract: `Poll` looks at the cancel flag, `Tick` is 0.2 s without an end,
  `ProcessExits` and `Deadline` are the ends.
* **Transactions.** A `POST /api/v1/compile` begins one with `BEGIN IMMEDIATE`
  (`api.py:391`); the scan it calls runs `with self.db.connection`, which
  *commits* it (`catalog.py:171`). `JobWorker.CanWrite` says that nobody writes
  while a request holds the lock; in `Dispatch` the same request is `Scan` (key
  looked up, transaction gone) and `Store` (jobs and record, in a new one, where a
  second record for the key violates the primary key). In `Configuration`
  `Lookup` precedes `Transact`.
* **Scans.** Python begins a scan's transaction at the first UPDATE, so the row
  of the first file (`FirstReads`) is older than the rest. In a recompile request
  and a scan job that read is a step of its own. The remaining steps of a scan,
  up to its commit, are one step: no writer can interleave. In `Discovery`, where
  users move files while the scan goes on, each file is a step: `Look` and `Write`
  for the first, `Visit` for the others, which sees the scan's own rows
  (`scan[s].rows`), and `Commit`, which writes them; a file that is gone when its
  turn comes fails the scan and rolls them back (`Fail`).
* **Listings.** A request of `OutputDurations` goes through the clips that had no
  duration when it began: look at the row under the lock, look at the file, probe,
  look again, write. A version of a compiled file stands for its content, its
  duration and its `stat`.
* **Files.** In `JobWorker`, `source[c]` is the revision of a file's content and
  stands for its fingerprint; `output[c]` is the revision a compiled file was made
  from. In `Library` a file is whole, or a part (being copied or given up), or cut
  (the complete copy of a part); a move within a file system is one step, one to
  another is check, open, copy and unlink, and `Follow` lets a copy go on into a
  file that is moved meanwhile. In `Uploads` a file is the sequence of blocks that
  were written to it.
* **Requests that outlive their clients.** `LoseConnection`, `GiveUp` and
  `Timeout` take the client away from a request in progress and let the handler go
  on. Only a request that carries an idempotency key is sent again.
* **Crashes** take away what is in memory and leave tables and files; half of a
  transaction never remains. Home Assistant's restarts take back what its store
  had not written (`PlaybackHistory.stored`, `Configuration.saved`).
* **History variables** are named as such: `ledger`, `kept` and `heard` in
  `PlaybackHistory` hold what callers were answered; `author`, `base` and `again`
  in `Configuration` who wrote a row and what its author had read; `crossed` in
  `Library` and `Uploads` mark meetings of requests that the code does not guard
  against (section 5): in `Library` two requests that move one file at once, of which
  one puts it back or renames it onto the other's path.

## 3. Runs

`CHECK_DEADLOCK FALSE` where users and faults are all that moves the system: they are
bounded, and when they are used up it may really rest. `OutputDurations`, whose
coordinator polls for ever, is checked for deadlock.

| Run | Question | Result |
|---|---|---|
| `WorkerFaults` | one held running row, attempt cap, no leaked directory, with crashes, exceptions everywhere, writes that time out and directories that cannot be removed | holds |
| `WorkerFiles` | a succeeded job has published; a ready clip with an unchanged fingerprint is current; the Worker implements `JobLifecycle` | holds |
| `Requests` | no duplicate work among two concurrent requests; a clip is offered only if its compiled file exists, also when sources vanish and return | holds |
| `WorkerLiveness` | every queued job ends; a shutdown ends; an edit is applied once | holds |
| `Playback` | no repetition, none passed over, rounds that only advance, a truthful reset flag, every ready clip offered | holds |
| `Coordinator` | an outage keeps the selection, its end renews it, the next compilation named is the next one due | holds |
| `Dispatch` | jobs once per occurrence, truthful tokens, bounded tokens, every callback ends | holds |
| `Library` | every file in the trash has a record; what can be restored is complete; no file is lost | holds |
| `Uploads` | a catalogued clip is complete; staging stays within the cap; success leaves nothing behind | holds |
| `Configuration` | the migration loses nothing; repeats are accepted; one default, handed over; no blind overwrite | holds |
| `OutputDurations` | durations are those of the files played; every file that can be probed in time is measured, although one ahead of it cannot | holds |
| `Discovery` | an undisturbed scan reconciles rows and directory after anything; a moved file keeps its clip | holds |

Each property has a mutant: a definition named `...` in a comment
"Mutant:" beside the one it replaces, which breaks the property. Mutants are
otherwise unused.

### What the properties say

* `NoRepeat` and `MarksAreEarned` bound the history from both sides: what was
  answered in a round is not answered again, and what counts as played was
  answered, is in hand, or was claimed by a call that failed. `RolloverIsEarned`
  follows the same ledger at the end of a round, `RoundsAreDurable` across
  restarts, `FlagMatchesRound` in what the caller is told.
* `OutageKeepsSelection` and `CatchesUp` are the two halves of "a dropped poll does
  not reshuffle the selection". `NextScheduleIsNext` compares two pieces of code
  that compute the same thing in different ways: the search of the coordinator and
  the test of the scheduler.
* `OncePerOccurrence` speaks of the rows that are queued in the Worker for a minute
  in Home Assistant, over a retried request, two callbacks, a pruned token, and a
  transaction that a scan cuts in two.
* `NothingIsLost` is the promise of `_move_exact` with `_compensate_moves`, over
  every interleaving of two operations and one fault; `EveryFileHasRecord` is what
  the comment in `database.py` says of recovery.
* `CataloguedIsComplete` compares what the browser meant with what lies in the
  library, although `bytes_received` is never compared with a size.
* `ScanReconciles` is about a scan during which nothing else happens (`quiet`), after
  a past in which anything may have: half-done uploads and renames, crashes, scans
  that overlapped, failed or saw files move. It is an action property, since the
  next user breaks the agreement again. `MoveKeepsIdentity` says for every order of
  the walk what the comment in `scan` says of one file: a clip is moved only to its
  own file, and when that is certain it is.
* `MeasuredIsPlayed` rests on the two looks at the file *and* on the conditions of the
  UPDATE: the looks do not see a file that is replaced after the second, the
  conditions do not see one that is in place but not yet recorded.
* `RemovedMeansStored` is the module comment of `migration.py`. The case that makes
  it hard: a request of an attempt given up, or of an earlier start, is still under
  way when the read-back finds everything in order.

### Bounds

* *Job runs.* Two jobs, one clip, one or two requests at a time, two attempts (one
  in `Requests`), one stop of the process, one or two contents of a file. Two jobs
  for one clip are the smallest instance in which one job waits for, duplicates or
  outlives another; two attempts the smallest with a retry and a cap; one stop the
  smallest in which a job is interrupted and run again. `Ops` selects what users do.
* *Playback.* One collection of two clips, two calls, three rounds, two days, one
  fault, one change of the catalog, pages of one clip. Records of different
  collections meet only in resets, which go over all of them alike.
* *Coordinator.* Two collections, a week of two days of two minutes, two events, and
  43 failures in a row, one more than the arithmetic survives.
* *Dispatch.* Two collections, two minutes, two callbacks from up to two listeners,
  two requests in the Worker, two attempts, one outage or restart, a limit of one
  token, so that every second token pushes one out.
* *Library.* Two requests at a time, two records, four requests in all, one fault,
  the trash on another file system, as the App mounts it. A permanent deletion that
  leaves files behind is such a fault. On one file system each
  move is a step of the same kind as `rename`'s.
* *Uploads.* Two browsers, three requests (two browsers' and a sweep, or one that
  lost its browser), files of two and three blocks under a cap of two, three faults.
* *OutputDurations.* Three clips, of which the first cannot be probed in time, the
  coordinator and one Manager, two changes. Polls come every 30 seconds and a probe
  that failed is repeated after 60, so that `Retry` is two polls.
* *Discovery.* Three clips, three paths, two contents, two scans, three changes:
  enough for a copy beside a moved file, for two clips with one content and for a
  name that is used again. Clips, paths, contents and scans are symmetric.
* *Configuration.* One profile, two collections, one user with one save, two
  requests at a time, two attempts, one fault. Two collections are the smallest
  number with a default to hand over; two requests the smallest in which one is
  left behind.

### Fairness

* `JobWorker.FairSpec`: the consumer thread keeps running and gets the write lock
  again and again (`SF_vars(Consume)`: `busy_timeout` is 30 s, and a write that
  waits longer is the subject of `DbTimeouts`, a directory that cannot be removed that
  of `RemovalFails`; both are FALSE here); 0.2 s pass
  (`WF_vars(Tick)`); a process that is waited for over and over ends or meets its
  deadline (`SF_vars(Deadline \/ ProcessExits)`); the scan inside a request ends
  (each ffprobe has a timeout); `asyncio` resumes the shutdown when its consumer has
  ended (`WF_vars(Stopped)`).
* `Dispatch.FairSpec`: the event loop resumes a callback, the client's timeout of a
  request expires, and a request in the Worker is handled. Not that time passes or
  that the Worker comes back.
* `Coordinator.FairSpec`: Home Assistant goes on polling, and the Supervisor starts
  the Worker again after it ended.

* `OutputDurations.Spec`: requests that list clips go on, the coordinator polls for
  ever, a job records the file it has published. Not that any Manager lists clips.

Nothing is assumed of users, other requests, crashes or restarts.

## 4. Proofs

Each `...Proofs` module proves its component's inductive invariant for every value
of the constants, and from it the properties. Model checking a small instance came
first for every conjunct.

**`JobWorkerProofs`**: `WorkerInvariant`, `TypeCorrect`, `OneRunningJob`,
`AttemptCap`, for every number of jobs, clips and requests, every cap and bound,
with and without writes that time out and directories that cannot be removed, from
`QueueAssumption` and `WorkerAssumption`. Neither property is inductive. That a finished job is not made
running again by a late write needs to know that the consumer writes only the row
it holds, and that this row is the running one; that the copy `w.attempt` cannot
lower or raise an attempt needs `w.attempt = job[w.job].attempt`, although requests
and restarts write rows too; that a new row is no other job's needs the UUIDs of
requests in progress to be unused and distinct. These facts are `ConsumerInStep`,
`RequestsInStep` and `RowsNameClips`. The *Effect* lemmas say what each transaction
of the queue writes; the *Step* lemmas take groups of actions.

**`DispatchProofs`**: `DispatchInvariant`, `JobsOncePerOccurrence`,
`TokensSayTheTruth`, for every number of callbacks, listeners and requests, every
limit and every set of schedules, from `ResolverAssumption` and
`DispatchAssumption`. `SucceededMeansAccepted` needs `AnswersAreOwn`: the answer a
callback takes for its own is about its current occurrence, which is true because a
slot is given to one callback, freed by its answer and forgotten by a timeout, and
because the plan of a callback does not change while it waits.
`OncePerOccurrence` needs `JobsAreRecorded`: jobs and key are committed together, so
whoever finds no record finds no jobs. That the current occurrence is one at all
needs the smallest element of a set of numbers, which rests on the well-foundedness
of `<` (`FirstIsMember`).

**`ConfigurationProofs`**: `ConfigurationInvariant`, `TypeCorrect`,
`NothingIsForgotten`, `RepeatsAreAccepted`, and from the invariant the action
properties `DefaultHandedOver` and `FormsOverwriteWhatTheyShow`, for every number of
records, users and handlers, every bound and any number of restarts, from
`ConfigurationAssumption`. The hard case is `RemovedMeansStored`: handlers that the
migration has given up on are still to write. The argument is one about revisions.
A patch names the revision it was made for; `PushIsLatest` says that of the
migration's requests on a record none is newer than the one it waits for, so that
when that one has been carried out all others find a revision that has passed
(`PushedIsOver`), and what the read-back has found can only be changed by users
(`ReadBackStands`). `RepeatIsAccepted` needs `LogIsPast` and `RepeatsAreLogged`: a
key in the log is found by every look-up that follows, and a request whose key is in
the log is never begun again. `NoBlindOverwrite` needs `FormsNoticed`: every write
of a row, a demotion included, raises its revision.

**`OutputDurationsProofs`**: `DurationInvariant`, `TypeCorrect`, `MeasuredForever`, for
every number of clips, clients and changes, any set of slow files and any throttle,
from `DurationsAssumption`. `MeasuredIsPlayed` needs to know what a request that is
about to write may write (`MayRecord`): what it measured is the file that is there,
or the file is gone, or a job has replaced it and has not recorded it, or never
will, or the row has a duration and the UPDATE will not match. That this is so after
the second look (`RequestOK`) rests on versions that do not return: the two looks
agree only if the probe between them saw the same file. Steps of requests are
reduced to one lemma (`RequestKeeps`), which takes the state they go to.

**`JobWorkerProofs`, what the queue promises.** `QueueImplementsLifecycle` is the
refinement of `JobLifecycle`, step by step: every row that leaves "queued", "running"
or an outcome does so as the lifecycle allows. It has the condition `~DbTimeouts`.
A write that waits longer than `busy_timeout` after the outcome was written
(`jobs.py:1087`) makes the consumer finish the job a second time, and a job that has
succeeded becomes a queued one; the run `WorkerFiles` has the condition too. With it,
`HoldsRunning` is inductive: while the consumer holds a job its row is running.

**`JobWorkerProofs`, what jobs leave behind.** `FilesInvariant` says that four facts
are inductive beside `WorkerInv`: the branch of `run_once` fits the kind of the job
(`KindsInStep`), directories (`TempsInStep`), publications (`PublishedInStep`) and
compiled files (`OutputsInStep`). From it follow `NoDirectoryLeaks`,
`SuccessIsPublished` and `OfferedClipsExist`, with writes that time out as well; a
directory that cannot be removed is the one the stranded consumer still names. For
the last one it does not suffice to look at rows: scans, jobs and requests write rows
back that they have read before, so that what they hold in their hands must not
promise more than the row does (`ReadHolds`). Three theorems have conditions, each of
them because the property is false without it:

* `EditsApplyOnce` needs `~DbTimeouts`. The directory of an interrupted edit makes the
  next attempt fail, and every cleanup job waits behind the edit (`EditsInStep`,
  by the order of `created_at`: `Ages`). An abort after a write that timed out
  removes the directory of an edit whose row is still running.
* `NoWorkIsQueuedTwice` needs `~DbTimeouts`, since a job that has ended could be queued
  again, and `"compile" \notin Ops`: the scan inside a `POST /api/v1/compile` commits
  its transaction, so that the look for a duplicate and the INSERT are two steps.
  Requests that recompile, `compile_stale_only` requests, edits and scans may come in
  any number. The run `Requests` has two recompile requests.
* `ReadyOutputsAreCurrent` needs `"recompile" \notin Ops` and `"hide" \notin Ops`
  (section 5). Its invariant `CurrentInStep` chains fingerprints: no row, record,
  job or compiled file is of a later content than the source file, a job encodes no
  earlier content than the one it was built for, and the clip of a job that is being
  compiled is not ready. A ready row then has fingerprint <= output <= source, and
  when its ends are equal so is the middle.

**`UploadsProofs`**: `UploadsInvariant`, `CataloguedClipsAreComplete`,
`StagingKeepsWithinCap`, `ToldSuccessIsCatalogued`, for any number of browsers,
requests, uploads and names, any sizes and any limit. `bytes_received` is compared
with what a chunk claims as its offset and never with the file, so the invariant
relates four counts of one upload: what its browser has been told, what the session
stores, what lies in the staging file and what requests still in progress are about to
append, whether their browser waits for them or has given them up (`SentInv`,
`StagedInv`). `PublishedInv` and `RowInv` carry that over to the file in the library.

**`LibraryProofs`**: `TrashInvariant`, `TrashIsRecorded`, `ListedIsComplete`,
`LibraryInvariant`, `NoFileIsLost`, for any number of requests, records, paths,
faults and crashes, with the trash on the media's file system or on another. The
invariant has three parts. The first is control: what a request that stands at some
step has done and has still to do (`InShape`, `Recorded`). The second is the trash:
how much of its files an operation has moved there, and that nobody else touches them
(`Held`, `MadeAlone`). The third says where the whole file is while it moves
(`Safe`): a copy that is being written is not enough until it is complete, a
compensation finds the file where the move left it, and a path that is replaced takes
its half-written copy with it. It holds until `Meeting`, which is what `crossed`
records.

**`PlaybackProofs`**: `HistoryInvariant` with `HistoryTypes`, `NothingIsRepeated`,
`NothingIsPassedOver`, `AnsweredRoundsStay`, `FlagTellsOfRounds` and
`RolloversAreEarned`, for any number of collections, clips, calls and days, any list
of candidates, failing saves and restarts. The record and the ledger of answers agree
in memory and on disk (`Agree`, `Settled`), except for the one claim whose save is
under way (`InHand`); the lock is why there is one. `ListingInvariant` and
`ReadyClipsAreOffered` are about the pages of a listing: rows and candidates are found
by their place in an order, so that the proof is about the number of rows before one
(a row moves from a page not yet read to one that was read only if another row before it
leaves). `CallsUseTheHistory` shows `Playback` to implement `PlaybackHistory`, so
that its theorems hold of the calls of `select_next_clip`; that the candidates are
lists the history knows is `OffersAssumption`.

**`CoordinatorProofs`**: `CoordinatorInvariant`, `NextIsNext`, `OutagesKeepSelection`,
for days and weeks of any length and any policies, from `CoordinatorAssumption` (a
schedule's minute lies in the day). `_next_schedule` goes through the days of a week
and compares minutes, `async_handle_due` compares one minute's day and time: that both
find the same minute is arithmetic of quotients and remainders.
**`DispatchProofs`** also has `BoundsAreKept`: the pruning of run tokens keeps their
number within the limit, whatever callbacks claim meanwhile.

Only model-checked: liveness (`EveryJobSettles`, `ShutdownEnds`, `CallbacksEnd`,
`CatchesUp`, `EveryOutputIsMeasured`: fairness is out of the prover's reach), and the
two action properties of `Discovery`, `ScanReconciles` and `MoveKeepsIdentity`, whose
scan goes through a list of files of any length.

## 5. What the models leave out

* *Jobs.* One collection, one enabled profile that does not change; a compile
  request asks for one clip. Progress, log, attempt-history and audit rows, except
  where a failing log write changes the outcome. New and moved files, which
  `Discovery` has. A timeout of a write inside a request: it
  rolls back and answers an error, which is the request never sent.
* *Library.* Scans, so that a row which a failed or overtaken operation left wrong
  stays wrong (in `Discovery` they repair it); what became of the state of the clip beyond `output_available`.
* *Uploads.* Assets; the collection of an upload. A chunk reaches `append_chunk` in
  several parts (`manager_web.py:460`), which are one block here: one that fails after
  the first part is given up with its upload, as one that fails at once.
* *Discovery.* Other collections, files that are invalid, the states of a clip but
  for "deleted" (`Catalog` has them), failures inside of uploads, renames and trash
  (`Library` and `Uploads` have them): these are two steps or one here. A write that
  waits longer than the busy timeout.
* *OutputDurations.* Files that ffprobe refuses; `ensure` for one clip, which is a
  listing of one with a third second; trash and restore of outputs. A withdrawal
  looks at the file and writes in one step. Of a listing's two seconds only whether
  all, some or none of them are left.
* *Metadata.* Of the column only the source fingerprint is kept: tags, notes, the
  output fingerprint and the timing are in no module.
* *Configuration.* The contents of a record beyond who wrote it: a request writes the
  row as a whole, and which fields it leaves out, empties or drops is not seen; audit rows; the
  case that two subentries are both marked as default, in which the read-back fails
  for ever.
* *Playback.* Media URIs, the `last_selection` shown by a sensor, a store that
  cannot be parsed, a reload of the entry while a selection is in flight.
* *Dispatch.* Daylight saving: the token holds the offset, so that a schedule in the
  repeated hour runs twice. The disk reserve and other reasons to refuse a request
  are one nondeterministic refusal, of any strategy.
* *Coordinator.* The polling interval; the other three requests of a refresh. Why a poll
  fails: the Worker is down, or it is up and answers with an error or too late.

### Known limits of the code

Met while modelling, and stated here because the properties except them, or ask for
less:

* `queue.update` writes the whole copy of the row that was taken at the claim
  (`queue.py:194`): a progress write between the request's UPDATE and the consumer's
  next poll restores `cancel_requested = 0`, and the job runs on, although
  `api.py:472` says that a running job waits for its consumer to observe the flag.
* Nothing catches what a claim or `_cleanup` raises (`api.py:535-541`,
  `jobs.py:1093`): after a claim that waited longer than `busy_timeout`, or with a
  directory that cannot be removed, the only consumer is gone until a restart, and
  queued jobs wait. `EveryJobSettles` is checked without both.
* `async_handle_due` raises on the first schedule that fails (`scheduler.py:206`).
  The schedules after it in the same minute are not claimed, and nothing looks at
  that minute again; its docstring speaks of every currently due occurrence.
* A probe that runs into the two seconds of a listing uses them all and is repeated
  after 60 seconds, two polls later. Two such files at the head of the list take
  turns, and no file after them is ever probed (`output_duration.py:49`);
  `EveryOutputIsMeasured` is therefore checked with one.
* A scan writes the metadata of every clip anew and keeps only the output timing of
  the old one (`catalog.py:194`): tags and notes that a user saved are gone. Tags, the
  first file of a scan and an edit write back metadata that they read before a
  compile job recorded its file. A restored output is offered with the duration and
  the timing of the output that was compiled and trashed meanwhile
  (`library_manager.py:894`).
* An upload or a rename looks for a file at its destination, not for a clip whose
  file is gone (`library_manager.py:299`): the path then has two rows.
* Two operations that move one file towards each other can lose it (two restores of
  one record, or a compensation and another removal): `Library.crossed`. So can a
  rename, which looks at its destination once and then moves
  (`library_manager.py:246`): two renames onto one path, of which the second replaces the
  whole file by a copy that is not finished, or one that moves the whole file onto a
  path where another request's copy is then unlinked. Two uploads
  of one name that finish at the same time overwrite each other: `Uploads.crossed`.
* A permanent deletion that cannot remove a file ends with the file in its staging
  directory (`completed_with_residue`, `library_manager.py:1015`), and nothing removes it
  later.
* A crash leaves a pending trash record, and a partial file at the destination of a
  copy, for ever; after one inside `restore` the record stays active but cannot be
  restored. A crash between the staging file and its row, or a chunk that meets an
  abort, leaves a file no sweep finds.
* A publication that is cut short leaves a `.publishing` or `.editing` file; an
  interrupted attempt leaves the directory that makes the next one fail; a job that
  a restart ends at the cap leaves its clip `compiling`, and one cancelled during a
  scan leaves it `pending`, which no default request picks up.
* An edit interrupted after it replaced its source is reported failed, although it
  was applied. A stale clip whose source is hidden and returns is `ready`. So is one
  that two recompile requests scan at once: one has read the ready row, the other finds
  the source replaced and queues a job, and the first writes `ready` back once that
  job has failed; `_record_clip_failure` (`jobs.py:789-798`) then writes back the
  fingerprint it read before, and the next scan finds nothing to compile (TLC finds
  this with `recompile` in `Ops` and two handlers).
  `ReadyIsCurrent` is checked and proved without these two. Two
  compile requests under different keys can queue the same work, because the scan
  commits their transaction. A recompile request may be answered with the job of
  another clip.
* A request repeated while the first still runs is refused, although it is then
  carried out. A `patch` cannot clear a field (`exclude_none`, `repositories.py:285`),
  and answers with the row as it is after the commit. The form of a collection makes
  `schedule` anew from the two fields it shows (`CollectionForm.vue:104`): whatever else
  a schedule holds is dropped by a save. `NoBlindOverwrite` is about rows, not fields.
* The history keeps a claim in memory whose save raised, and drops the mark of a
  clip that is ineligible at one selection. A row that leaves the catalog between
  two pages of a listing hides another.
* `_prune_token_states` keeps the last tokens in the order of their text, not the
  newest. Minutes during which Home Assistant is down are not caught up.
* The coordinator's back-off overflows at the 42nd failure in a row; an empty list
  of collections does not replace the last one.

### Not modelled

FFmpeg command lines and profile validation, ffprobe's output, path containment, settings,
authentication and response models, the Home Assistant entities and flows, the
views of the Manager that show lists, the audit trail: they keep no state that an
order of events could break, or none that anybody decides by.

## 6. Plan

1. `ScanReconciles` proved, from an invariant that relates `quiet`, the files still to
   do and the scan's own rows; then `MoveKeepsIdentity`.
2. `import_clip`, `import_asset`, tags and bulk metadata: the read-modify-write of the
   metadata column.
3. A refinement between `Discovery` and `Library`: trash and restore are one step in one
   and many in the other.
