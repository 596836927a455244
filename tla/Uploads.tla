------------------------------- MODULE Uploads -------------------------------
(***************************************************************************)
(* Chunked uploads of clips: the browser's uploadChunked (useUpload.ts),   *)
(* the Worker's routes and LibraryManager's upload sessions, staging files *)
(* and publication, and the cleanup job.  A request whose connection       *)
(* breaks goes on in the Worker while the browser already aborts; the      *)
(* cleanup may take any session, for a browser can sleep longer than the   *)
(* age it looks at; the process may end between any two steps.             *)
(*                                                                         *)
(* The staging files and the media are on different file systems, as in    *)
(* the App's container.                                                    *)
(***************************************************************************)
EXTENDS Naturals, Sequences, FiniteSets

CONSTANTS
  Browsers,
  Threads,    \* requests the Worker can be handling, and its cleanup job
  Uploads,    \* upload IDs, each used once
  Nobody,     \* no browser, no upload
  Names,      \* filenames in one collection
  Sizes,      \* sizes of files, in blocks
  Cap,        \* max_upload_bytes, in blocks
  MaxFaults   \* bound: failing copies, broken connections, crashes and cleanups

ASSUME UploadsAssumption ==
  /\ Nobody \notin Browsers \cup Uploads
  /\ Sizes \subseteq Nat \ {0} /\ Cap \in Nat /\ MaxFaults \in Nat

VARIABLES
  browser,   \* uploadChunked, per browser
  thread,    \* the requests in progress
  session,   \* upload_sessions
  staging,   \* the staging files: the blocks in each
  media,     \* the files in the source directory
  clips,     \* rows of clips that uploads have inserted
  used,      \* the upload IDs given out
  crossed,   \* history: names onto which two uploads were published at once
  faults     \* failures so far

vars == <<browser, thread, session, staging, media, clips, used, crossed, faults>>

-----------------------------------------------------------------------------
Absent == [there |-> FALSE, whole |-> FALSE, blocks |-> <<>>]
File(blocks, whole) == [there |-> TRUE, whole |-> whole, blocks |-> blocks]

NoSession == [there |-> FALSE, name |-> "none", size |-> 0, received |-> 0]
IdleBrowser == [pc |-> "idle", upload |-> Nobody, name |-> "none", size |-> 0, sent |-> 0]
IdleThread == [pc |-> "idle", upload |-> Nobody, name |-> "none", size |-> 0, block |-> 0,
               total |-> 0, for |-> Nobody]

Init ==
  /\ browser = [b \in Browsers |-> IdleBrowser]
  /\ thread = [t \in Threads |-> IdleThread]
  /\ session = [u \in Uploads |-> NoSession]
  /\ staging = [u \in Uploads |-> Absent]
  /\ media = [n \in Names |-> Absent]
  /\ clips = {} /\ used = {} /\ crossed = {} /\ faults = 0

Fault == faults < MaxFaults /\ faults' = faults + 1

\* The content an upload should have.
All(size) == [i \in 1 .. size |-> i]

-----------------------------------------------------------------------------
(* The browser.                                                            *)

\* A request for upload own.upload, handled by an idle thread from step pc on.
Ask(b, own, pc) ==
  /\ browser' = [browser EXCEPT ![b] = own]
  /\ \E t \in Threads :
       /\ thread[t] = IdleThread
       /\ thread' = [thread EXCEPT ![t] =
            [IdleThread EXCEPT !.pc = pc, !.upload = own.upload, !.name = own.name,
                               !.size = own.size, !.block = own.sent + 1, !.for = b]]

\* begin: the Worker chooses a new ID.
StartUpload(b) ==
  /\ browser[b].pc = "idle"
  /\ \E u \in Uploads \ used, n \in Names, size \in Sizes :
       /\ Ask(b, [IdleBrowser EXCEPT !.pc = "begin", !.upload = u, !.name = n, !.size = size],
              "create")
       /\ used' = used \cup {u}
  /\ UNCHANGED <<session, staging, media, clips, crossed, faults>>

\* The next chunk, or finish after the last one.
SendNext(b) ==
  /\ browser[b].pc = "send"
  /\ IF browser[b].sent = browser[b].size
     THEN Ask(b, [browser[b] EXCEPT !.pc = "finish"], "finish")
     ELSE Ask(b, [browser[b] EXCEPT !.pc = "chunk"], "append")
  /\ UNCHANGED <<session, staging, media, clips, used, crossed, faults>>

SendAbort(b) ==
  /\ browser[b].pc = "abort"
  /\ Ask(b, [browser[b] EXCEPT !.pc = "aborting"], "abort")
  /\ UNCHANGED <<session, staging, media, clips, used, crossed, faults>>

\* What browser b does after an answer, ok or not, or none.
Answered(own) ==
  CASE own.pc = "begin"  -> [own EXCEPT !.pc = "send"]
    [] own.pc = "chunk"  -> [own EXCEPT !.pc = "send", !.sent = @ + 1]
    [] own.pc = "finish" -> [own EXCEPT !.pc = "done"]
    [] OTHER             -> IdleBrowser
\* Mutant: a chunk that failed is sent again.
FailedAgain(own) == IF own.pc = "chunk" THEN [own EXCEPT !.pc = "send"] ELSE IdleBrowser
Failed(own) == IF own.pc = "chunk" THEN [own EXCEPT !.pc = "abort"] ELSE IdleBrowser

\* The user looks at the result and may upload another file.
Leave(b) ==
  /\ browser[b].pc = "done"
  /\ browser' = [browser EXCEPT ![b] = IdleBrowser]
  /\ UNCHANGED <<thread, session, staging, media, clips, used, crossed, faults>>

\* The connection breaks; the Worker goes on with the request.
LoseConnection(b) ==
  /\ Fault
  /\ \E t \in Threads :
       /\ thread[t].for = b
       /\ thread' = [thread EXCEPT ![t].for = Nobody]
       /\ browser' = [browser EXCEPT ![b] = Failed(@)]
  /\ UNCHANGED <<session, staging, media, clips, used, crossed>>

-----------------------------------------------------------------------------
(* The Worker's handlers.                                                  *)

Go(t, pc) == thread' = [thread EXCEPT ![t].pc = pc] /\ UNCHANGED browser

\* Thread t answers whoever still waits.
Reply(t, ok) ==
  /\ thread' = [thread EXCEPT ![t] = IdleThread]
  /\ browser' = [b \in Browsers |-> CASE b # thread[t].for -> browser[b]
                                     [] b = thread[t].for /\ ok -> Answered(browser[b])
                                     [] OTHER -> Failed(browser[b])]
Accept(t) == Reply(t, TRUE)
Refuse(t) == Reply(t, FALSE)

\* begin_upload: the file ...
Create(t) ==
  /\ thread[t].pc = "create"
  /\ staging' = [staging EXCEPT ![thread[t].upload] = File(<<>>, TRUE)]
  /\ Go(t, "insert")
  /\ UNCHANGED <<session, media, clips, used, crossed, faults>>

\* ... and the session.
Insert(t) ==
  /\ thread[t].pc = "insert"
  /\ session' = [session EXCEPT ![thread[t].upload] =
                   [there |-> TRUE, name |-> thread[t].name, size |-> thread[t].size,
                    received |-> 0]]
  /\ Accept(t)
  /\ UNCHANGED <<staging, media, clips, used, crossed, faults>>

\* append_chunk.  The chunk that a browser sends reaches it in parts (manager_web.py:460),
\* which are one block here: if a later part fails, the browser gives the upload up, as it
\* does when the first one fails.  The row is read and the size checked ...
\* Mutant: the size so far is checked, not what it will be.
AppendChecksBefore(t) ==
  LET row == session[thread[t].upload]
  IN
  /\ thread[t].pc = "append"
  /\ IF row.there /\ row.received <= Cap
     THEN thread' = [thread EXCEPT ![t].pc = "write", ![t].total = row.received + 1]
          /\ UNCHANGED browser
     ELSE Refuse(t)
  /\ UNCHANGED <<session, staging, media, clips, used, crossed, faults>>

AppendChunk(t) ==
  LET row == session[thread[t].upload]
  IN
  /\ thread[t].pc = "append"
  /\ IF row.there /\ row.received + 1 <= Cap
     THEN thread' = [thread EXCEPT ![t].pc = "write", ![t].total = row.received + 1]
          /\ UNCHANGED browser
     ELSE Refuse(t)
  /\ UNCHANGED <<session, staging, media, clips, used, crossed, faults>>

\* ... the block is written to the file, which is made if it is gone ...
Write(t) ==
  /\ thread[t].pc = "write"
  /\ staging' = [staging EXCEPT ![thread[t].upload] = File(Append(@.blocks, thread[t].block), TRUE)]
  /\ Go(t, "update")
  /\ UNCHANGED <<session, media, clips, used, crossed, faults>>

\* ... and the total is written to the row, if there still is one.
Update(t) ==
  /\ thread[t].pc = "update"
  /\ LET u == thread[t].upload
     IN  session' = IF session[u].there THEN [session EXCEPT ![u].received = thread[t].total]
                    ELSE session
  /\ Accept(t)
  /\ UNCHANGED <<staging, media, clips, used, crossed, faults>>

\* finish_upload and _publish_clip: session, file and destination are looked at.
Finish(t) ==
  LET u == thread[t].upload
  IN
  /\ thread[t].pc = "finish"
  /\ IF session[u].there /\ staging[u].there /\ ~media[session[u].name].there
     THEN Go(t, "open")
     ELSE Refuse(t)
  /\ UNCHANGED <<session, staging, media, clips, used, crossed, faults>>

\* _move_exact: the destination is opened ...
Open(t) ==
  LET n == thread[t].name
  IN
  /\ thread[t].pc = "open"
  /\ IF staging[thread[t].upload].there
     THEN /\ media' = [media EXCEPT ![n] = File(staging[thread[t].upload].blocks, FALSE)]
          /\ crossed' = IF media[n].there THEN crossed \cup {n} ELSE crossed
          /\ Go(t, "copy")
     ELSE Refuse(t) /\ UNCHANGED <<media, crossed>>
  /\ UNCHANGED <<session, staging, clips, used, faults>>

\* ... the staging file is copied, whether or not its name is removed meanwhile ...
Copy(t) ==
  /\ thread[t].pc = "copy"
  /\ media' = [media EXCEPT ![thread[t].name].whole = TRUE]
  /\ Go(t, "unlink")
  /\ UNCHANGED <<session, staging, clips, used, crossed, faults>>

\* Mutant: a copy that fails is taken for complete.
CopyFailsOn(t) ==
  /\ Fault
  /\ thread[t].pc = "copy"
  /\ Go(t, "unlink")
  /\ UNCHANGED <<session, staging, media, clips, used, crossed>>

\* ... or cannot be copied completely; what was copied stays ...
CopyFails(t) ==
  /\ Fault
  /\ thread[t].pc = "copy"
  /\ Refuse(t)
  /\ UNCHANGED <<session, staging, media, clips, used, crossed>>

\* ... and removed, which fails if it is gone.
Unlink(t) ==
  LET u == thread[t].upload
  IN
  /\ thread[t].pc = "unlink"
  /\ IF staging[u].there
     THEN staging' = [staging EXCEPT ![u] = Absent] /\ Go(t, "row")
     ELSE Refuse(t) /\ UNCHANGED staging
  /\ UNCHANGED <<session, media, clips, used, crossed, faults>>

\* The row of the new clip.
Catalog(t) ==
  /\ thread[t].pc = "row"
  /\ clips' = clips \cup {[upload |-> thread[t].upload, name |-> thread[t].name,
                          size |-> thread[t].size]}
  /\ Go(t, "forget")
  /\ UNCHANGED <<session, staging, media, used, crossed, faults>>

\* Mutant: the session of a finished upload is kept.
ForgetNothing(t) ==
  /\ thread[t].pc = "forget"
  /\ Accept(t)
  /\ UNCHANGED <<session, staging, media, clips, used, crossed, faults>>

\* The session of a finished upload is deleted.
Forget(t) ==
  /\ thread[t].pc = "forget"
  /\ session' = [session EXCEPT ![thread[t].upload].there = FALSE]
  /\ Accept(t)
  /\ UNCHANGED <<staging, media, clips, used, crossed, faults>>

\* abort_upload, and cleanup_abandoned_uploads for one session: the row ...
Drop(t) ==
  LET u == thread[t].upload
  IN
  /\ thread[t].pc = "abort"
  /\ IF session[u].there
     THEN session' = [session EXCEPT ![u].there = FALSE] /\ Go(t, "discard")
     ELSE Refuse(t) /\ UNCHANGED session
  /\ UNCHANGED <<staging, media, clips, used, crossed, faults>>

\* ... and then the file, if it is there.
Discard(t) ==
  /\ thread[t].pc = "discard"
  /\ staging' = [staging EXCEPT ![thread[t].upload] = Absent]
  /\ Accept(t)
  /\ UNCHANGED <<session, media, clips, used, crossed, faults>>

\* The cleanup job finds a session that is too old.
Cleanup ==
  /\ Fault
  /\ \E t \in Threads, u \in Uploads :
       /\ thread[t] = IdleThread /\ session[u].there
       /\ thread' = [thread EXCEPT ![t] = [IdleThread EXCEPT !.pc = "abort", !.upload = u]]
  /\ UNCHANGED <<browser, session, staging, media, clips, used, crossed>>

\* The process ends and starts again.
Crash ==
  /\ Fault
  /\ browser' = [b \in Browsers |-> IF \E t \in Threads : thread[t].for = b
                                    THEN Failed(browser[b]) ELSE browser[b]]
  /\ thread' = [t \in Threads |-> IdleThread]
  /\ UNCHANGED <<session, staging, media, clips, used, crossed>>

Browse(b) == StartUpload(b) \/ SendNext(b) \/ SendAbort(b) \/ Leave(b) \/ LoseConnection(b)
Handle(t) ==
  \/ Create(t) \/ Insert(t) \/ AppendChunk(t) \/ Write(t) \/ Update(t)
  \/ Finish(t) \/ Open(t) \/ Copy(t) \/ CopyFails(t) \/ Unlink(t) \/ Catalog(t) \/ Forget(t)
  \/ Drop(t) \/ Discard(t)

Next ==
  \/ \E b \in Browsers : Browse(b)
  \/ \E t \in Threads : Handle(t)
  \/ Cleanup \/ Crash

Spec == Init /\ [][Next]_vars

-----------------------------------------------------------------------------
Blocks == UNION {1 .. size : size \in Sizes}

\* A clip that an upload has catalogued has its file, with every block of it once
\* and in order, whatever was sent, lost, aborted or cleaned up; unless two
\* uploads were published under one name at once.
CataloguedIsComplete ==
  \A row \in clips : row.name \in crossed \/ media[row.name] = File(All(row.size), TRUE)

\* No staging file outgrows the limit, although it is enforced with a number that
\* is stored after the file was written; nor does that number.
StagingWithinCap ==
  /\ session \in [Uploads -> [there: BOOLEAN, name: Names \cup {"none"},
                              size: Sizes \cup {0}, received: 0 .. Cap]]
  /\ \A u \in Uploads : staging[u].blocks \in Seq(Blocks) /\ Len(staging[u].blocks) <= Cap

\* A browser that was told of success has a clip, and nothing of the upload is
\* left to clean up.
SuccessIsCatalogued ==
  \A b \in Browsers : browser[b].pc = "done" =>
    LET u == browser[b].upload
    IN  (\E row \in clips : row.upload = u) /\ ~session[u].there /\ ~staging[u].there
=============================================================================
