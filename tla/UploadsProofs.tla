---------------------------- MODULE UploadsProofs ----------------------------
(***************************************************************************)
(* Chunked uploads for any number of browsers, requests, uploads, names    *)
(* and failures, and for any sizes and limit: what is catalogued is        *)
(* complete, staging files keep within the limit, and success is told only *)
(* of a clip that is there.                                                *)
(***************************************************************************)
EXTENDS Uploads, SequenceTheorems, TLAPS

-----------------------------------------------------------------------------
(* The inductive invariant: first the control of browsers and requests ... *)

Creating == {"create", "insert"}
Appending == {"append", "write", "update"}
Finishing == {"finish", "open", "copy", "unlink", "row", "forget"}
Dropping == {"abort", "discard"}
Writing == Creating \cup Appending \cup Finishing
BrowserPcs == {"begin", "send", "chunk", "finish", "done", "abort", "aborting"}

BusyBrowsers ==
  [pc: BrowserPcs, upload: Uploads, name: Names, size: Sizes, sent: Nat]

BusyOK(own) ==
  /\ own \in BusyBrowsers /\ own.upload \in used
  /\ own.sent <= own.size
  /\ own.pc = "begin" => own.sent = 0
  /\ own.pc = "chunk" => own.sent < own.size
  /\ own.pc \in {"finish", "done"} => own.sent = own.size

BrowserOK(own) == own = IdleBrowser \/ BusyOK(own)

BusyThreads ==
  [pc: Writing \cup Dropping, upload: Uploads, name: Names \cup {"none"}, size: Sizes \cup {0},
   block: Nat, total: Nat, for: Browsers \cup {Nobody}]

WorkOK(own) ==
  /\ own \in BusyThreads /\ own.upload \in used
  /\ own.pc \in Writing => own.name \in Names /\ own.size \in Sizes
  /\ own.pc \in Appending => own.block \in 1 .. own.size
  /\ own.pc \in {"write", "update"} => own.total = own.block /\ own.total <= Cap

ControlTypes ==
  /\ used \subseteq Uploads
  /\ DOMAIN browser = Browsers /\ \A b \in Browsers : BrowserOK(browser[b])
  /\ DOMAIN thread = Threads
  /\ \A t \in Threads : thread[t] = IdleThread \/ WorkOK(thread[t])

\* An upload ID belongs to one browser.
OwnersInv ==
  \A b, c \in Browsers : browser[b].upload = browser[c].upload /\ browser[b].upload # Nobody => b = c

\* The request a browser waits for is about its upload and at a step of what it
\* asked for.
Serves(work, own) ==
  /\ work.upload = own.upload
  /\ \/ own.pc = "begin" /\ work.pc \in Creating
     \/ own.pc = "chunk" /\ work.pc \in Appending
     \/ own.pc = "finish" /\ work.pc \in Finishing
     \/ own.pc = "aborting" /\ work.pc \in Dropping
  /\ work.pc \in Writing => work.name = own.name /\ work.size = own.size
  /\ work.pc \in Appending => work.block = own.sent + 1

RequestsInv ==
  \A t \in Threads : thread[t].for # Nobody =>
    /\ Serves(thread[t], browser[thread[t].for])
    /\ \A s \in Threads : thread[s].for = thread[t].for => s = t

\* At most one request writes to an upload, and while it is being created there is
\* no other request for it at all.
AloneInv ==
  \A s, t \in Threads :
    /\ thread[s].upload = thread[t].upload /\ thread[t].pc \in Writing
    /\ thread[s].pc \in Writing \/ thread[t].pc \in Creating
    => s = t

\* It is the one its browser waits for, or the browser has given the upload up.
AwaitedInv ==
  \A t \in Threads, b \in Browsers :
    thread[t].pc \in Writing /\ browser[b].upload = thread[t].upload =>
      \/ thread[t].for = b
      \/ browser[b].pc \in {"abort", "aborting"} /\ thread[t].pc \notin Creating

ControlInv == ControlTypes /\ OwnersInv /\ RequestsInv /\ AloneInv /\ AwaitedInv

-----------------------------------------------------------------------------
(* ... then the session and the files.                                     *)

\* There is no session before the upload is created, nor once its file may be
\* discarded.
SessionInv ==
  /\ \A u \in Uploads : session[u].there => u \in used
  /\ \A t \in Threads : thread[t].pc \in Creating \cup {"discard"} => ~session[thread[t].upload].there

FilesTypes ==
  /\ crossed \subseteq Names
  /\ media \in [Names -> [there: BOOLEAN, whole: BOOLEAN, blocks: Seq(Blocks)]]
  /\ staging \in [Uploads -> [there: BOOLEAN, whole: BOOLEAN, blocks: Seq(Blocks)]]
  /\ clips \subseteq [upload: Uploads, name: Names, size: Sizes]

\* While there is a session, its staging file holds the blocks sent so far, and
\* the stored number is the number of them.
SentInv ==
  \A b \in Browsers : browser[b].pc = "send" /\ session[browser[b].upload].there =>
    /\ staging[browser[b].upload].blocks = All(browser[b].sent)
    /\ session[browser[b].upload].received = browser[b].sent

Staged(own) ==
  /\ own.pc = "insert" => staging[own.upload].blocks = <<>>
  /\ own.pc \in {"append", "write"} /\ session[own.upload].there =>
       /\ staging[own.upload].blocks = All(own.block - 1)
       /\ session[own.upload].received = own.block - 1
  /\ own.pc = "write" => Len(staging[own.upload].blocks) < Cap
  /\ own.pc = "update" /\ session[own.upload].there =>
       staging[own.upload].blocks = All(own.block)
  /\ own.pc = "finish" /\ session[own.upload].there =>
       staging[own.upload].blocks = All(own.size)
  /\ own.pc = "open" /\ staging[own.upload].there =>
       staging[own.upload].blocks = All(own.size)
  /\ own.pc \in {"row", "forget"} => ~staging[own.upload].there

StagedInv == \A t \in Threads : Staged(thread[t])

\* What a request has published is what was sent, unless the name was crossed.
Published(own) ==
  /\ own.pc = "copy" => media[own.name].there /\ media[own.name].blocks = All(own.size)
  /\ own.pc \in {"unlink", "row", "forget"} => media[own.name] = File(All(own.size), TRUE)

PublishedInv == \A t \in Threads : thread[t].name \in crossed \/ Published(thread[t])

\* A request that forgets its session has catalogued the clip.
RowInv ==
  \A t \in Threads : thread[t].pc = "forget" => \E row \in clips : row.upload = thread[t].upload

UploadsInv ==
  /\ ControlInv
  /\ SessionInv /\ FilesTypes /\ SentInv /\ StagedInv /\ PublishedInv /\ RowInv
  /\ CataloguedIsComplete /\ StagingWithinCap /\ SuccessIsCatalogued

-----------------------------------------------------------------------------
(* Steps that only concern browsers and requests.                          *)

LEMMA BrowserFacts ==
  ASSUME UploadsAssumption, ControlTypes, NEW b \in Browsers
  PROVE  /\ browser[b].pc = "idle" => browser[b] = IdleBrowser
         /\ browser[b].pc # "idle" =>
              /\ browser[b] \in BusyBrowsers
              /\ browser[b].upload \in used /\ browser[b].upload \in Uploads
              /\ browser[b].upload # Nobody /\ browser[b].sent <= browser[b].size
         /\ browser[b].pc = "idle" => browser[b].upload = Nobody
<1>1. BrowserOK(browser[b])
  BY DEF ControlTypes
<1>2. IdleBrowser.pc = "idle" /\ IdleBrowser.upload = Nobody
  BY DEF IdleBrowser
<1>3. browser[b] \in BusyBrowsers => browser[b].pc # "idle"
  BY DEF BusyBrowsers, BrowserPcs
<1> QED BY <1>1, <1>2, <1>3 DEF BrowserOK, BusyOK, ControlTypes, UploadsAssumption

LEMMA ThreadFacts ==
  ASSUME UploadsAssumption, ControlTypes, NEW t \in Threads
  PROVE  /\ thread[t].pc = "idle" => thread[t] = IdleThread
         /\ thread[t].pc # "idle" =>
              /\ WorkOK(thread[t]) /\ thread[t].pc \in Writing \cup Dropping
              /\ thread[t].upload \in used /\ thread[t].upload \in Uploads
              /\ thread[t].upload # Nobody
         /\ thread[t].pc = "idle" => thread[t].upload = Nobody /\ thread[t].for = Nobody
         /\ thread[t].for \in Browsers \cup {Nobody}
<1>1. thread[t] = IdleThread \/ WorkOK(thread[t])
  BY DEF ControlTypes
<1>2. IdleThread.pc = "idle" /\ IdleThread.upload = Nobody /\ IdleThread.for = Nobody
  BY DEF IdleThread
<1>3. WorkOK(thread[t]) => /\ thread[t].pc # "idle" /\ thread[t].pc \in Writing \cup Dropping
                           /\ thread[t].for \in Browsers \cup {Nobody}
  BY DEF WorkOK, BusyThreads, Writing, Creating, Appending, Finishing, Dropping
<1> QED BY <1>1, <1>2, <1>3 DEF WorkOK, ControlTypes, UploadsAssumption

\* The stages in which a request can go on.
Stays(pc, next) ==
  \/ pc \in Creating /\ next \in Creating
  \/ pc = "append" /\ next = "append"
  \/ pc \in {"write", "update"} /\ next \in {"write", "update"}
  \/ pc \in Finishing /\ next \in Finishing
  \/ pc \in Dropping /\ next \in Dropping

LEMMA GoFields ==
  ASSUME UploadsAssumption, ControlTypes, NEW t \in Threads, NEW pc, Go(t, pc),
         thread[t].pc # "idle"
  PROVE  /\ DOMAIN thread' = Threads /\ browser' = browser
         /\ \A s \in Threads : s # t => thread'[s] = thread[s]
         /\ \A s \in Threads : thread'[s].upload = thread[s].upload
         /\ \A s \in Threads : thread'[s].for = thread[s].for
         /\ \A s \in Threads : thread'[s].name = thread[s].name
         /\ \A s \in Threads : thread'[s].size = thread[s].size
         /\ \A s \in Threads : thread'[s].block = thread[s].block
         /\ \A s \in Threads : thread'[s].total = thread[s].total
         /\ thread'[t].pc = pc
         /\ pc \in Writing \cup Dropping => thread'[t] \in BusyThreads
<1>1. WorkOK(thread[t]) /\ DOMAIN thread = Threads
  BY ThreadFacts DEF ControlTypes
<1>2. DOMAIN thread' = Threads /\ browser' = browser
  BY <1>1 DEF Go
<1>3. /\ \A s \in Threads : s # t => thread'[s] = thread[s]
      /\ thread'[t] = [thread[t] EXCEPT !.pc = pc]
  BY <1>1 DEF Go
<1> HIDE DEF Go
<1>4. thread[t] \in BusyThreads
  BY <1>1 DEF WorkOK
<1>5. /\ thread'[t].pc = pc /\ thread'[t].upload = thread[t].upload
      /\ thread'[t].for = thread[t].for /\ thread'[t].name = thread[t].name
      /\ thread'[t].size = thread[t].size /\ thread'[t].block = thread[t].block
      /\ thread'[t].total = thread[t].total
      /\ pc \in Writing \cup Dropping => thread'[t] \in BusyThreads
  BY <1>3, <1>4 DEF BusyThreads
<1> QED BY <1>2, <1>3, <1>5

\* Steps of requests that stay in the stage they are in.
LEMMA StagesStay ==
  ASSUME ControlInv, browser' = browser,
         \A s \in Threads : thread'[s].upload = thread[s].upload,
         \A s \in Threads : thread'[s].for = thread[s].for,
         \A s \in Threads : thread'[s].name = thread[s].name,
         \A s \in Threads : thread'[s].size = thread[s].size,
         \A s \in Threads : thread'[s].block = thread[s].block,
         \A s \in Threads : /\ thread'[s].pc \in Writing <=> thread[s].pc \in Writing
                            /\ thread'[s].pc \in Creating <=> thread[s].pc \in Creating
                            /\ thread'[s].pc \in Appending <=> thread[s].pc \in Appending
                            /\ thread'[s].pc \in Finishing <=> thread[s].pc \in Finishing
                            /\ thread'[s].pc \in Dropping <=> thread[s].pc \in Dropping
  PROVE  OwnersInv' /\ RequestsInv' /\ AloneInv' /\ AwaitedInv'
<1>1. OwnersInv /\ RequestsInv /\ AloneInv /\ AwaitedInv
  BY DEF ControlInv
<1>2. OwnersInv'
  BY <1>1 DEF OwnersInv
<1>3. RequestsInv'
  BY <1>1 DEF RequestsInv, Serves
<1>4. AloneInv'
  BY <1>1 DEF AloneInv
<1>5. AwaitedInv'
  BY <1>1 DEF AwaitedInv
<1> QED BY <1>2, <1>3, <1>4, <1>5

LEMMA GoControl ==
  ASSUME UploadsAssumption, ControlInv, NEW t \in Threads, NEW pc, Go(t, pc), used' = used,
         Stays(thread[t].pc, pc)
  PROVE  ControlInv'
<1> USE DEF ControlInv
<1>a. /\ thread[t].pc # "idle" /\ pc \in Writing \cup Dropping
      /\ pc \in Writing <=> thread[t].pc \in Writing
      /\ pc \in Creating <=> thread[t].pc \in Creating
      /\ pc \in Appending <=> thread[t].pc \in Appending
      /\ pc \in Finishing <=> thread[t].pc \in Finishing
      /\ pc \in Dropping <=> thread[t].pc \in Dropping
      /\ pc \in {"write", "update"} => thread[t].pc \in {"write", "update"}
  BY DEF Stays, Writing, Creating, Appending, Finishing, Dropping
<1>b. /\ DOMAIN thread' = Threads /\ browser' = browser
      /\ \A s \in Threads : s # t => thread'[s] = thread[s]
      /\ \A s \in Threads : thread'[s].upload = thread[s].upload
      /\ \A s \in Threads : thread'[s].for = thread[s].for
      /\ \A s \in Threads : thread'[s].name = thread[s].name
      /\ \A s \in Threads : thread'[s].size = thread[s].size
      /\ \A s \in Threads : thread'[s].block = thread[s].block
      /\ thread'[t].total = thread[t].total
      /\ thread'[t].pc = pc /\ thread'[t] \in BusyThreads
  BY <1>a, GoFields
<1>c. \A s \in Threads : /\ thread'[s].pc \in Writing <=> thread[s].pc \in Writing
                         /\ thread'[s].pc \in Creating <=> thread[s].pc \in Creating
                         /\ thread'[s].pc \in Appending <=> thread[s].pc \in Appending
                         /\ thread'[s].pc \in Finishing <=> thread[s].pc \in Finishing
                         /\ thread'[s].pc \in Dropping <=> thread[s].pc \in Dropping
  BY <1>a, <1>b
<1>1. ControlTypes'
  <2>1. WorkOK(thread[t])
    BY <1>a, ThreadFacts
  <2>2. (WorkOK(thread[t]))'
    BY <2>1, <1>a, <1>b DEF WorkOK
  <2>3. \A s \in Threads : (thread[s] = IdleThread \/ WorkOK(thread[s]))'
    BY <2>2, <1>b DEF ControlTypes, WorkOK
  <2>4. (\A b \in Browsers : BrowserOK(browser[b]))'
    BY <1>b DEF ControlTypes, BrowserOK, BusyOK
  <2> QED BY <2>3, <2>4, <1>b DEF ControlTypes
<1>2. OwnersInv' /\ RequestsInv' /\ AloneInv' /\ AwaitedInv'
  BY <1>b, <1>c, StagesStay
<1> QED BY <1>1, <1>2

LEMMA AnswerFields ==
  ASSUME NEW own \in BusyBrowsers
  PROVE  /\ own.pc = "begin" =>
              /\ Answered(own) \in BusyBrowsers
              /\ Answered(own).pc = "send" /\ Answered(own).upload = own.upload
              /\ Answered(own).size = own.size /\ Answered(own).sent = own.sent
         /\ own.pc = "chunk" =>
              /\ Answered(own) \in BusyBrowsers
              /\ Answered(own).pc = "send" /\ Answered(own).upload = own.upload
              /\ Answered(own).size = own.size /\ Answered(own).sent = own.sent + 1
         /\ own.pc = "finish" =>
              /\ Answered(own) \in BusyBrowsers
              /\ Answered(own).pc = "done" /\ Answered(own).upload = own.upload
              /\ Answered(own).size = own.size /\ Answered(own).sent = own.sent
         /\ own.pc = "aborting" => Answered(own) = IdleBrowser
<1>1. CASE own.pc = "begin"
  <2>1. Answered(own) = [own EXCEPT !.pc = "send"]
    BY <1>1 DEF Answered
  <2> QED BY <1>1, <2>1 DEF BusyBrowsers, BrowserPcs
<1>2. CASE own.pc = "chunk"
  <2>1. Answered(own) = [own EXCEPT !.pc = "send", !.sent = @ + 1]
    BY <1>2 DEF Answered
  <2>2. own.sent \in Nat
    BY DEF BusyBrowsers
  <2>3. /\ Answered(own).pc = "send" /\ Answered(own).upload = own.upload
        /\ Answered(own).size = own.size /\ Answered(own).sent = own.sent + 1
    BY <2>1 DEF BusyBrowsers
  <2>4. [own EXCEPT !.pc = "send"] \in BusyBrowsers
    BY DEF BusyBrowsers, BrowserPcs
  <2>5. PICK x \in BusyBrowsers : x = [own EXCEPT !.pc = "send"]
    BY <2>4
  <2>6. Answered(own) = [x EXCEPT !.sent = own.sent + 1]
    BY <2>1, <2>5 DEF BusyBrowsers
  <2>7. own.sent + 1 \in Nat
    BY <2>2
  <2>8. Answered(own) \in BusyBrowsers
    BY <2>6, <2>7 DEF BusyBrowsers
  <2> QED BY <1>2, <2>3, <2>8
<1>3. CASE own.pc = "finish"
  <2>1. Answered(own) = [own EXCEPT !.pc = "done"]
    BY <1>3 DEF Answered
  <2> QED BY <1>3, <2>1 DEF BusyBrowsers, BrowserPcs
<1>4. CASE own.pc = "aborting"
  BY <1>4 DEF Answered
<1> QED BY <1>1, <1>2, <1>3, <1>4

LEMMA FailureFields ==
  ASSUME NEW own \in BusyBrowsers
  PROVE  /\ own.pc = "chunk" =>
              /\ Failed(own) \in BusyBrowsers
              /\ Failed(own).pc = "abort" /\ Failed(own).upload = own.upload
              /\ Failed(own).size = own.size /\ Failed(own).sent = own.sent
         /\ own.pc # "chunk" => Failed(own) = IdleBrowser
BY DEF Failed, BusyBrowsers, BrowserPcs

\* A browser after an answer, or after it has learnt that there will be none.
LEMMA OutcomeFields ==
  ASSUME UploadsAssumption, ControlInv, NEW b \in Browsers, NEW next,
         \/ next = Answered(browser[b]) /\ browser[b].pc \in {"begin", "chunk", "finish", "aborting"}
         \/ next = Failed(browser[b])
  PROVE  /\ BrowserOK(next)
         /\ next.upload \in {browser[b].upload, Nobody}
         /\ next.upload # Nobody =>
              \/ next.pc = "abort" /\ browser[b].pc = "chunk"
              \/ next.pc = "send" /\ browser[b].pc = "begin"
              \/ next.pc = "send" /\ browser[b].pc = "chunk"
              \/ next.pc = "done" /\ browser[b].pc = "finish"
         /\ next.upload # Nobody => next.size = browser[b].size
<1> USE DEF ControlInv
<1>1. browser[b].pc = "idle" => browser[b] = IdleBrowser /\ Failed(browser[b]) = IdleBrowser
  BY BrowserFacts DEF IdleBrowser, Failed
<1>2. BrowserOK(IdleBrowser) /\ IdleBrowser.upload = Nobody
  BY DEF BrowserOK, IdleBrowser
<1>3. CASE browser[b].pc = "idle"
  BY <1>1, <1>2, <1>3
<1>4. CASE browser[b].pc # "idle"
  <2>1. /\ browser[b] \in BusyBrowsers /\ browser[b].upload \in used
        /\ browser[b].sent \in Nat /\ browser[b].size \in Sizes /\ browser[b].size \in Nat
        /\ browser[b].sent <= browser[b].size
        /\ browser[b].pc = "chunk" => browser[b].sent < browser[b].size
        /\ browser[b].pc = "finish" => browser[b].sent = browser[b].size
    <3>1. BrowserOK(browser[b]) /\ browser[b] \in BusyBrowsers
      BY <1>4, BrowserFacts DEF ControlTypes
    <3>2. browser[b] # IdleBrowser
      BY <1>4 DEF IdleBrowser
    <3>3. browser[b].sent \in Nat /\ browser[b].size \in Sizes
      BY <3>1 DEF BusyBrowsers
    <3> QED BY <3>1, <3>2, <3>3 DEF BrowserOK, BusyOK, UploadsAssumption
  <2>2. CASE next = Failed(browser[b])
    <3>1. CASE browser[b].pc = "chunk"
      <4>1. /\ next \in BusyBrowsers
            /\ next.pc = "abort" /\ next.upload = browser[b].upload
            /\ next.size = browser[b].size /\ next.sent = browser[b].sent
        BY <2>1, <2>2, <3>1, FailureFields
      <4>2. BusyOK(next)
        BY <2>1, <4>1 DEF BusyOK
      <4> QED BY <3>1, <4>1, <4>2 DEF BrowserOK, BusyOK
    <3>2. CASE browser[b].pc # "chunk"
      BY <2>1, <2>2, <3>2, <1>2, FailureFields
    <3> QED BY <3>1, <3>2
  <2>3. CASE next = Answered(browser[b]) /\ browser[b].pc \in {"begin", "chunk", "finish", "aborting"}
    <3>1. CASE browser[b].pc = "begin"
      <4>1. /\ next \in BusyBrowsers
            /\ next.pc = "send" /\ next.upload = browser[b].upload
            /\ next.size = browser[b].size /\ next.sent = browser[b].sent
        BY <2>1, <2>3, <3>1, AnswerFields
      <4>2. BusyOK(next)
        BY <2>1, <3>1, <4>1 DEF BusyOK
      <4> QED BY <3>1, <4>1, <4>2 DEF BrowserOK, BusyOK
    <3>2. CASE browser[b].pc = "chunk"
      <4>1. /\ next \in BusyBrowsers
            /\ next.pc = "send" /\ next.upload = browser[b].upload
            /\ next.size = browser[b].size /\ next.sent = browser[b].sent + 1
        BY <2>1, <2>3, <3>2, AnswerFields
      <4>2. BusyOK(next)
        BY <2>1, <3>2, <4>1 DEF BusyOK
      <4> QED BY <3>2, <4>1, <4>2 DEF BrowserOK, BusyOK
    <3>3. CASE browser[b].pc = "finish"
      <4>1. /\ next \in BusyBrowsers
            /\ next.pc = "done" /\ next.upload = browser[b].upload
            /\ next.size = browser[b].size /\ next.sent = browser[b].sent
        BY <2>1, <2>3, <3>3, AnswerFields
      <4>2. BusyOK(next)
        BY <2>1, <3>3, <4>1 DEF BusyOK
      <4> QED BY <3>3, <4>1, <4>2 DEF BrowserOK, BusyOK
    <3>4. CASE browser[b].pc = "aborting"
      BY <2>1, <2>3, <3>4, <1>2, AnswerFields
    <3> QED BY <2>3, <3>1, <3>2, <3>3, <3>4
  <2> QED BY <2>2, <2>3
<1> QED BY <1>3, <1>4

LEMMA ReplyFields ==
  ASSUME UploadsAssumption, ControlInv, NEW t \in Threads, thread[t].pc # "idle",
         NEW ok \in BOOLEAN, Reply(t, ok)
  PROVE  /\ DOMAIN thread' = Threads /\ DOMAIN browser' = Browsers
         /\ \A s \in Threads : s # t => thread'[s] = thread[s]
         /\ thread'[t] = IdleThread
         /\ \A b \in Browsers : b # thread[t].for => browser'[b] = browser[b]
         /\ \A b \in Browsers : b = thread[t].for =>
              /\ Serves(thread[t], browser[b])
              /\ browser'[b] = IF ok THEN Answered(browser[b]) ELSE Failed(browser[b])
<1>1. \A b \in Browsers : b = thread[t].for => Serves(thread[t], browser[b])
  BY DEF ControlInv, RequestsInv, UploadsAssumption
<1>2. \A b \in Browsers : browser'[b] = CASE b # thread[t].for -> browser[b]
                                     [] b = thread[t].for /\ ok -> Answered(browser[b])
                                     [] OTHER -> Failed(browser[b])
  BY DEF Reply
<1>3. \A b \in Browsers :
        /\ b # thread[t].for => browser'[b] = browser[b]
        /\ b = thread[t].for =>
             browser'[b] = IF ok THEN Answered(browser[b]) ELSE Failed(browser[b])
  BY <1>2
<1> QED BY <1>1, <1>3 DEF Reply, ControlInv, ControlTypes

\* The two replies.
LEMMA AcceptFields ==
  ASSUME UploadsAssumption, ControlInv, NEW t \in Threads, thread[t].pc # "idle", Accept(t)
  PROVE  /\ \A s \in Threads : s # t => thread'[s] = thread[s]
         /\ thread'[t] = IdleThread /\ thread'[t].pc = "idle"
         /\ \A b \in Browsers : b # thread[t].for => browser'[b] = browser[b]
         /\ \A b \in Browsers : b = thread[t].for =>
              Serves(thread[t], browser[b]) /\ browser'[b] = Answered(browser[b])
<1>1. Reply(t, TRUE)
  BY DEF Accept
<1>2. PICK ok \in BOOLEAN : ok = TRUE
  OBVIOUS
<1>3. Reply(t, ok)
  BY <1>1, <1>2
<1>4. /\ \A s \in Threads : s # t => thread'[s] = thread[s]
      /\ thread'[t] = IdleThread
      /\ \A b \in Browsers : b # thread[t].for => browser'[b] = browser[b]
      /\ \A b \in Browsers : b = thread[t].for =>
           /\ Serves(thread[t], browser[b])
           /\ browser'[b] = IF ok THEN Answered(browser[b]) ELSE Failed(browser[b])
  BY <1>3, ReplyFields
<1> QED BY <1>2, <1>4 DEF IdleThread

LEMMA ReplyControl ==
  ASSUME UploadsAssumption, ControlInv, NEW t \in Threads, thread[t].pc # "idle",
         NEW ok \in BOOLEAN, Reply(t, ok), used' = used
  PROVE  ControlInv'
<1> USE DEF ControlInv
<1>a. /\ DOMAIN thread' = Threads /\ DOMAIN browser' = Browsers
      /\ \A s \in Threads : s # t => thread'[s] = thread[s]
      /\ thread'[t] = IdleThread
      /\ \A b \in Browsers : b # thread[t].for => browser'[b] = browser[b]
      /\ \A b \in Browsers : b = thread[t].for =>
           /\ Serves(thread[t], browser[b])
           /\ browser'[b] = IF ok THEN Answered(browser[b]) ELSE Failed(browser[b])
  BY ReplyFields
<1>b. \A b \in Browsers : b = thread[t].for =>
        /\ (BrowserOK(browser[b]))'
        /\ browser'[b].upload \in {browser[b].upload, Nobody}
        /\ browser'[b].upload # Nobody => thread[t].pc \in Writing
  <2> SUFFICES ASSUME NEW b \in Browsers, b = thread[t].for
               PROVE  /\ (BrowserOK(browser[b]))'
                      /\ browser'[b].upload \in {browser[b].upload, Nobody}
                      /\ browser'[b].upload # Nobody => thread[t].pc \in Writing
    OBVIOUS
  <2>1. Serves(thread[t], browser[b])
    BY <1>a
  <2>2. browser[b].pc \in {"begin", "chunk", "finish", "aborting"}
    BY <2>1 DEF Serves
  <2>3. \/ browser'[b] = Answered(browser[b])
        \/ browser'[b] = Failed(browser[b])
    BY <1>a
  <2>4. PICK next : next = browser'[b]
    OBVIOUS
  <2>5. /\ BrowserOK(next) /\ next.upload \in {browser[b].upload, Nobody}
        /\ next.upload # Nobody => browser[b].pc \in {"begin", "chunk", "finish"}
    BY <2>2, <2>3, <2>4, OutcomeFields
  <2>6. (BrowserOK(browser[b]))'
    BY <2>4, <2>5 DEF BrowserOK, BusyOK
  <2> QED BY <2>1, <2>4, <2>5, <2>6 DEF Serves, Writing
<1>c. IdleThread.pc = "idle" /\ IdleThread.for = Nobody /\ IdleThread.upload = Nobody
      /\ "idle" \notin Writing /\ "idle" \notin Creating
  BY DEF IdleThread, Writing, Creating, Appending, Finishing
<1>1. ControlTypes'
  <2>1. \A b \in Browsers : (BrowserOK(browser[b]))'
    BY <1>a, <1>b DEF ControlTypes, BrowserOK, BusyOK
  <2>2. \A s \in Threads : (thread[s] = IdleThread \/ WorkOK(thread[s]))'
    BY <1>a DEF ControlTypes, WorkOK
  <2> QED BY <1>a, <2>1, <2>2 DEF ControlTypes
<1>2. OwnersInv'
  BY <1>a, <1>b DEF OwnersInv
<1>3. RequestsInv'
  <2> SUFFICES ASSUME NEW s \in Threads, thread'[s].for # Nobody
               PROVE  /\ Serves(thread'[s], browser'[thread'[s].for])
                      /\ \A r \in Threads : thread'[r].for = thread'[s].for => r = s
    BY DEF RequestsInv, Serves
  <2>1. s # t /\ thread'[s] = thread[s]
    BY <1>a, <1>c
  <2>2. thread[s].for # thread[t].for /\ thread[s].for \in Browsers
    BY <2>1, ThreadFacts DEF RequestsInv
  <2> QED BY <1>a, <1>c, <2>1, <2>2 DEF RequestsInv
<1>4. AloneInv'
  <2> SUFFICES ASSUME NEW r \in Threads, NEW s \in Threads,
                      thread'[r].upload = thread'[s].upload, thread'[s].pc \in Writing,
                      thread'[r].pc \in Writing \/ thread'[s].pc \in Creating
               PROVE  r = s
    BY DEF AloneInv
  <2>1. s # t /\ thread'[s] = thread[s] /\ thread[s].upload # Nobody
    BY <1>a, <1>c, ThreadFacts
  <2>2. r # t /\ thread'[r] = thread[r]
    BY <1>a, <1>c, <2>1
  <2> QED BY <2>1, <2>2 DEF AloneInv
<1>5. AwaitedInv'
  <2> SUFFICES ASSUME NEW s \in Threads, NEW b \in Browsers,
                      thread'[s].pc \in Writing, browser'[b].upload = thread'[s].upload
               PROVE  \/ thread'[s].for = b
                      \/ browser'[b].pc \in {"abort", "aborting"} /\ thread'[s].pc \notin Creating
    BY DEF AwaitedInv
  <2>1. s # t /\ thread'[s] = thread[s] /\ thread[s].upload # Nobody
    BY <1>a, <1>c, ThreadFacts
  <2>2. CASE b = thread[t].for
    <3>1. thread[t].upload = browser[b].upload /\ browser'[b].upload = browser[b].upload
      BY <1>a, <1>b, <2>1, <2>2 DEF Serves
    <3>2. thread[t].pc \in Writing
      BY <1>b, <2>1, <2>2
    <3> QED BY <2>1, <3>1, <3>2 DEF AloneInv
  <2>3. CASE b # thread[t].for
    BY <1>a, <2>1, <2>3 DEF AwaitedInv
  <2> QED BY <2>2, <2>3
<1> QED BY <1>1, <1>2, <1>3, <1>4, <1>5

\* A request that browser b makes as own: a thread takes it.
Asked(b, own, pc, t) ==
  /\ DOMAIN browser' = Browsers /\ DOMAIN thread' = Threads
  /\ \A c \in Browsers : c # b => browser'[c] = browser[c]
  /\ browser'[b] = own
  /\ thread[t] = IdleThread
  /\ \A s \in Threads : s # t => thread'[s] = thread[s]
  /\ thread'[t] \in BusyThreads
  /\ thread'[t].pc = pc /\ thread'[t].for = b
  /\ thread'[t].upload = own.upload /\ thread'[t].name = own.name
  /\ thread'[t].size = own.size /\ thread'[t].block = own.sent + 1

LEMMA AskFields ==
  ASSUME ControlTypes, NEW b \in Browsers, NEW own \in BusyBrowsers,
         NEW pc \in Writing \cup Dropping, Ask(b, own, pc)
  PROVE  \E t \in Threads : Asked(b, own, pc, t)
<1>1. PICK t \in Threads :
        /\ thread[t] = IdleThread
        /\ thread' = [thread EXCEPT ![t] =
             [IdleThread EXCEPT !.pc = pc, !.upload = own.upload, !.name = own.name,
                                !.size = own.size, !.block = own.sent + 1, !.for = b]]
  BY DEF Ask
<1>2. browser' = [browser EXCEPT ![b] = own]
  BY DEF Ask
<1> DEFINE work == [IdleThread EXCEPT !.pc = pc, !.upload = own.upload, !.name = own.name,
                                !.size = own.size, !.block = own.sent + 1, !.for = b]
<1>3. /\ own.upload \in Uploads /\ own.name \in Names /\ own.size \in Sizes
      /\ own.sent \in Nat /\ own.sent + 1 \in Nat
  BY DEF BusyBrowsers
<1>4. /\ work.pc = pc /\ work.for = b /\ work.upload = own.upload /\ work.name = own.name
      /\ work.size = own.size /\ work.block = own.sent + 1
  BY DEF IdleThread
<1>5. work \in BusyThreads
  BY <1>3 DEF BusyThreads, IdleThread
<1> HIDE DEF work
<1>6. DOMAIN browser = Browsers /\ DOMAIN thread = Threads
  BY DEF ControlTypes
<1>7. thread' = [thread EXCEPT ![t] = work]
  BY <1>1 DEF work
<1>8. thread'[t] = work /\ \A s \in Threads : s # t => thread'[s] = thread[s]
  BY <1>6, <1>7
<1>9. Asked(b, own, pc, t)
  BY <1>1, <1>2, <1>4, <1>5, <1>6, <1>7, <1>8 DEF Asked
<1> QED BY <1>9

\* What browser b asks for fits what it is doing, and does not meet another
\* request that writes.
Fits(own, pc) ==
  \/ own.pc = "begin" /\ pc = "create"
  \/ own.pc = "chunk" /\ pc = "append"
  \/ own.pc = "finish" /\ pc = "finish"
  \/ own.pc = "aborting" /\ pc = "abort"

Clear(own, pc) ==
  \A s \in Threads : thread[s].upload = own.upload =>
    /\ pc # "create" /\ thread[s].pc \notin Creating
    /\ pc = "abort" \/ thread[s].pc \notin Writing

LEMMA AskControl ==
  ASSUME UploadsAssumption, ControlInv, NEW b \in Browsers, NEW own, NEW pc, Ask(b, own, pc),
         Fits(own, pc), Clear(own, pc), BusyOK(own)', used \subseteq used', used' \subseteq Uploads,
         \A s \in Threads : thread[s].for # b,
         \A c \in Browsers : c # b => browser[c].upload # own.upload
  PROVE  ControlInv'
<1> USE DEF ControlInv
<1>a. /\ own \in BusyBrowsers /\ own.upload \in used' /\ own.upload \in Uploads
      /\ own.name \in Names /\ own.size \in Sizes /\ own.size \in Nat /\ own.sent \in Nat
      /\ own.pc = "chunk" => own.sent < own.size
  BY DEF BusyOK, BusyBrowsers, UploadsAssumption
<1>b. /\ pc \in Writing \cup Dropping
      /\ pc \in Writing <=> pc # "abort"
      /\ pc \in Creating <=> pc = "create"
      /\ pc \in Appending <=> pc = "append"
      /\ pc \in Finishing <=> pc = "finish"
      /\ pc \in Dropping <=> pc = "abort"
      /\ pc \notin {"write", "update"}
  BY DEF Fits, Writing, Creating, Appending, Finishing, Dropping
<1>c. PICK t \in Threads : Asked(b, own, pc, t)
  BY <1>a, <1>b, AskFields
<1>d. /\ DOMAIN browser' = Browsers /\ DOMAIN thread' = Threads
      /\ \A c \in Browsers : c # b => browser'[c] = browser[c]
      /\ browser'[b] = own
      /\ thread[t] = IdleThread
      /\ \A s \in Threads : s # t => thread'[s] = thread[s]
      /\ thread'[t] \in BusyThreads
      /\ thread'[t].pc = pc /\ thread'[t].for = b
      /\ thread'[t].upload = own.upload /\ thread'[t].name = own.name
      /\ thread'[t].size = own.size /\ thread'[t].block = own.sent + 1
  BY <1>c DEF Asked
<1>1. ControlTypes'
  <2>1. BrowserOK(own)'
    BY DEF BrowserOK
  <2>2. \A c \in Browsers : BrowserOK(browser[c])'
    <3> SUFFICES ASSUME NEW c \in Browsers PROVE BrowserOK(browser[c])'
      OBVIOUS
    <3>1. CASE c = b
      BY <1>d, <2>1, <3>1 DEF BrowserOK, BusyOK
    <3>2. CASE c # b
      BY <1>d, <3>2 DEF ControlTypes, BrowserOK, BusyOK
    <3> QED BY <3>1, <3>2
  <2>3. WorkOK(thread[t])'
    <3>1. pc \in Appending => thread'[t].block \in 1 .. thread'[t].size
      BY <1>a, <1>b, <1>d DEF Fits
    <3> QED BY <1>a, <1>b, <1>d, <3>1 DEF WorkOK
  <2>4. \A s \in Threads : (thread[s] = IdleThread \/ WorkOK(thread[s]))'
    BY <1>d, <2>3 DEF ControlTypes, WorkOK
  <2> QED BY <1>d, <2>2, <2>4 DEF ControlTypes
<1>2. OwnersInv'
  BY <1>d DEF OwnersInv
<1>3. RequestsInv'
  <2> SUFFICES ASSUME NEW s \in Threads, thread'[s].for # Nobody
               PROVE  /\ Serves(thread'[s], browser'[thread'[s].for])
                      /\ \A r \in Threads : thread'[r].for = thread'[s].for => r = s
    BY DEF RequestsInv, Serves
  <2>1. CASE s = t
    <3>1. Serves(thread'[t], own)
      BY <1>b, <1>d DEF Serves, Fits
    <3> QED BY <1>d, <2>1, <3>1
  <2>2. CASE s # t
    <3>1. thread'[s] = thread[s] /\ thread[s].for \in Browsers /\ thread[s].for # b
      BY <1>d, <2>2, ThreadFacts
    <3>2. browser'[thread[s].for] = browser[thread[s].for]
      BY <1>d, <3>1
    <3>3. \A r \in Threads : thread'[r].for = thread[s].for => r = s
      BY <1>d, <3>1 DEF RequestsInv
    <3> QED BY <3>1, <3>2, <3>3 DEF RequestsInv
  <2> QED BY <2>1, <2>2
<1>4. AloneInv'
  <2> SUFFICES ASSUME NEW r \in Threads, NEW s \in Threads,
                      thread'[r].upload = thread'[s].upload, thread'[s].pc \in Writing,
                      thread'[r].pc \in Writing \/ thread'[s].pc \in Creating
               PROVE  r = s
    BY DEF AloneInv
  <2>1. CASE s # t /\ r # t
    BY <1>d, <2>1 DEF AloneInv
  <2>2. CASE s = t /\ r # t
    BY <1>b, <1>d, <2>2 DEF Clear
  <2>3. CASE s # t /\ r = t
    BY <1>b, <1>d, <2>3 DEF Clear
  <2> QED BY <2>1, <2>2, <2>3
<1>5. AwaitedInv'
  <2> SUFFICES ASSUME NEW s \in Threads, NEW c \in Browsers,
                      thread'[s].pc \in Writing, browser'[c].upload = thread'[s].upload
               PROVE  \/ thread'[s].for = c
                      \/ browser'[c].pc \in {"abort", "aborting"} /\ thread'[s].pc \notin Creating
    BY DEF AwaitedInv
  <2>1. CASE s = t
    BY <1>d, <2>1
  <2>2. CASE s # t /\ c # b
    BY <1>d, <2>2 DEF AwaitedInv
  <2>3. CASE s # t /\ c = b
    BY <1>b, <1>d, <2>3 DEF Clear, Fits
  <2> QED BY <2>1, <2>2, <2>3
<1> QED BY <1>1, <1>2, <1>3, <1>4, <1>5

\* A browser that waits for nothing is nobody's, and only one that has given its
\* upload up shares it with a request that writes.
LEMMA NobodyWaits ==
  ASSUME UploadsAssumption, ControlInv, NEW b \in Browsers,
         browser[b].pc \in {"idle", "send", "done", "abort"}
  PROVE  /\ \A s \in Threads : thread[s].for # b
         /\ \A s \in Threads : browser[b].pc # "idle" /\ thread[s].upload = browser[b].upload =>
              /\ thread[s].pc \notin Creating
              /\ browser[b].pc = "abort" \/ thread[s].pc \notin Writing
<1>1. \A s \in Threads : thread[s].for # b
  BY DEF ControlInv, RequestsInv, Serves, UploadsAssumption
<1> QED BY <1>1 DEF ControlInv, AwaitedInv, Writing

LEMMA StartControl ==
  ASSUME UploadsAssumption, ControlInv, NEW b \in Browsers, StartUpload(b)
  PROVE  ControlInv'
<1>1. PICK u \in Uploads \ used, n \in Names, size \in Sizes :
        /\ Ask(b, [IdleBrowser EXCEPT !.pc = "begin", !.upload = u, !.name = n, !.size = size],
               "create")
        /\ used' = used \cup {u}
  BY DEF StartUpload
<1> DEFINE new == [IdleBrowser EXCEPT !.pc = "begin", !.upload = u, !.name = n, !.size = size]
<1>2. new \in BusyBrowsers
  BY DEF IdleBrowser, BusyBrowsers, BrowserPcs
<1>a. new.pc = "begin" /\ new.upload = u /\ new.sent = 0 /\ new.size = size /\ size \in Nat
  BY DEF IdleBrowser, UploadsAssumption
<1>4. PICK own \in BusyBrowsers : own = new
  BY <1>2
<1>b. Ask(b, own, "create")
  BY <1>1, <1>4
<1>3. own.pc = "begin" /\ own.upload = u /\ own.sent = 0 /\ own.size = size /\ size \in Nat
  BY <1>a, <1>4
<1> HIDE DEF new
<1>5. /\ \A s \in Threads : thread[s].for # b /\ thread[s].upload # u
      /\ \A c \in Browsers : browser[c].upload # u
  BY BrowserFacts, ThreadFacts, NobodyWaits DEF StartUpload, ControlInv, UploadsAssumption
<1>6. used' \subseteq Uploads /\ used \subseteq used' /\ u \in used'
  BY <1>1 DEF ControlInv, ControlTypes
<1>7. BusyOK(own)'
  BY <1>3, <1>6 DEF BusyOK
<1> QED BY <1>3, <1>b, <1>5, <1>6, <1>7, AskControl DEF Fits, Clear

LEMMA SendControl ==
  ASSUME UploadsAssumption, ControlInv, NEW b \in Browsers, SendNext(b) \/ SendAbort(b)
  PROVE  ControlInv'
<1>1. /\ browser[b].pc \in {"send", "abort"} /\ used' = used
  BY DEF SendNext, SendAbort
<1>2. /\ browser[b] \in BusyBrowsers /\ BusyOK(browser[b])
      /\ browser[b].sent \in Nat /\ browser[b].size \in Nat
      /\ browser[b].sent <= browser[b].size
  <2>1. BrowserOK(browser[b]) /\ browser[b] # IdleBrowser
    BY <1>1 DEF ControlInv, ControlTypes, IdleBrowser
  <2> QED BY <2>1 DEF BrowserOK, BusyOK, BusyBrowsers, UploadsAssumption
<1>3. PICK pc \in BrowserPcs, ask \in Writing \cup Dropping :
        /\ Ask(b, [browser[b] EXCEPT !.pc = pc], ask)
        /\ \/ /\ pc = "finish" /\ ask = "finish"
              /\ browser[b].sent = browser[b].size /\ browser[b].pc = "send"
           \/ /\ pc = "chunk" /\ ask = "append"
              /\ browser[b].sent # browser[b].size /\ browser[b].pc = "send"
           \/ pc = "aborting" /\ ask = "abort" /\ browser[b].pc = "abort"
  BY DEF SendNext, SendAbort, BrowserPcs, Writing, Appending, Finishing, Dropping
<1>a. [browser[b] EXCEPT !.pc = pc] \in BusyBrowsers
  BY <1>2 DEF BusyBrowsers
<1>b. PICK own \in BusyBrowsers : own = [browser[b] EXCEPT !.pc = pc]
  BY <1>a
<1>4. /\ own \in BusyBrowsers /\ own.pc = pc /\ own.upload = browser[b].upload
      /\ own.sent = browser[b].sent /\ own.size = browser[b].size
  BY <1>b, <1>2 DEF BusyBrowsers
<1>5. Ask(b, own, ask)
  BY <1>3, <1>b
<1>6. /\ \A s \in Threads : thread[s].for # b
      /\ \A c \in Browsers : c # b => browser[c].upload # own.upload
  BY <1>1, <1>4, NobodyWaits, BrowserFacts DEF ControlInv, OwnersInv
<1>7. Fits(own, ask)
  BY <1>3, <1>4 DEF Fits
<1>8. Clear(own, ask)
  <2>1. \A s \in Threads : thread[s].upload = browser[b].upload =>
          /\ thread[s].pc \notin Creating
          /\ browser[b].pc = "abort" \/ thread[s].pc \notin Writing
    BY <1>1, NobodyWaits
  <2>2. /\ ask # "create"
        /\ browser[b].pc = "abort" => ask = "abort"
    BY <1>3
  <2> QED BY <1>4, <2>1, <2>2 DEF Clear
<1>9. BusyOK(own)'
  BY <1>1, <1>2, <1>3, <1>4 DEF BusyOK
<1>10. used \subseteq used' /\ used' \subseteq Uploads
  BY <1>1 DEF ControlInv, ControlTypes
<1> QED BY <1>5, <1>6, <1>7, <1>8, <1>9, <1>10, AskControl

LEMMA LoseControl ==
  ASSUME UploadsAssumption, ControlInv, NEW b \in Browsers, LoseConnection(b)
  PROVE  ControlInv'
<1> USE DEF ControlInv
<1>1. PICK t \in Threads :
        /\ thread[t].for = b
        /\ thread' = [thread EXCEPT ![t].for = Nobody]
        /\ browser' = [browser EXCEPT ![b] = Failed(@)]
  BY DEF LoseConnection
<1>2. /\ used' = used /\ DOMAIN browser' = Browsers /\ DOMAIN thread' = Threads
      /\ \A c \in Browsers : c # b => browser'[c] = browser[c]
      /\ browser'[b] = Failed(browser[b])
      /\ \A s \in Threads : s # t => thread'[s] = thread[s]
      /\ thread'[t] = [thread[t] EXCEPT !.for = Nobody]
  BY <1>1 DEF LoseConnection, ControlTypes
<1>3. /\ WorkOK(thread[t]) /\ thread[t] \in BusyThreads
      /\ Serves(thread[t], browser[b]) /\ \A s \in Threads : s # t => thread[s].for # b
      /\ b # Nobody
  BY <1>1, ThreadFacts DEF WorkOK, RequestsInv, UploadsAssumption
<1>4. /\ thread'[t] \in BusyThreads
      /\ thread'[t].pc = thread[t].pc /\ thread'[t].upload = thread[t].upload
      /\ thread'[t].name = thread[t].name /\ thread'[t].size = thread[t].size
      /\ thread'[t].block = thread[t].block /\ thread'[t].total = thread[t].total
      /\ thread'[t].for = Nobody
  BY <1>2, <1>3 DEF BusyThreads
<1>5. /\ (BrowserOK(browser[b]))'
      /\ browser'[b].upload \in {browser[b].upload, Nobody}
      /\ browser'[b].upload # Nobody =>
           browser'[b].pc = "abort" /\ browser[b].pc = "chunk" /\ thread[t].pc \notin Creating
  <2>1. PICK next : next = browser'[b]
    OBVIOUS
  <2>2. /\ BrowserOK(next) /\ next.upload \in {browser[b].upload, Nobody}
    BY <1>2, <2>1, OutcomeFields
  <2>3. CASE browser[b].pc = "chunk"
    <3>1. browser[b] \in BusyBrowsers
      BY <2>3, BrowserFacts
    <3>2. next.pc = "abort" /\ thread[t].pc \notin Creating
      BY <1>2, <1>3, <2>1, <2>3, <3>1, FailureFields DEF Serves, Creating, Appending
    <3> QED BY <1>2, <2>1, <2>2, <2>3, <3>2 DEF BrowserOK, BusyOK
  <2>4. CASE browser[b].pc # "chunk"
    <3>1. browser[b].pc # "idle"
      BY <1>3 DEF Serves
    <3>2. browser[b] \in BusyBrowsers
      BY <3>1, BrowserFacts
    <3>3. next = IdleBrowser
      BY <1>2, <2>1, <2>4, <3>2, FailureFields
    <3> QED BY <1>2, <2>1, <2>2, <3>3 DEF BrowserOK, BusyOK, IdleBrowser
  <2> QED BY <2>3, <2>4
<1>6. ControlTypes'
  <2>1. \A c \in Browsers : (BrowserOK(browser[c]))'
    BY <1>2, <1>5 DEF ControlTypes, BrowserOK, BusyOK
  <2>2. (WorkOK(thread[t]))'
    BY <1>2, <1>3, <1>4 DEF WorkOK
  <2>3. \A s \in Threads : (thread[s] = IdleThread \/ WorkOK(thread[s]))'
    BY <1>2, <2>2 DEF ControlTypes, WorkOK
  <2> QED BY <1>2, <2>1, <2>3 DEF ControlTypes
<1>7. OwnersInv'
  BY <1>2, <1>5 DEF OwnersInv
<1>8. RequestsInv'
  <2> SUFFICES ASSUME NEW s \in Threads, thread'[s].for # Nobody
               PROVE  /\ Serves(thread'[s], browser'[thread'[s].for])
                      /\ \A r \in Threads : thread'[r].for = thread'[s].for => r = s
    BY DEF RequestsInv, Serves
  <2>1. s # t /\ thread'[s] = thread[s] /\ thread[s].for # b /\ thread[s].for \in Browsers
    BY <1>2, <1>3, <1>4, ThreadFacts
  <2>2. browser'[thread[s].for] = browser[thread[s].for]
    BY <1>2, <2>1
  <2>3. \A r \in Threads : thread'[r].for = thread[s].for => r = s
    BY <1>2, <1>4, <2>1 DEF RequestsInv
  <2> QED BY <2>1, <2>2, <2>3 DEF RequestsInv
<1>a. \A s \in Threads : thread'[s].pc = thread[s].pc /\ thread'[s].upload = thread[s].upload
  BY <1>2, <1>4
<1>9. AloneInv'
  BY <1>a DEF AloneInv
<1>10. AwaitedInv'
  <2> SUFFICES ASSUME NEW s \in Threads, NEW c \in Browsers,
                      thread'[s].pc \in Writing, browser'[c].upload = thread'[s].upload
               PROVE  \/ thread'[s].for = c
                      \/ browser'[c].pc \in {"abort", "aborting"} /\ thread'[s].pc \notin Creating
    BY DEF AwaitedInv
  <2>1. thread[s].pc \in Writing /\ thread[s].upload # Nobody
    <3>1. thread[s].pc \in Writing
      BY <1>a
    <3>2. thread[s].pc # "idle"
      BY <3>1 DEF Writing, Creating, Appending, Finishing
    <3> QED BY <3>1, <3>2, ThreadFacts
  <2>2. browser[c].upload = thread[s].upload
    BY <1>2, <1>5, <1>a, <2>1
  <2>3. CASE c = b
    <3>1. s = t
      BY <1>3, <1>5, <1>a, <2>1, <2>2, <2>3 DEF AwaitedInv
    <3> QED BY <1>a, <1>5, <2>1, <2>3, <3>1
  <2>4. CASE c # b
    <3>1. thread[s].for = c => s # t
      BY <1>1, <2>4
    <3> QED BY <1>2, <1>a, <2>1, <2>2, <2>4, <3>1 DEF AwaitedInv
  <2> QED BY <2>3, <2>4
<1> QED BY <1>6, <1>7, <1>8, <1>9, <1>10

LEMMA LeaveControl ==
  ASSUME UploadsAssumption, ControlInv, NEW b \in Browsers, Leave(b)
  PROVE  ControlInv'
<1> USE DEF ControlInv
<1>1. /\ used' = used /\ thread' = thread /\ DOMAIN browser' = Browsers
      /\ \A c \in Browsers : c # b => browser'[c] = browser[c]
      /\ browser'[b] = IdleBrowser /\ browser[b].pc = "done"
  BY DEF Leave, ControlTypes
<1>2. IdleBrowser.upload = Nobody
  BY DEF IdleBrowser
<1>3. ControlTypes'
  <2>1. \A c \in Browsers : (BrowserOK(browser[c]))'
    BY <1>1 DEF ControlTypes, BrowserOK, BusyOK
  <2>2. \A s \in Threads : (thread[s] = IdleThread \/ WorkOK(thread[s]))'
    BY <1>1 DEF ControlTypes, WorkOK
  <2> QED BY <1>1, <2>1, <2>2 DEF ControlTypes
<1>4. OwnersInv'
  BY <1>1, <1>2 DEF OwnersInv
<1>5. RequestsInv'
  BY <1>1, NobodyWaits, ThreadFacts DEF RequestsInv, Serves
<1>6. AloneInv'
  BY <1>1 DEF AloneInv
<1>7. AwaitedInv'
  <2>1. \A s \in Threads : thread[s].pc \in Writing => thread[s].upload # Nobody
    BY ThreadFacts DEF Writing, Creating, Appending, Finishing
  <2> QED BY <1>1, <1>2, <2>1 DEF AwaitedInv
<1> QED BY <1>3, <1>4, <1>5, <1>6, <1>7

LEMMA CrashControl ==
  ASSUME UploadsAssumption, ControlInv, Crash
  PROVE  ControlInv'
<1> USE DEF ControlInv
<1>1. /\ used' = used /\ DOMAIN browser' = Browsers /\ DOMAIN thread' = Threads
      /\ \A t \in Threads : thread'[t] = IdleThread
      /\ \A b \in Browsers : browser'[b] = Failed(browser[b]) \/ browser'[b] = browser[b]
  BY DEF Crash
<1>2. \A b \in Browsers : /\ (BrowserOK(browser[b]))'
                          /\ browser'[b].upload \in {browser[b].upload, Nobody}
  <2> SUFFICES ASSUME NEW b \in Browsers
               PROVE  /\ (BrowserOK(browser[b]))'
                      /\ browser'[b].upload \in {browser[b].upload, Nobody}
    OBVIOUS
  <2>1. PICK next : next = browser'[b]
    OBVIOUS
  <2>2. CASE next = browser[b]
    BY <1>1, <2>1, <2>2 DEF ControlTypes, BrowserOK, BusyOK
  <2>3. CASE next = Failed(browser[b])
    <3>1. BrowserOK(next) /\ next.upload \in {browser[b].upload, Nobody}
      BY <2>3, OutcomeFields
    <3> QED BY <1>1, <2>1, <3>1 DEF BrowserOK, BusyOK
  <2> QED BY <1>1, <2>1, <2>2, <2>3
<1>3. IdleThread.pc = "idle" /\ IdleThread.for = Nobody /\ "idle" \notin Writing
  BY DEF IdleThread, Writing, Creating, Appending, Finishing
<1>4. ControlTypes'
  BY <1>1, <1>2 DEF ControlTypes
<1>5. OwnersInv'
  BY <1>1, <1>2 DEF OwnersInv
<1>6. RequestsInv' /\ AloneInv' /\ AwaitedInv'
  BY <1>1, <1>3 DEF RequestsInv, AloneInv, AwaitedInv
<1> QED BY <1>4, <1>5, <1>6

\* The cleanup job meets no upload that is just being created.
LEMMA CleanupFields ==
  ASSUME UploadsAssumption, ControlInv, SessionInv, Cleanup
  PROVE  /\ used' = used /\ browser' = browser /\ DOMAIN thread' = Threads
         /\ \E t \in Threads, u \in Uploads :
              /\ thread[t] = IdleThread /\ session[u].there /\ u \in used
              /\ \A s \in Threads : s # t => thread'[s] = thread[s]
              /\ thread'[t] \in BusyThreads
              /\ thread'[t].pc = "abort" /\ thread'[t].upload = u /\ thread'[t].for = Nobody
<1>1. PICK t \in Threads, u \in Uploads :
        /\ thread[t] = IdleThread /\ session[u].there
        /\ thread' = [thread EXCEPT ![t] = [IdleThread EXCEPT !.pc = "abort", !.upload = u]]
  BY DEF Cleanup
<1> DEFINE work == [IdleThread EXCEPT !.pc = "abort", !.upload = u]
<1>2. work.pc = "abort" /\ work.upload = u /\ work.for = Nobody
  BY DEF IdleThread
<1>3. work \in BusyThreads
  BY DEF IdleThread, BusyThreads, Dropping
<1> HIDE DEF work
<1>4. thread' = [thread EXCEPT ![t] = work]
  BY <1>1 DEF work
<1>5. DOMAIN thread = Threads
  BY DEF ControlInv, ControlTypes
<1>6. /\ \A s \in Threads : s # t => thread'[s] = thread[s]
      /\ thread'[t] = work /\ DOMAIN thread' = Threads
  BY <1>4, <1>5
<1>7. used' = used /\ browser' = browser
  BY DEF Cleanup
<1>8. u \in used
  BY <1>1 DEF SessionInv
<1> QED BY <1>1, <1>2, <1>3, <1>6, <1>7, <1>8

LEMMA CleanupControl ==
  ASSUME UploadsAssumption, ControlInv, SessionInv, Cleanup
  PROVE  ControlInv'
<1> USE DEF ControlInv
<1>1. used' = used /\ browser' = browser /\ DOMAIN thread' = Threads
  BY CleanupFields
<1>2. PICK t \in Threads, u \in Uploads :
        /\ thread[t] = IdleThread /\ session[u].there /\ u \in used
        /\ \A s \in Threads : s # t => thread'[s] = thread[s]
        /\ thread'[t] \in BusyThreads
        /\ thread'[t].pc = "abort" /\ thread'[t].upload = u /\ thread'[t].for = Nobody
  BY CleanupFields
<1>3. "abort" \notin Writing /\ "abort" \notin Appending /\ "abort" \notin Creating
  BY DEF Writing, Creating, Appending, Finishing
<1>4. ControlTypes'
  <2>1. (WorkOK(thread[t]))'
    BY <1>1, <1>2, <1>3 DEF WorkOK
  <2>2. \A s \in Threads : (thread[s] = IdleThread \/ WorkOK(thread[s]))'
    BY <1>1, <1>2, <2>1 DEF ControlTypes, WorkOK
  <2>3. \A b \in Browsers : (BrowserOK(browser[b]))'
    BY <1>1 DEF ControlTypes, BrowserOK, BusyOK
  <2> QED BY <1>1, <2>2, <2>3 DEF ControlTypes
<1>5. OwnersInv'
  BY <1>1 DEF OwnersInv
<1>6. RequestsInv'
  <2> SUFFICES ASSUME NEW s \in Threads, thread'[s].for # Nobody
               PROVE  /\ Serves(thread'[s], browser'[thread'[s].for])
                      /\ \A r \in Threads : thread'[r].for = thread'[s].for => r = s
    BY DEF RequestsInv, Serves
  <2>1. s # t /\ thread'[s] = thread[s]
    BY <1>2
  <2> QED BY <1>1, <1>2, <2>1 DEF RequestsInv
<1>7. AloneInv'
  <2> SUFFICES ASSUME NEW r \in Threads, NEW s \in Threads,
                      thread'[r].upload = thread'[s].upload, thread'[s].pc \in Writing,
                      thread'[r].pc \in Writing \/ thread'[s].pc \in Creating
               PROVE  r = s
    BY DEF AloneInv
  <2>1. s # t /\ thread'[s] = thread[s]
    BY <1>2, <1>3
  <2>2. CASE r # t
    BY <1>2, <2>1, <2>2 DEF AloneInv
  <2>3. CASE r = t
    BY <1>2, <1>3, <2>1, <2>3 DEF SessionInv
  <2> QED BY <2>2, <2>3
<1>8. AwaitedInv'
  BY <1>1, <1>2, <1>3 DEF AwaitedInv
<1> QED BY <1>4, <1>5, <1>6, <1>7, <1>8

LEMMA AppendControl ==
  ASSUME UploadsAssumption, UploadsInv, NEW t \in Threads, AppendChunk(t)
  PROVE  /\ ControlInv'
         /\ \/ Refuse(t)
            \/ /\ browser' = browser
               /\ \A s \in Threads : s # t => thread'[s] = thread[s]
               /\ session[thread[t].upload].there /\ thread[t].block <= Cap
               /\ thread'[t].pc = "write" /\ thread'[t].upload = thread[t].upload
               /\ thread'[t].name = thread[t].name /\ thread'[t].size = thread[t].size
               /\ thread'[t].block = thread[t].block
<1> USE DEF UploadsInv
<1>1. thread[t].pc = "append" /\ used' = used
  BY DEF AppendChunk
<1>2. /\ thread[t].pc # "idle" /\ WorkOK(thread[t]) /\ thread[t] \in BusyThreads
      /\ thread[t].upload \in Uploads
  BY <1>1, ThreadFacts DEF WorkOK, ControlInv
<1>3. CASE Refuse(t)
  BY <1>1, <1>2, <1>3, ReplyControl DEF Refuse
<1>4. CASE ~Refuse(t)
  <2>1. /\ session[thread[t].upload].there /\ session[thread[t].upload].received + 1 <= Cap
        /\ thread' = [thread EXCEPT ![t].pc = "write",
                                    ![t].total = session[thread[t].upload].received + 1]
        /\ browser' = browser
    BY <1>4 DEF AppendChunk
  <2>2. session[thread[t].upload].received = thread[t].block - 1
    BY <1>1, <2>1 DEF StagedInv, Staged
  <2>3. thread[t].block \in 1 .. thread[t].size /\ thread[t].size \in Nat /\ thread[t].size \in Sizes
    BY <1>1, <1>2 DEF WorkOK, Writing, Appending, UploadsAssumption
  <2>4. /\ session[thread[t].upload].received + 1 = thread[t].block
        /\ thread[t].block \in Nat /\ thread[t].block <= Cap
    BY <2>1, <2>2, <2>3
  <2>5. DOMAIN thread = Threads
    BY DEF ControlInv, ControlTypes
  <2>6. /\ \A s \in Threads : s # t => thread'[s] = thread[s]
        /\ thread'[t] = [thread[t] EXCEPT !.pc = "write", !.total = thread[t].block]
        /\ DOMAIN thread' = Threads
    BY <2>1, <2>4, <2>5
  <2>7. /\ thread'[t].pc = "write" /\ thread'[t].total = thread[t].block
        /\ thread'[t].upload = thread[t].upload /\ thread'[t].for = thread[t].for
        /\ thread'[t].name = thread[t].name /\ thread'[t].size = thread[t].size
        /\ thread'[t].block = thread[t].block
    BY <1>2, <2>6 DEF BusyThreads
  <2>8. "write" \in Writing \cup Dropping
    BY DEF Writing, Appending
  <2>9. thread'[t] \in BusyThreads
    BY <1>2, <2>4, <2>6, <2>8 DEF BusyThreads
  <2>10. /\ \A s \in Threads : thread'[s].upload = thread[s].upload
         /\ \A s \in Threads : thread'[s].for = thread[s].for
         /\ \A s \in Threads : thread'[s].name = thread[s].name
         /\ \A s \in Threads : thread'[s].size = thread[s].size
         /\ \A s \in Threads : thread'[s].block = thread[s].block
    BY <2>6, <2>7
  <2>b. \A s \in Threads : /\ thread'[s].pc \in Writing <=> thread[s].pc \in Writing
                           /\ thread'[s].pc \in Creating <=> thread[s].pc \in Creating
                           /\ thread'[s].pc \in Appending <=> thread[s].pc \in Appending
                           /\ thread'[s].pc \in Finishing <=> thread[s].pc \in Finishing
                           /\ thread'[s].pc \in Dropping <=> thread[s].pc \in Dropping
    BY <1>1, <2>6, <2>7 DEF Writing, Creating, Appending, Finishing, Dropping
  <2>11. ControlTypes'
    <3>1. (WorkOK(thread[t]))'
      BY <1>1, <1>2, <2>3, <2>4, <2>7, <2>9, <2>b DEF WorkOK
    <3>2. \A s \in Threads : (thread[s] = IdleThread \/ WorkOK(thread[s]))'
      BY <1>1, <2>6, <3>1 DEF ControlInv, ControlTypes, WorkOK
    <3>3. \A b \in Browsers : (BrowserOK(browser[b]))'
      BY <1>1, <2>1 DEF ControlInv, ControlTypes, BrowserOK, BusyOK
    <3> QED BY <1>1, <2>1, <2>6, <3>2, <3>3 DEF ControlInv, ControlTypes
  <2>12. OwnersInv' /\ RequestsInv' /\ AloneInv' /\ AwaitedInv'
    BY <2>1, <2>10, <2>b, StagesStay
  <2> QED BY <2>1, <2>4, <2>6, <2>7, <2>11, <2>12 DEF ControlInv
<1> QED BY <1>3, <1>4

-----------------------------------------------------------------------------
(* Sequences of blocks, and who shares an upload with whom.                *)

LEMMA AllFacts ==
  ASSUME NEW n \in Nat
  PROVE  /\ All(0) = <<>>
         /\ All(n) \in Seq(Nat) /\ Len(All(n)) = n
         /\ Append(All(n), n + 1) = All(n + 1)
<1>1. \A m \in Nat : All(m) \in Seq(Nat) /\ Len(All(m)) = m /\ \A i \in 1 .. m : All(m)[i] = i
  BY DEF All
<1>2. All(0) = <<>>
  BY <1>1, EmptySeq
<1>3. Append(All(n), n + 1) = All(n + 1)
  <2>a. PICK s \in Seq(Nat) : s = All(n)
    BY <1>1
  <2>b. Len(s) = n /\ \A i \in 1 .. n : s[i] = i
    BY <1>1, <2>a
  <2>c. /\ Append(s, n + 1) \in Seq(Nat) /\ Len(Append(s, n + 1)) = n + 1
        /\ \A i \in 1 .. n : Append(s, n + 1)[i] = s[i]
        /\ Append(s, n + 1)[n + 1] = n + 1
    BY <2>b, AppendProperties
  <2>d. \A i \in 1 .. n + 1 : Append(s, n + 1)[i] = i
    <3> SUFFICES ASSUME NEW i \in 1 .. n + 1 PROVE Append(s, n + 1)[i] = i
      OBVIOUS
    <3>1. i \in 1 .. n \/ i = n + 1
      OBVIOUS
    <3> QED BY <2>b, <2>c, <3>1
  <2>1. /\ Append(All(n), n + 1) \in Seq(Nat) /\ Len(Append(All(n), n + 1)) = n + 1
        /\ \A i \in 1 .. n + 1 : Append(All(n), n + 1)[i] = i
    BY <2>a, <2>c, <2>d
  <2>2. All(n + 1) \in Seq(Nat) /\ Len(All(n + 1)) = n + 1 /\ \A i \in 1 .. n + 1 : All(n + 1)[i] = i
    BY <1>1
  <2> QED BY <2>1, <2>2, SeqEqual
<1> QED BY <1>1, <1>2, <1>3

\* A browser that has been answered shares its upload with no request that writes.
LEMMA AnsweredBrowsers ==
  ASSUME UploadsAssumption, ControlInv, NEW t \in Threads, thread[t].pc \in Writing,
         NEW b \in Browsers, browser[b].pc \in {"send", "done"}
  PROVE  browser[b].upload # thread[t].upload
BY NobodyWaits

LEMMA OthersStaged ==
  ASSUME ControlInv, StagedInv, NEW t \in Threads, thread[t].pc \in Writing,
         \A v \in Uploads : v # thread[t].upload => session'[v] = session[v] /\ staging'[v] = staging[v],
         UploadsAssumption, NEW s \in Threads, s # t, thread'[s] = thread[s]
  PROVE  (Staged(thread[s]))'
<1>1. CASE thread[s].pc \in Writing
  <2>1. thread[s].upload # thread[t].upload /\ thread[s].upload \in Uploads
    <3>1. thread[s].pc # "idle"
      BY <1>1 DEF Writing, Creating, Appending, Finishing
    <3> QED BY <1>1, <3>1, ThreadFacts DEF ControlInv, AloneInv
  <2> QED BY <2>1 DEF StagedInv, Staged
<1>2. CASE thread[s].pc \notin Writing
  BY <1>2 DEF Staged, Writing, Creating, Appending, Finishing
<1> QED BY <1>1, <1>2

-----------------------------------------------------------------------------
(* Steps that touch neither a session nor a file.                          *)

\* What thread t does then.
Quiet(t) ==
  \/ /\ thread'[t].pc = thread[t].pc /\ thread'[t].upload = thread[t].upload
     /\ thread'[t].name = thread[t].name /\ thread'[t].size = thread[t].size
     /\ thread'[t].block = thread[t].block
  \/ /\ thread'[t].pc \notin {"insert", "discard", "copy", "unlink", "row", "forget"}
     /\ thread'[t].pc = "create" => thread'[t].upload \in Uploads \ used
     /\ Staged(thread[t])'

LEMMA QuietSteps ==
  ASSUME UploadsAssumption, UploadsInv, ControlInv', used \subseteq used',
         UNCHANGED <<session, staging, media, clips, crossed>>,
         \A b \in Browsers : browser'[b] = browser[b] \/ browser'[b].pc \notin {"send", "done"},
         \A t \in Threads : Quiet(t)
  PROVE  UploadsInv'
<1> USE DEF UploadsInv
<1>1. SessionInv'
  <2>1. \A u \in Uploads : session'[u].there => u \in used'
    BY DEF SessionInv
  <2>2. ASSUME NEW t \in Threads, thread'[t].pc \in Creating \cup {"discard"}
        PROVE  ~session'[thread'[t].upload].there
    BY <2>2 DEF SessionInv, Quiet, Creating
  <2> QED BY <2>1, <2>2 DEF SessionInv
<1>2. FilesTypes' /\ CataloguedIsComplete' /\ StagingWithinCap'
  BY DEF FilesTypes, CataloguedIsComplete, StagingWithinCap
<1>3. SentInv'
  BY DEF SentInv
<1>4. StagedInv'
  <2> SUFFICES ASSUME NEW t \in Threads PROVE Staged(thread[t])'
    BY DEF StagedInv
  <2>1. CASE /\ thread'[t].pc = thread[t].pc /\ thread'[t].upload = thread[t].upload
             /\ thread'[t].name = thread[t].name /\ thread'[t].size = thread[t].size
             /\ thread'[t].block = thread[t].block
    <3>1. Staged(thread[t])
      BY DEF StagedInv
    <3> QED BY <2>1, <3>1 DEF Staged
  <2> QED BY <2>1 DEF Quiet
<1>5. PublishedInv'
  BY DEF PublishedInv, Published, Quiet
<1>6. RowInv'
  BY DEF RowInv, Quiet
<1>7. SuccessIsCatalogued'
  BY DEF SuccessIsCatalogued
<1> QED BY <1>1, <1>2, <1>3, <1>4, <1>5, <1>6, <1>7

LEMMA UnwaitedQuiet ==
  ASSUME NEW t, thread'[t].pc \in {"idle", "abort"}
  PROVE  Quiet(t)
BY DEF Quiet, Staged

LEMMA BrowseKeeps ==
  ASSUME UploadsAssumption, UploadsInv, NEW b \in Browsers, Browse(b)
  PROVE  UploadsInv'
<1> USE DEF UploadsInv
<1>1. CASE StartUpload(b)
  <2>1. PICK u \in Uploads \ used, n \in Names, size \in Sizes :
          /\ Ask(b, [IdleBrowser EXCEPT !.pc = "begin", !.upload = u, !.name = n, !.size = size],
                 "create")
          /\ used' = used \cup {u}
    BY <1>1 DEF StartUpload
  <2>2. PICK own : own = [IdleBrowser EXCEPT !.pc = "begin", !.upload = u, !.name = n, !.size = size]
    OBVIOUS
  <2>3. own \in BusyBrowsers /\ own.pc = "begin" /\ own.upload = u
    BY <2>2 DEF IdleBrowser, BusyBrowsers, BrowserPcs
  <2>4. PICK t \in Threads : Asked(b, own, "create", t)
    <3>1. "create" \in Writing \cup Dropping
      BY DEF Writing, Creating
    <3> QED BY <2>1, <2>2, <2>3, <3>1, AskFields DEF ControlInv
  <2>5. \A c \in Browsers : browser'[c] = browser[c] \/ browser'[c].pc \notin {"send", "done"}
    BY <2>3, <2>4 DEF Asked
  <2>6. \A s \in Threads : Quiet(s)
    <3>1. Quiet(t)
      BY <2>1, <2>3, <2>4 DEF Asked, Quiet, Staged
    <3>2. \A s \in Threads : s # t => Quiet(s)
      BY <2>4 DEF Asked, Quiet
    <3> QED BY <3>1, <3>2
  <2>7. ControlInv'
    BY <1>1, StartControl
  <2>8. used \subseteq used' /\ UNCHANGED <<session, staging, media, clips, crossed>>
    BY <1>1, <2>1 DEF StartUpload
  <2> QED BY <2>5, <2>6, <2>7, <2>8, QuietSteps
<1>2. CASE SendNext(b) \/ SendAbort(b)
  <2>1. /\ browser[b].pc \in {"send", "abort"} /\ used' = used
        /\ UNCHANGED <<session, staging, media, clips, crossed>>
    BY <1>2 DEF SendNext, SendAbort
  <2>2. browser[b] \in BusyBrowsers /\ browser[b].upload \in Uploads /\ browser[b].sent \in Nat
    BY <2>1, BrowserFacts DEF ControlInv, BusyBrowsers
  <2>3. PICK pc \in BrowserPcs, ask \in Writing \cup Dropping :
          /\ Ask(b, [browser[b] EXCEPT !.pc = pc], ask)
          /\ \/ /\ pc = "finish" /\ ask = "finish"
                /\ browser[b].sent = browser[b].size /\ browser[b].pc = "send"
             \/ /\ pc = "chunk" /\ ask = "append"
                /\ browser[b].sent # browser[b].size /\ browser[b].pc = "send"
             \/ pc = "aborting" /\ ask = "abort" /\ browser[b].pc = "abort"
    BY <1>2 DEF SendNext, SendAbort, BrowserPcs, Writing, Appending, Finishing, Dropping
  <2>4. PICK own : own = [browser[b] EXCEPT !.pc = pc]
    OBVIOUS
  <2>5. /\ own \in BusyBrowsers /\ own.pc = pc /\ own.upload = browser[b].upload
        /\ own.sent = browser[b].sent /\ own.size = browser[b].size
    BY <2>2, <2>4 DEF BusyBrowsers
  <2>6. PICK t \in Threads : Asked(b, own, ask, t)
    BY <2>3, <2>4, <2>5, AskFields DEF ControlInv
  <2>7. \A c \in Browsers : browser'[c] = browser[c] \/ browser'[c].pc \notin {"send", "done"}
    BY <2>3, <2>5, <2>6 DEF Asked
  <2>8. \A s \in Threads : Quiet(s)
    <3>1. CASE ask = "abort"
      BY <2>6, <3>1, UnwaitedQuiet DEF Asked, Quiet
    <3>2. CASE ask # "abort"
      <4>1. session[browser[b].upload].there =>
              /\ staging[browser[b].upload].blocks = All(browser[b].sent)
              /\ session[browser[b].upload].received = browser[b].sent
        BY <2>3, <3>2 DEF SentInv
      <4>2. /\ ask \in {"append", "finish"}
            /\ thread'[t].pc = ask /\ thread'[t].upload = browser[b].upload
            /\ thread'[t].size = browser[b].size /\ thread'[t].block = browser[b].sent + 1
            /\ ask = "finish" => browser[b].sent = browser[b].size
        BY <2>3, <2>5, <2>6, <3>2 DEF Asked
      <4>3. thread'[t].block - 1 = browser[b].sent
        BY <2>2, <4>2
      <4>4. Staged(thread[t])'
        BY <2>1, <4>1, <4>2, <4>3 DEF Staged
      <4>5. Quiet(t)
        BY <4>2, <4>4 DEF Quiet
      <4> QED BY <2>6, <4>5 DEF Asked, Quiet
    <3> QED BY <3>1, <3>2
  <2>9. ControlInv'
    BY <1>2, SendControl
  <2> QED BY <2>1, <2>7, <2>8, <2>9, QuietSteps
<1>3. CASE Leave(b)
  <2>1. /\ thread' = thread /\ used' = used /\ UNCHANGED <<session, staging, media, clips, crossed>>
        /\ browser' = [browser EXCEPT ![b] = IdleBrowser]
    BY <1>3 DEF Leave
  <2>2. \A c \in Browsers : browser'[c] = browser[c] \/ browser'[c].pc \notin {"send", "done"}
    BY <2>1 DEF ControlInv, ControlTypes, IdleBrowser
  <2>3. \A s \in Threads : Quiet(s)
    BY <2>1 DEF Quiet
  <2> QED BY <1>3, <2>1, <2>2, <2>3, LeaveControl, QuietSteps
<1>4. CASE LoseConnection(b)
  <2>1. PICK t \in Threads :
          /\ thread[t].for = b
          /\ thread' = [thread EXCEPT ![t].for = Nobody]
          /\ browser' = [browser EXCEPT ![b] = Failed(@)]
    BY <1>4 DEF LoseConnection
  <2>2. used' = used /\ UNCHANGED <<session, staging, media, clips, crossed>>
    BY <1>4 DEF LoseConnection
  <2>3. thread[t] \in BusyThreads /\ DOMAIN thread = Threads
    BY <2>1, ThreadFacts DEF WorkOK, ControlInv, ControlTypes, UploadsAssumption
  <2>4. \A s \in Threads : Quiet(s)
    <3>1. /\ thread'[t] = [thread[t] EXCEPT !.for = Nobody]
          /\ \A s \in Threads : s # t => thread'[s] = thread[s]
      BY <2>1, <2>3
    <3> QED BY <2>3, <3>1 DEF Quiet, BusyThreads
  <2>5. \A c \in Browsers : browser'[c] = browser[c] \/ browser'[c].pc \notin {"send", "done"}
    <3>1. browser[b] \in BusyBrowsers \/ browser[b] = IdleBrowser
      BY BrowserFacts DEF ControlInv
    <3>2. Failed(browser[b]).pc \notin {"send", "done"}
      BY <3>1, FailureFields DEF IdleBrowser, Failed
    <3> QED BY <2>1, <3>2 DEF ControlInv, ControlTypes
  <2> QED BY <1>4, <2>2, <2>4, <2>5, LoseControl, QuietSteps
<1> QED BY <1>1, <1>2, <1>3, <1>4 DEF Browse

LEMMA FailedBrowsers ==
  ASSUME UploadsAssumption, ControlInv, NEW b \in Browsers
  PROVE  Failed(browser[b]).pc \notin {"send", "done"}
<1>1. browser[b] \in BusyBrowsers \/ browser[b] = IdleBrowser
  BY BrowserFacts DEF ControlInv
<1> QED BY <1>1, FailureFields DEF IdleBrowser, Failed

\* A refusal, when the step does nothing else.
LEMMA RefusalKeeps ==
  ASSUME UploadsAssumption, UploadsInv, NEW t \in Threads, thread[t].pc # "idle", Refuse(t),
         UNCHANGED <<session, staging, media, clips, used, crossed>>
  PROVE  UploadsInv'
<1> USE DEF UploadsInv
<1>1. ControlInv'
  BY ReplyControl DEF Refuse
<1>2. /\ \A s \in Threads : s # t => thread'[s] = thread[s]
      /\ thread'[t] = IdleThread
      /\ \A b \in Browsers : b # thread[t].for => browser'[b] = browser[b]
      /\ \A b \in Browsers : b = thread[t].for => browser'[b] = Failed(browser[b])
  BY ReplyFields DEF Refuse
<1>3. \A s \in Threads : Quiet(s)
  BY <1>2, UnwaitedQuiet DEF Quiet, IdleThread
<1>4. \A b \in Browsers : browser'[b] = browser[b] \/ browser'[b].pc \notin {"send", "done"}
  BY <1>2, FailedBrowsers
<1> QED BY <1>1, <1>3, <1>4, QuietSteps

LEMMA RestKeeps ==
  ASSUME UploadsAssumption, UploadsInv, Cleanup \/ Crash
  PROVE  UploadsInv'
<1> USE DEF UploadsInv
<1>1. CASE Cleanup
  <2>1. used' = used /\ browser' = browser
    BY <1>1, CleanupFields
  <2>2. \A s \in Threads : Quiet(s)
    BY <1>1, CleanupFields, UnwaitedQuiet DEF Quiet
  <2>3. UNCHANGED <<session, staging, media, clips, crossed>>
    BY <1>1 DEF Cleanup
  <2> QED BY <1>1, <2>1, <2>2, <2>3, CleanupControl, QuietSteps
<1>2. CASE Crash
  <2>1. used' = used /\ UNCHANGED <<session, staging, media, clips, crossed>>
    BY <1>2 DEF Crash
  <2>2. \A s \in Threads : Quiet(s)
    BY <1>2, UnwaitedQuiet DEF Crash, IdleThread
  <2>3. \A b \in Browsers : browser'[b] = browser[b] \/ browser'[b].pc \notin {"send", "done"}
    BY <1>2, FailedBrowsers DEF Crash
  <2> QED BY <1>2, <2>1, <2>2, <2>3, CrashControl, QuietSteps
<1> QED BY <1>1, <1>2

\* The steps of handlers that only look.
LEMMA LookingKeeps ==
  ASSUME UploadsAssumption, UploadsInv, NEW t \in Threads,
         AppendChunk(t) \/ Finish(t) \/ CopyFails(t)
  PROVE  UploadsInv'
<1> USE DEF UploadsInv
<1>1. CASE AppendChunk(t)
  <2>1. /\ used' = used /\ UNCHANGED <<session, staging, media, clips, crossed>>
        /\ thread[t].pc = "append"
    BY <1>1 DEF AppendChunk
  <2>2. CASE Refuse(t)
    BY <2>1, <2>2, RefusalKeeps
  <2>3. CASE ~Refuse(t)
    <3>1. /\ ControlInv' /\ browser' = browser
          /\ \A s \in Threads : s # t => thread'[s] = thread[s]
          /\ session[thread[t].upload].there /\ thread[t].block <= Cap
          /\ thread'[t].pc = "write" /\ thread'[t].upload = thread[t].upload
          /\ thread'[t].block = thread[t].block
      BY <1>1, <2>3, AppendControl
    <3>2. /\ staging[thread[t].upload].blocks = All(thread[t].block - 1)
          /\ session[thread[t].upload].received = thread[t].block - 1
      BY <2>1, <3>1 DEF StagedInv, Staged
    <3>3. thread[t].block \in Nat \ {0}
      <4>1. WorkOK(thread[t])
        BY <2>1, ThreadFacts DEF ControlInv
      <4>2. thread[t].block \in 1 .. thread[t].size /\ thread[t].size \in Nat
        BY <2>1, <4>1 DEF WorkOK, Appending, Writing, UploadsAssumption
      <4> QED BY <4>2
    <3>4. Len(staging[thread[t].upload].blocks) < Cap
      <4>1. thread[t].block - 1 \in Nat
        BY <3>3
      <4>2. Len(All(thread[t].block - 1)) = thread[t].block - 1
        BY <4>1, AllFacts
      <4> QED BY <3>1, <3>2, <3>3, <4>2 DEF UploadsAssumption
    <3>5. Staged(thread[t])'
      BY <2>1, <3>1, <3>2, <3>4 DEF Staged
    <3>6. \A s \in Threads : Quiet(s)
      BY <3>1, <3>5 DEF Quiet
    <3> QED BY <2>1, <3>1, <3>6, QuietSteps
  <2> QED BY <2>2, <2>3
<1>2. CASE Finish(t)
  <2>1. /\ used' = used /\ UNCHANGED <<session, staging, media, clips, crossed>>
        /\ thread[t].pc = "finish"
    BY <1>2 DEF Finish
  <2>2. CASE Refuse(t)
    BY <2>1, <2>2, RefusalKeeps
  <2>3. CASE ~Refuse(t)
    <3>1. session[thread[t].upload].there /\ Go(t, "open")
      BY <1>2, <2>3 DEF Finish
    <3>2. ControlInv'
      BY <2>1, <3>1, GoControl DEF Stays, Finishing
    <3>3. /\ browser' = browser
          /\ \A s \in Threads : s # t => thread'[s] = thread[s]
          /\ \A s \in Threads : thread'[s].upload = thread[s].upload
          /\ \A s \in Threads : thread'[s].size = thread[s].size
          /\ thread'[t].pc = "open"
      BY <2>1, <3>1, GoFields DEF ControlInv
    <3>4. staging[thread[t].upload].blocks = All(thread[t].size)
      BY <2>1, <3>1 DEF StagedInv, Staged
    <3>5. Staged(thread[t])'
      BY <2>1, <3>3, <3>4 DEF Staged
    <3>6. \A s \in Threads : Quiet(s)
      BY <3>3, <3>5 DEF Quiet
    <3> QED BY <2>1, <3>2, <3>3, <3>6, QuietSteps
  <2> QED BY <2>2, <2>3
<1>3. CASE CopyFails(t)
  BY <1>3, RefusalKeeps DEF CopyFails
<1> QED BY <1>1, <1>2, <1>3

-----------------------------------------------------------------------------
(* Steps of requests that write: creation and chunks.                      *)

\* A step of thread t that leaves the sessions and staging files of other uploads
\* alone.
StepsAside(t) ==
  /\ used' = used /\ clips \subseteq clips'
  /\ \A s \in Threads : s # t => thread'[s] = thread[s]
  /\ \A b \in Browsers : thread[t].for # b => browser'[b] = browser[b]
  /\ \A v \in Uploads : v # thread[t].upload => session'[v] = session[v] /\ staging'[v] = staging[v]

\* Browsers that wait for another answer, or for none, are not concerned.
LEMMA OthersSent ==
  ASSUME UploadsAssumption, UploadsInv, NEW t \in Threads, thread[t].pc \in Writing, StepsAside(t),
         NEW b \in Browsers, browser'[b] = browser[b]
  PROVE  /\ browser'[b].pc = "send" /\ session'[browser'[b].upload].there =>
              /\ staging'[browser'[b].upload].blocks = All(browser'[b].sent)
              /\ session'[browser'[b].upload].received = browser'[b].sent
         /\ browser'[b].pc = "done" =>
              /\ \E row \in clips' : row.upload = browser'[b].upload
              /\ ~session'[browser'[b].upload].there /\ ~staging'[browser'[b].upload].there
<1>1. browser[b].pc \in {"send", "done"} =>
        browser[b].upload # thread[t].upload /\ browser[b].upload \in Uploads
  BY AnsweredBrowsers, BrowserFacts DEF UploadsInv, ControlInv
<1>2. browser[b].pc \in {"send", "done"} =>
        /\ session'[browser[b].upload] = session[browser[b].upload]
        /\ staging'[browser[b].upload] = staging[browser[b].upload]
  BY <1>1 DEF StepsAside
<1>3. CASE browser[b].pc = "send"
  BY <1>2, <1>3 DEF UploadsInv, SentInv
<1>4. CASE browser[b].pc = "done"
  BY <1>2, <1>4 DEF UploadsInv, SuccessIsCatalogued, StepsAside
<1>5. CASE browser[b].pc \notin {"send", "done"}
  BY <1>5
<1> QED BY <1>3, <1>4, <1>5

LEMMA WorkTypes ==
  ASSUME UploadsAssumption, UploadsInv, NEW t \in Threads, thread[t].pc \in Writing
  PROVE  /\ thread[t].pc # "idle" /\ WorkOK(thread[t])
         /\ thread[t].upload \in Uploads /\ thread[t].upload \in used
         /\ thread[t].name \in Names /\ thread[t].size \in Sizes /\ thread[t].size \in Nat
         /\ thread[t].pc \in Appending =>
              thread[t].block \in 1 .. thread[t].size /\ thread[t].block \in Blocks
         /\ thread[t].pc \in {"write", "update"} =>
              thread[t].total = thread[t].block /\ thread[t].total <= Cap
<1>1. thread[t].pc # "idle"
  BY DEF Writing, Creating, Appending, Finishing
<1>2. WorkOK(thread[t]) /\ thread[t].upload \in Uploads /\ thread[t].upload \in used
  BY <1>1, ThreadFacts DEF UploadsInv, ControlInv
<1>3. thread[t].name \in Names /\ thread[t].size \in Sizes
  BY <1>2 DEF WorkOK
<1>4. thread[t].pc \in Appending => thread[t].block \in 1 .. thread[t].size
  BY <1>2 DEF WorkOK
<1>5. thread[t].pc \in Appending => thread[t].block \in Blocks
  BY <1>3, <1>4 DEF Blocks
<1> QED BY <1>1, <1>2, <1>3, <1>4, <1>5 DEF WorkOK, UploadsAssumption

\* What has to be seen of such a step, for sessions and staging files ...
StepsWell(t) ==
  /\ StepsAside(t)
  /\ Staged(thread[t])'
  /\ session'[thread[t].upload].there =>
       session[thread[t].upload].there \/ thread[t].pc = "insert"
  /\ thread'[t].pc # "discard"
  /\ thread'[t].pc \in Creating =>
       ~session'[thread[t].upload].there /\ thread'[t].upload = thread[t].upload
  /\ thread'[t].pc = "forget" => \E row \in clips' : row.upload = thread'[t].upload
  /\ \A b \in Browsers : thread[t].for = b =>
       /\ browser'[b].pc = "send" /\ session'[browser'[b].upload].there =>
            /\ staging'[browser'[b].upload].blocks = All(browser'[b].sent)
            /\ session'[browser'[b].upload].received = browser'[b].sent
       /\ browser'[b].pc = "done" =>
            /\ \E row \in clips' : row.upload = browser'[b].upload
            /\ ~session'[browser'[b].upload].there /\ ~staging'[browser'[b].upload].there

LEMMA StepKeeps ==
  ASSUME UploadsAssumption, UploadsInv, NEW t \in Threads, thread[t].pc \in Writing, StepsWell(t)
  PROVE  SessionInv' /\ SentInv' /\ StagedInv' /\ RowInv' /\ SuccessIsCatalogued'
<1> USE DEF UploadsInv
<1>0. /\ StepsAside(t) /\ Staged(thread[t])'
      /\ session'[thread[t].upload].there =>
           session[thread[t].upload].there \/ thread[t].pc = "insert"
      /\ thread'[t].pc # "discard"
      /\ thread'[t].pc \in Creating =>
           ~session'[thread[t].upload].there /\ thread'[t].upload = thread[t].upload
  BY DEF StepsWell
<1>1. \A c \in Browsers :
        /\ browser'[c].pc = "send" /\ session'[browser'[c].upload].there =>
             /\ staging'[browser'[c].upload].blocks = All(browser'[c].sent)
             /\ session'[browser'[c].upload].received = browser'[c].sent
        /\ browser'[c].pc = "done" =>
             /\ \E row \in clips' : row.upload = browser'[c].upload
             /\ ~session'[browser'[c].upload].there /\ ~staging'[browser'[c].upload].there
  <2> SUFFICES ASSUME NEW c \in Browsers
               PROVE  /\ browser'[c].pc = "send" /\ session'[browser'[c].upload].there =>
                           /\ staging'[browser'[c].upload].blocks = All(browser'[c].sent)
                           /\ session'[browser'[c].upload].received = browser'[c].sent
                      /\ browser'[c].pc = "done" =>
                           /\ \E row \in clips' : row.upload = browser'[c].upload
                           /\ ~session'[browser'[c].upload].there
                           /\ ~staging'[browser'[c].upload].there
    OBVIOUS
  <2>1. CASE thread[t].for = c
    BY <2>1 DEF StepsWell
  <2>2. CASE thread[t].for # c
    <3>1. browser'[c] = browser[c]
      BY <1>0, <2>2 DEF StepsAside
    <3> QED BY <1>0, <3>1, OthersSent
  <2> QED BY <2>1, <2>2
<1>2. SentInv' /\ SuccessIsCatalogued'
  BY <1>1 DEF SentInv, SuccessIsCatalogued
<1>3. StagedInv'
  <2>1. \A s \in Threads : s # t => (Staged(thread[s]))'
    BY <1>0, OthersStaged DEF StepsAside
  <2> QED BY <1>0, <2>1 DEF StagedInv
<1>4. SessionInv'
  <2>1. thread[t].upload \in used
    BY WorkTypes
  <2>2. \A u \in Uploads : session'[u].there => u \in used'
    BY <1>0, <2>1 DEF SessionInv, StepsAside
  <2>3. ASSUME NEW s \in Threads, thread'[s].pc \in Creating \cup {"discard"}
        PROVE  ~session'[thread'[s].upload].there
    <3>1. CASE s = t
      BY <1>0, <2>3, <3>1
    <3>2. CASE s # t
      <4>1. thread'[s] = thread[s]
        BY <1>0, <3>2 DEF StepsAside
      <4>2. ~session[thread[s].upload].there /\ thread[s].upload \in Uploads
        <5>1. thread[s].pc # "idle"
          BY <2>3, <4>1 DEF Creating
        <5> QED BY <2>3, <4>1, <5>1, ThreadFacts DEF SessionInv, ControlInv
      <4>3. CASE thread[s].upload # thread[t].upload
        BY <1>0, <4>1, <4>2, <4>3 DEF StepsAside
      <4>4. CASE thread[s].upload = thread[t].upload
        <5>1. thread[t].pc # "insert"
          BY <3>2, <4>4 DEF ControlInv, AloneInv, Creating
        <5> QED BY <1>0, <4>1, <4>2, <4>4, <5>1
      <4> QED BY <4>3, <4>4
    <3> QED BY <3>1, <3>2
  <2> QED BY <2>2, <2>3 DEF SessionInv
<1>5. RowInv'
  <2> SUFFICES ASSUME NEW s \in Threads, thread'[s].pc = "forget"
               PROVE  \E row \in clips' : row.upload = thread'[s].upload
    BY DEF RowInv
  <2>1. CASE s = t
    BY <2>1 DEF StepsWell
  <2>2. CASE s # t
    BY <1>0, <2>2 DEF RowInv, StepsAside
  <2> QED BY <2>1, <2>2
<1> QED BY <1>2, <1>3, <1>4, <1>5

\* ... and, if it leaves the media and the catalog alone, for these.
LEMMA AsideKeeps ==
  ASSUME UploadsAssumption, UploadsInv, NEW t \in Threads, thread[t].pc \in Writing, StepsWell(t),
         UNCHANGED <<media, clips, crossed>>, ControlInv', FilesTypes', StagingWithinCap',
         thread'[t].pc # "copy",
         thread'[t].pc \in {"unlink", "row", "forget"} =>
           /\ thread[t].pc \in {"unlink", "row", "forget"}
           /\ thread'[t].name = thread[t].name /\ thread'[t].size = thread[t].size
  PROVE  UploadsInv'
<1> USE DEF UploadsInv
<1>1. StepsAside(t)
  BY DEF StepsWell
<1>2. SessionInv' /\ SentInv' /\ StagedInv' /\ RowInv' /\ SuccessIsCatalogued'
  BY StepKeeps
<1>3. PublishedInv'
  <2> SUFFICES ASSUME NEW s \in Threads, thread'[s].name \notin crossed'
               PROVE  Published(thread[s])'
    BY DEF PublishedInv
  <2>1. CASE s # t
    <3>1. thread'[s] = thread[s]
      BY <1>1, <2>1 DEF StepsAside
    <3>2. Published(thread[s])
      BY <3>1 DEF PublishedInv
    <3> QED BY <3>1, <3>2 DEF Published
  <2>2. CASE s = t
    <3>1. thread'[t].pc \in {"unlink", "row", "forget"} => Published(thread[t])
      BY <2>2 DEF PublishedInv
    <3> QED BY <2>2, <3>1 DEF Published
  <2> QED BY <2>1, <2>2
<1>4. CataloguedIsComplete'
  BY DEF CataloguedIsComplete
<1> QED BY <1>2, <1>3, <1>4

LEMMA CreateKeeps ==
  ASSUME UploadsAssumption, UploadsInv, NEW t \in Threads, Create(t)
  PROVE  UploadsInv'
<1> USE DEF UploadsInv
<1>1. /\ thread[t].pc = "create" /\ Go(t, "insert")
      /\ staging' = [staging EXCEPT ![thread[t].upload] = File(<<>>, TRUE)]
      /\ UNCHANGED <<session, media, clips, used, crossed>>
  BY DEF Create
<1>2. thread[t].pc \in Writing /\ thread[t].pc \in Creating /\ "insert" \in Creating
  BY <1>1 DEF Writing, Creating
<1>3. thread[t].pc # "idle" /\ thread[t].upload \in Uploads
  BY <1>2, WorkTypes
<1>4. /\ browser' = browser
      /\ \A s \in Threads : s # t => thread'[s] = thread[s]
      /\ thread'[t].upload = thread[t].upload /\ thread'[t].pc = "insert"
  BY <1>1, <1>3, GoFields DEF ControlInv
<1>5. ControlInv'
  BY <1>1, <1>2, GoControl DEF Stays
<1>6. /\ staging'[thread[t].upload] = File(<<>>, TRUE)
      /\ \A v \in Uploads : v # thread[t].upload => staging'[v] = staging[v]
  BY <1>1, <1>3 DEF FilesTypes
<1>7. StepsAside(t)
  BY <1>1, <1>4, <1>6 DEF StepsAside
<1>8. File(<<>>, TRUE) \in [there: BOOLEAN, whole: BOOLEAN, blocks: Seq(Blocks)]
      /\ File(<<>>, TRUE).blocks = <<>>
  BY DEF File
<1>9. FilesTypes'
  BY <1>1, <1>3, <1>8 DEF FilesTypes
<1>10. StagingWithinCap'
  <2>1. <<>> \in Seq(Blocks) /\ Len(<<>>) <= Cap
    BY EmptySeq DEF UploadsAssumption
  <2>2. \A u \in Uploads : staging'[u].blocks \in Seq(Blocks) /\ Len(staging'[u].blocks) <= Cap
    BY <1>6, <1>8, <2>1 DEF StagingWithinCap
  <2> QED BY <1>1, <2>2 DEF StagingWithinCap
<1>11. Staged(thread[t])'
  BY <1>4, <1>6, <1>8 DEF Staged
<1>12. ~session[thread[t].upload].there
  BY <1>2 DEF SessionInv
<1>13. \A b \in Browsers : thread[t].for = b => browser'[b].pc \notin {"send", "done"}
  BY <1>4, NobodyWaits
<1> QED BY <1>1, <1>2, <1>4, <1>5, <1>7, <1>9, <1>10, <1>11, <1>12, <1>13, AsideKeeps DEF StepsWell

LEMMA InsertKeeps ==
  ASSUME UploadsAssumption, UploadsInv, NEW t \in Threads, Insert(t)
  PROVE  UploadsInv'
<1> USE DEF UploadsInv
<1> DEFINE u == thread[t].upload
           new == [there |-> TRUE, name |-> thread[t].name, size |-> thread[t].size, received |-> 0]
<1>1. /\ thread[t].pc = "insert" /\ Accept(t)
      /\ session' = [session EXCEPT ![u] = new]
      /\ UNCHANGED <<staging, media, clips, used, crossed>>
  BY DEF Insert
<1>2. thread[t].pc \in Writing
  BY <1>1 DEF Writing, Creating
<1>3. /\ thread[t].pc # "idle" /\ u \in Uploads
      /\ thread[t].name \in Names /\ thread[t].size \in Sizes
  BY <1>2, WorkTypes
<1>4. /\ \A s \in Threads : s # t => thread'[s] = thread[s]
      /\ thread'[t].pc = "idle"
      /\ \A b \in Browsers : b # thread[t].for => browser'[b] = browser[b]
      /\ \A b \in Browsers : b = thread[t].for =>
           Serves(thread[t], browser[b]) /\ browser'[b] = Answered(browser[b])
  BY <1>1, <1>3, AcceptFields
<1>5. ControlInv'
  BY <1>1, <1>3, ReplyControl DEF Accept
<1>6. new \in [there: BOOLEAN, name: Names \cup {"none"}, size: Sizes \cup {0}, received: 0 .. Cap]
      /\ new.received = 0
  BY <1>3 DEF UploadsAssumption
<1>7. /\ session'[u] = new
      /\ \A v \in Uploads : v # u => session'[v] = session[v]
      /\ session' \in [Uploads -> [there: BOOLEAN, name: Names \cup {"none"},
                                   size: Sizes \cup {0}, received: 0 .. Cap]]
  BY <1>1, <1>3, <1>6 DEF StagingWithinCap
<1> HIDE DEF new
<1>8. StepsAside(t)
  BY <1>1, <1>4, <1>7 DEF StepsAside
<1>9. FilesTypes' /\ StagingWithinCap'
  BY <1>1, <1>7 DEF FilesTypes, StagingWithinCap
<1>10. Staged(thread[t])'
  BY <1>4 DEF Staged
<1>11. ASSUME NEW b \in Browsers, thread[t].for = b
       PROVE  /\ browser'[b].pc # "done"
              /\ staging'[browser'[b].upload].blocks = All(browser'[b].sent)
              /\ session'[browser'[b].upload].received = browser'[b].sent
  <2>1. browser[b].pc = "begin" /\ browser[b].upload = u
    BY <1>1, <1>4, <1>11 DEF Serves, Appending, Finishing, Dropping
  <2>2. BrowserOK(browser[b]) /\ browser[b] \in BusyBrowsers
    BY <2>1, BrowserFacts DEF ControlInv, ControlTypes
  <2>3. /\ browser'[b].pc = "send" /\ browser'[b].upload = u
        /\ browser'[b].sent = browser[b].sent
    BY <1>4, <1>11, <2>1, <2>2, AnswerFields
  <2>4. staging[u].blocks = <<>>
    BY <1>1 DEF StagedInv, Staged
  <2>5. browser[b].sent = 0
    BY <2>1, <2>2 DEF BrowserOK, BusyOK, IdleBrowser
  <2>6. All(0) = <<>>
    BY AllFacts
  <2> QED BY <1>1, <1>6, <1>7, <2>3, <2>4, <2>5, <2>6
<1> QED BY <1>1, <1>2, <1>4, <1>5, <1>7, <1>8, <1>9, <1>10, <1>11, AsideKeeps DEF Creating, StepsWell

LEMMA WriteKeeps ==
  ASSUME UploadsAssumption, UploadsInv, NEW t \in Threads, Write(t)
  PROVE  UploadsInv'
<1> USE DEF UploadsInv
<1> DEFINE u == thread[t].upload
           more == Append(staging[u].blocks, thread[t].block)
<1>1. /\ thread[t].pc = "write" /\ Go(t, "update")
      /\ staging' = [staging EXCEPT ![u] = File(more, TRUE)]
      /\ UNCHANGED <<session, media, clips, used, crossed>>
  BY DEF Write
<1>2. thread[t].pc \in Writing /\ thread[t].pc \in Appending
  BY <1>1 DEF Writing, Appending
<1>3. /\ thread[t].pc # "idle" /\ u \in Uploads /\ thread[t].size \in Nat
      /\ thread[t].block \in 1 .. thread[t].size /\ thread[t].block \in Blocks
  BY <1>2, WorkTypes
<1>4. /\ browser' = browser
      /\ \A s \in Threads : s # t => thread'[s] = thread[s]
      /\ thread'[t].upload = thread[t].upload /\ thread'[t].pc = "update"
      /\ thread'[t].block = thread[t].block
  BY <1>1, <1>3, GoFields DEF ControlInv
<1>5. ControlInv'
  BY <1>1, GoControl DEF Stays
<1>6. /\ staging[u].blocks \in Seq(Blocks) /\ Len(staging[u].blocks) < Cap
      /\ session[u].there => staging[u].blocks = All(thread[t].block - 1)
  BY <1>1, <1>3 DEF FilesTypes, StagedInv, Staged
<1>7. more \in Seq(Blocks) /\ Len(more) = Len(staging[u].blocks) + 1 /\ Len(more) <= Cap
  <2>1. more \in Seq(Blocks) /\ Len(more) = Len(staging[u].blocks) + 1
    BY <1>3, <1>6, AppendProperties
  <2>2. Len(staging[u].blocks) \in Nat
    BY <1>6, LenProperties
  <2> QED BY <1>6, <2>1, <2>2 DEF UploadsAssumption
<1>8. session[u].there => more = All(thread[t].block)
  <2>1. thread[t].block - 1 \in Nat /\ (thread[t].block - 1) + 1 = thread[t].block
    BY <1>3
  <2>2. Append(All(thread[t].block - 1), (thread[t].block - 1) + 1) = All((thread[t].block - 1) + 1)
    BY <2>1, AllFacts
  <2> QED BY <1>6, <2>1, <2>2
<1> HIDE DEF more
<1>9. /\ staging'[u] = File(more, TRUE)
      /\ \A v \in Uploads : v # u => staging'[v] = staging[v]
  BY <1>1, <1>3 DEF FilesTypes
<1>10. /\ File(more, TRUE) \in [there: BOOLEAN, whole: BOOLEAN, blocks: Seq(Blocks)]
       /\ File(more, TRUE).blocks = more
  BY <1>7 DEF File
<1>11. StepsAside(t)
  BY <1>1, <1>4, <1>9 DEF StepsAside
<1>12. FilesTypes'
  BY <1>1, <1>3, <1>10 DEF FilesTypes
<1>13. StagingWithinCap'
  <2>1. \A v \in Uploads : staging'[v].blocks \in Seq(Blocks) /\ Len(staging'[v].blocks) <= Cap
    BY <1>7, <1>9, <1>10 DEF StagingWithinCap
  <2> QED BY <1>1, <2>1 DEF StagingWithinCap
<1>14. Staged(thread[t])'
  BY <1>1, <1>4, <1>8, <1>9, <1>10 DEF Staged
<1>15. \A b \in Browsers : thread[t].for = b => browser'[b].pc \notin {"send", "done"}
  BY <1>4, NobodyWaits
<1> QED BY <1>1, <1>2, <1>4, <1>5, <1>11, <1>12, <1>13, <1>14, <1>15, AsideKeeps DEF Creating, StepsWell

LEMMA UpdateKeeps ==
  ASSUME UploadsAssumption, UploadsInv, NEW t \in Threads, Update(t)
  PROVE  UploadsInv'
<1> USE DEF UploadsInv
<1> DEFINE u == thread[t].upload
<1>1. /\ thread[t].pc = "update" /\ Accept(t)
      /\ session' = IF session[u].there THEN [session EXCEPT ![u].received = thread[t].total]
                    ELSE session
      /\ UNCHANGED <<staging, media, clips, used, crossed>>
  BY DEF Update
<1>2. thread[t].pc \in Writing /\ thread[t].pc \in Appending
  BY <1>1 DEF Writing, Appending
<1>3. /\ thread[t].pc # "idle" /\ u \in Uploads /\ thread[t].size \in Nat
      /\ thread[t].block \in 1 .. thread[t].size
      /\ thread[t].total = thread[t].block /\ thread[t].total \in 0 .. Cap
  <2>1. /\ thread[t].pc # "idle" /\ u \in Uploads /\ thread[t].size \in Nat
        /\ thread[t].block \in 1 .. thread[t].size
        /\ thread[t].total = thread[t].block /\ thread[t].total <= Cap
    BY <1>1, <1>2, WorkTypes
  <2> QED BY <2>1 DEF UploadsAssumption
<1>4. /\ \A s \in Threads : s # t => thread'[s] = thread[s]
      /\ thread'[t].pc = "idle"
      /\ \A b \in Browsers : b # thread[t].for => browser'[b] = browser[b]
      /\ \A b \in Browsers : b = thread[t].for =>
           Serves(thread[t], browser[b]) /\ browser'[b] = Answered(browser[b])
  BY <1>1, <1>3, AcceptFields
<1>5. ControlInv'
  BY <1>1, <1>3, ReplyControl DEF Accept
<1>6. /\ session'[u].there = session[u].there
      /\ session[u].there => session'[u].received = thread[t].total
      /\ \A v \in Uploads : v # u => session'[v] = session[v]
      /\ session' \in [Uploads -> [there: BOOLEAN, name: Names \cup {"none"},
                                   size: Sizes \cup {0}, received: 0 .. Cap]]
  <2> DEFINE Rows == [there: BOOLEAN, name: Names \cup {"none"}, size: Sizes \cup {0},
                      received: 0 .. Cap]
             new == [session[u] EXCEPT !.received = thread[t].total]
  <2>1. session \in [Uploads -> Rows]
    BY DEF StagingWithinCap
  <2>2. new \in Rows /\ new.there = session[u].there /\ new.received = thread[t].total
    BY <1>3, <2>1
  <2>3. session[u].there => session' = [session EXCEPT ![u] = new]
    BY <1>1
  <2> HIDE DEF new, Rows
  <2>4. session' \in [Uploads -> Rows] /\ \A v \in Uploads : v # u => session'[v] = session[v]
    BY <1>1, <2>1, <2>2, <2>3
  <2>5. session'[u] = IF session[u].there THEN new ELSE session[u]
    BY <1>1, <1>3, <2>1, <2>3
  <2> QED BY <2>2, <2>4, <2>5 DEF Rows
<1>7. StepsAside(t)
  BY <1>1, <1>4, <1>6 DEF StepsAside
<1>8. FilesTypes' /\ StagingWithinCap'
  BY <1>1, <1>6 DEF FilesTypes, StagingWithinCap
<1>9. Staged(thread[t])'
  BY <1>4 DEF Staged
<1>10. ASSUME NEW b \in Browsers, thread[t].for = b
       PROVE  /\ browser'[b].pc # "done"
              /\ session'[browser'[b].upload].there =>
                   /\ staging'[browser'[b].upload].blocks = All(browser'[b].sent)
                   /\ session'[browser'[b].upload].received = browser'[b].sent
  <2>1. browser[b].pc = "chunk" /\ browser[b].upload = u /\ thread[t].block = browser[b].sent + 1
    BY <1>1, <1>2, <1>4, <1>10 DEF Serves, Creating, Finishing, Dropping
  <2>2. browser[b] \in BusyBrowsers
    BY <2>1, BrowserFacts DEF ControlInv
  <2>3. /\ browser'[b].pc = "send" /\ browser'[b].upload = u
        /\ browser'[b].sent = browser[b].sent + 1
    BY <1>4, <1>10, <2>1, <2>2, AnswerFields
  <2>4. session[u].there => staging[u].blocks = All(thread[t].block)
    BY <1>1 DEF StagedInv, Staged
  <2> QED BY <1>1, <1>3, <1>6, <2>1, <2>3, <2>4
<1> QED BY <1>1, <1>2, <1>4, <1>5, <1>6, <1>7, <1>8, <1>9, <1>10, AsideKeeps DEF Creating, StepsWell

-----------------------------------------------------------------------------
(* Steps of requests that write: publication.                              *)

LEMMA UnlinkKeeps ==
  ASSUME UploadsAssumption, UploadsInv, NEW t \in Threads, Unlink(t)
  PROVE  UploadsInv'
<1> USE DEF UploadsInv
<1> DEFINE u == thread[t].upload
<1>1. /\ thread[t].pc = "unlink" /\ UNCHANGED <<session, media, clips, used, crossed>>
      /\ IF staging[u].there
         THEN staging' = [staging EXCEPT ![u] = Absent] /\ Go(t, "row")
         ELSE Refuse(t) /\ UNCHANGED staging
  BY DEF Unlink
<1>2. thread[t].pc \in Writing /\ thread[t].pc \in Finishing
  BY <1>1 DEF Writing, Finishing
<1>3. thread[t].pc # "idle" /\ u \in Uploads
  BY <1>2, WorkTypes
<1>4. CASE ~staging[u].there
  BY <1>1, <1>3, <1>4, RefusalKeeps
<1>5. CASE staging[u].there
  <2>1. staging' = [staging EXCEPT ![u] = Absent] /\ Go(t, "row")
    BY <1>1, <1>5
  <2>2. /\ browser' = browser
        /\ \A s \in Threads : s # t => thread'[s] = thread[s]
        /\ thread'[t].upload = thread[t].upload /\ thread'[t].pc = "row"
        /\ thread'[t].name = thread[t].name /\ thread'[t].size = thread[t].size
    BY <1>3, <2>1, GoFields DEF ControlInv
  <2>3. ControlInv'
    BY <1>1, <2>1, GoControl DEF Stays, Finishing
  <2>4. /\ staging'[u] = Absent
        /\ \A v \in Uploads : v # u => staging'[v] = staging[v]
    BY <1>3, <2>1 DEF FilesTypes
  <2>5. /\ Absent \in [there: BOOLEAN, whole: BOOLEAN, blocks: Seq(Blocks)]
        /\ Absent.blocks = <<>> /\ ~Absent.there
    BY DEF Absent
  <2>6. FilesTypes'
    BY <1>1, <2>1, <2>5 DEF FilesTypes
  <2>7. StagingWithinCap'
    <3>1. <<>> \in Seq(Blocks) /\ Len(<<>>) <= Cap
      BY EmptySeq DEF UploadsAssumption
    <3>2. \A v \in Uploads : staging'[v].blocks \in Seq(Blocks) /\ Len(staging'[v].blocks) <= Cap
      BY <2>4, <2>5, <3>1 DEF StagingWithinCap
    <3> QED BY <1>1, <3>2 DEF StagingWithinCap
  <2>8. Staged(thread[t])'
    BY <2>2, <2>4, <2>5 DEF Staged
  <2>9. \A b \in Browsers : thread[t].for = b => browser'[b].pc \notin {"send", "done"}
    BY <2>2, NobodyWaits
  <2>10. StepsWell(t)
    BY <1>1, <2>2, <2>4, <2>8, <2>9 DEF StepsWell, StepsAside, Creating
  <2> QED BY <1>1, <1>2, <2>2, <2>3, <2>6, <2>7, <2>10, AsideKeeps
<1> QED BY <1>4, <1>5

LEMMA ForgetKeeps ==
  ASSUME UploadsAssumption, UploadsInv, NEW t \in Threads, Forget(t)
  PROVE  UploadsInv'
<1> USE DEF UploadsInv
<1> DEFINE u == thread[t].upload
<1>1. /\ thread[t].pc = "forget" /\ Accept(t)
      /\ session' = [session EXCEPT ![u].there = FALSE]
      /\ UNCHANGED <<staging, media, clips, used, crossed>>
  BY DEF Forget
<1>2. thread[t].pc \in Writing /\ thread[t].pc \in Finishing
  BY <1>1 DEF Writing, Finishing
<1>3. thread[t].pc # "idle" /\ u \in Uploads
  BY <1>2, WorkTypes
<1>4. /\ \A s \in Threads : s # t => thread'[s] = thread[s]
      /\ thread'[t].pc = "idle"
      /\ \A b \in Browsers : b # thread[t].for => browser'[b] = browser[b]
      /\ \A b \in Browsers : b = thread[t].for =>
           Serves(thread[t], browser[b]) /\ browser'[b] = Answered(browser[b])
  BY <1>1, <1>3, AcceptFields
<1>5. ControlInv'
  BY <1>1, <1>3, ReplyControl DEF Accept
<1>6. /\ ~session'[u].there
      /\ \A v \in Uploads : v # u => session'[v] = session[v]
      /\ session' \in [Uploads -> [there: BOOLEAN, name: Names \cup {"none"},
                                   size: Sizes \cup {0}, received: 0 .. Cap]]
  BY <1>1, <1>3 DEF StagingWithinCap
<1>7. FilesTypes' /\ StagingWithinCap'
  BY <1>1, <1>6 DEF FilesTypes, StagingWithinCap
<1>8. Staged(thread[t])'
  BY <1>4 DEF Staged
<1>9. ASSUME NEW b \in Browsers, thread[t].for = b
      PROVE  /\ browser'[b].pc # "send"
             /\ \E row \in clips' : row.upload = browser'[b].upload
             /\ ~session'[browser'[b].upload].there /\ ~staging'[browser'[b].upload].there
  <2>1. browser[b].pc = "finish" /\ browser[b].upload = u
    BY <1>1, <1>4, <1>9 DEF Serves, Creating, Appending, Dropping
  <2>2. browser[b] \in BusyBrowsers
    BY <2>1, BrowserFacts DEF ControlInv
  <2>3. browser'[b].pc = "done" /\ browser'[b].upload = u
    BY <1>4, <1>9, <2>1, <2>2, AnswerFields
  <2>4. ~staging[u].there /\ \E row \in clips : row.upload = u
    BY <1>1 DEF StagedInv, Staged, RowInv
  <2> QED BY <1>1, <1>6, <2>3, <2>4
<1>10. StepsWell(t)
  BY <1>1, <1>4, <1>6, <1>8, <1>9 DEF StepsWell, StepsAside, Creating
<1> QED BY <1>1, <1>2, <1>4, <1>5, <1>7, <1>10, AsideKeeps

\* The destination: a name that is taken meanwhile is crossed.
LEMMA OpenKeeps ==
  ASSUME UploadsAssumption, UploadsInv, NEW t \in Threads, Open(t)
  PROVE  UploadsInv'
<1> USE DEF UploadsInv
<1> DEFINE u == thread[t].upload
           n == thread[t].name
           new == File(staging[u].blocks, FALSE)
<1>1. /\ thread[t].pc = "open" /\ UNCHANGED <<session, staging, clips, used>>
      /\ IF staging[u].there
         THEN /\ media' = [media EXCEPT ![n] = new]
              /\ crossed' = IF media[n].there THEN crossed \cup {n} ELSE crossed
              /\ Go(t, "copy")
         ELSE Refuse(t) /\ UNCHANGED <<media, crossed>>
  BY DEF Open
<1>2. thread[t].pc \in Writing /\ thread[t].pc \in Finishing
  BY <1>1 DEF Writing, Finishing
<1>3. thread[t].pc # "idle" /\ u \in Uploads /\ n \in Names
  BY <1>2, WorkTypes
<1>4. CASE ~staging[u].there
  BY <1>1, <1>3, <1>4, RefusalKeeps
<1>5. CASE staging[u].there
  <2>1. /\ media' = [media EXCEPT ![n] = new] /\ Go(t, "copy")
        /\ crossed' = IF media[n].there THEN crossed \cup {n} ELSE crossed
    BY <1>1, <1>5
  <2>2. /\ browser' = browser
        /\ \A s \in Threads : s # t => thread'[s] = thread[s]
        /\ thread'[t].upload = thread[t].upload /\ thread'[t].pc = "copy"
        /\ thread'[t].name = thread[t].name /\ thread'[t].size = thread[t].size
    BY <1>3, <2>1, GoFields DEF ControlInv
  <2>3. ControlInv'
    BY <1>1, <2>1, GoControl DEF Stays, Finishing
  <2>4. /\ new \in [there: BOOLEAN, whole: BOOLEAN, blocks: Seq(Blocks)]
        /\ new.there /\ new.blocks = All(thread[t].size)
    <3>1. staging[u].blocks = All(thread[t].size) /\ staging[u].blocks \in Seq(Blocks)
      BY <1>1, <1>3, <1>5 DEF StagedInv, Staged, FilesTypes
    <3> QED BY <3>1 DEF File
  <2> HIDE DEF new
  <2>5. media'[n] = new /\ \A m \in Names : m # n => media'[m] = media[m]
    BY <1>3, <2>1 DEF FilesTypes
  <2>6. FilesTypes'
    BY <1>1, <1>3, <2>1, <2>4 DEF FilesTypes
  <2>7. StagingWithinCap'
    BY <1>1 DEF StagingWithinCap
  <2>8. StepsWell(t)
    <3>1. Staged(thread[t])'
      BY <2>2 DEF Staged
    <3>2. \A b \in Browsers : thread[t].for = b => browser'[b].pc \notin {"send", "done"}
      BY <2>2, NobodyWaits
    <3> QED BY <1>1, <2>2, <3>1, <3>2 DEF StepsWell, StepsAside, Creating
  <2>9. SessionInv' /\ SentInv' /\ StagedInv' /\ RowInv' /\ SuccessIsCatalogued'
    BY <1>2, <2>8, StepKeeps
  <2>10. PublishedInv'
    <3> SUFFICES ASSUME NEW s \in Threads, thread'[s].name \notin crossed'
                 PROVE  Published(thread[s])'
      BY DEF PublishedInv
    <3>1. CASE s = t
      BY <2>2, <2>4, <2>5, <3>1 DEF Published
    <3>2. CASE s # t
      <4>1. thread'[s] = thread[s] /\ thread[s].name \notin crossed
        BY <2>1, <2>2, <3>2
      <4>2. Published(thread[s])
        BY <4>1 DEF PublishedInv
      <4>3. CASE thread[s].pc \in {"copy", "unlink", "row", "forget"}
        <5>1. thread[s].name \in Names
          <6>1. thread[s].pc \in Writing
            BY <4>3 DEF Writing, Finishing
          <6> QED BY <6>1, WorkTypes
        <5>2. media[thread[s].name].there
          BY <4>2, <4>3 DEF Published, File
        <5>3. thread[s].name # n
          BY <2>1, <4>1, <5>2
        <5> QED BY <2>5, <4>1, <4>2, <5>1, <5>3 DEF Published
      <4>4. CASE thread[s].pc \notin {"copy", "unlink", "row", "forget"}
        BY <4>1, <4>4 DEF Published
      <4> QED BY <4>3, <4>4
    <3> QED BY <3>1, <3>2
  <2>11. CataloguedIsComplete'
    <3> SUFFICES ASSUME NEW row \in clips, row.name \notin crossed'
                 PROVE  media'[row.name] = File(All(row.size), TRUE)
      BY <1>1 DEF CataloguedIsComplete
    <3>1. row.name \in Names /\ media[row.name] = File(All(row.size), TRUE)
      BY <2>1 DEF FilesTypes, CataloguedIsComplete
    <3>2. row.name # n
      BY <2>1, <3>1 DEF File
    <3> QED BY <2>5, <3>1, <3>2
  <2> QED BY <2>3, <2>6, <2>7, <2>9, <2>10, <2>11
<1> QED BY <1>4, <1>5

\* A copy that is completed changes no block of any file.
LEMMA CopyKeeps ==
  ASSUME UploadsAssumption, UploadsInv, NEW t \in Threads, Copy(t)
  PROVE  UploadsInv'
<1> USE DEF UploadsInv
<1> DEFINE n == thread[t].name
           Files == [there: BOOLEAN, whole: BOOLEAN, blocks: Seq(Blocks)]
<1>1. /\ thread[t].pc = "copy" /\ Go(t, "unlink")
      /\ media' = [media EXCEPT ![n].whole = TRUE]
      /\ UNCHANGED <<session, staging, clips, used, crossed>>
  BY DEF Copy
<1>2. thread[t].pc \in Writing /\ thread[t].pc \in Finishing
  BY <1>1 DEF Writing, Finishing
<1>3. thread[t].pc # "idle" /\ n \in Names
  BY <1>2, WorkTypes
<1>4. /\ browser' = browser
      /\ \A s \in Threads : s # t => thread'[s] = thread[s]
      /\ thread'[t].upload = thread[t].upload /\ thread'[t].pc = "unlink"
      /\ thread'[t].name = thread[t].name /\ thread'[t].size = thread[t].size
  BY <1>1, <1>3, GoFields DEF ControlInv
<1>5. ControlInv'
  BY <1>1, GoControl DEF Stays, Finishing
<1>6. PICK old \in Files : old = media[n]
  BY <1>3 DEF FilesTypes
<1>7. media' \in [Names -> Files] /\ media'[n] = [old EXCEPT !.whole = TRUE]
      /\ \A m \in Names : m # n => media'[m] = media[m]
  BY <1>1, <1>3, <1>6 DEF FilesTypes
<1>8. /\ media'[n].there = media[n].there /\ media'[n].blocks = media[n].blocks
      /\ \A blocks : media[n] = File(blocks, TRUE) => media'[n] = media[n]
      /\ \A blocks : media[n].there /\ media[n].blocks = blocks => media'[n] = File(blocks, TRUE)
  <2>1. PICK new \in Files : new = [old EXCEPT !.whole = TRUE]
    BY <1>6
  <2>2. new.there = old.there /\ new.blocks = old.blocks /\ new.whole = TRUE
    BY <1>6, <2>1
  <2>3. /\ old = [there |-> old.there, whole |-> old.whole, blocks |-> old.blocks]
        /\ new = [there |-> new.there, whole |-> new.whole, blocks |-> new.blocks]
    BY <1>6, <2>1
  <2>4. ASSUME NEW blocks, old = File(blocks, TRUE)
        PROVE  new = old
    <3>1. old.whole = TRUE
      BY <2>4 DEF File
    <3> QED BY <2>2, <2>3, <3>1
  <2>5. ASSUME NEW blocks, old.there, old.blocks = blocks
        PROVE  new = File(blocks, TRUE)
    <3>1. old.there = TRUE
      BY <1>6, <2>5
    <3> QED BY <2>2, <2>3, <2>5, <3>1 DEF File
  <2> QED BY <1>6, <1>7, <2>1, <2>2, <2>4, <2>5
<1>9. FilesTypes' /\ StagingWithinCap'
  BY <1>1, <1>7 DEF FilesTypes, StagingWithinCap
<1>10. StepsWell(t)
  <2>1. Staged(thread[t])'
    BY <1>4 DEF Staged
  <2>2. \A b \in Browsers : thread[t].for = b => browser'[b].pc \notin {"send", "done"}
    BY <1>4, NobodyWaits
  <2> QED BY <1>1, <1>4, <2>1, <2>2 DEF StepsWell, StepsAside, Creating
<1>11. SessionInv' /\ SentInv' /\ StagedInv' /\ RowInv' /\ SuccessIsCatalogued'
  BY <1>2, <1>10, StepKeeps
<1>12. PublishedInv'
  <2> SUFFICES ASSUME NEW s \in Threads, thread'[s].name \notin crossed'
               PROVE  Published(thread[s])'
    BY DEF PublishedInv
  <2>1. CASE s = t
    <3>1. media[n].there /\ media[n].blocks = All(thread[t].size)
      BY <1>1, <1>4, <2>1 DEF PublishedInv, Published
    <3> QED BY <1>4, <1>8, <2>1, <3>1 DEF Published
  <2>2. CASE s # t
    <3>1. thread'[s] = thread[s] /\ thread[s].name \notin crossed
      BY <1>1, <1>4, <2>2
    <3>2. Published(thread[s])
      BY <3>1 DEF PublishedInv
    <3>3. CASE thread[s].pc \in {"copy", "unlink", "row", "forget"}
      <4>1. thread[s].name \in Names
        <5>1. thread[s].pc \in Writing
          BY <3>3 DEF Writing, Finishing
        <5> QED BY <5>1, WorkTypes
      <4>2. CASE thread[s].name # n
        BY <1>7, <3>1, <3>2, <4>1, <4>2 DEF Published
      <4>3. CASE thread[s].name = n
        BY <1>8, <3>1, <3>2, <4>3 DEF Published
      <4> QED BY <4>2, <4>3
    <3>4. CASE thread[s].pc \notin {"copy", "unlink", "row", "forget"}
      BY <3>1, <3>4 DEF Published
    <3> QED BY <3>3, <3>4
  <2> QED BY <2>1, <2>2
<1>13. CataloguedIsComplete'
  <2> SUFFICES ASSUME NEW row \in clips, row.name \notin crossed'
               PROVE  media'[row.name] = File(All(row.size), TRUE)
    BY <1>1 DEF CataloguedIsComplete
  <2>1. row.name \in Names /\ media[row.name] = File(All(row.size), TRUE)
    BY <1>1 DEF FilesTypes, CataloguedIsComplete
  <2> QED BY <1>7, <1>8, <2>1
<1> QED BY <1>5, <1>9, <1>11, <1>12, <1>13

LEMMA CatalogKeeps ==
  ASSUME UploadsAssumption, UploadsInv, NEW t \in Threads, Catalog(t)
  PROVE  UploadsInv'
<1> USE DEF UploadsInv
<1> DEFINE new == [upload |-> thread[t].upload, name |-> thread[t].name, size |-> thread[t].size]
<1>1. /\ thread[t].pc = "row" /\ Go(t, "forget") /\ clips' = clips \cup {new}
      /\ UNCHANGED <<session, staging, media, used, crossed>>
  BY DEF Catalog
<1>2. thread[t].pc \in Writing /\ thread[t].pc \in Finishing
  BY <1>1 DEF Writing, Finishing
<1>3. /\ thread[t].pc # "idle" /\ thread[t].upload \in Uploads
      /\ thread[t].name \in Names /\ thread[t].size \in Sizes
  BY <1>2, WorkTypes
<1>4. /\ browser' = browser
      /\ \A s \in Threads : s # t => thread'[s] = thread[s]
      /\ thread'[t].upload = thread[t].upload /\ thread'[t].pc = "forget"
      /\ thread'[t].name = thread[t].name /\ thread'[t].size = thread[t].size
  BY <1>1, <1>3, GoFields DEF ControlInv
<1>5. ControlInv'
  BY <1>1, GoControl DEF Stays, Finishing
<1>6. /\ new \in [upload: Uploads, name: Names, size: Sizes]
      /\ new.upload = thread[t].upload /\ new.name = thread[t].name /\ new.size = thread[t].size
  BY <1>3
<1> HIDE DEF new
<1>7. FilesTypes' /\ StagingWithinCap'
  BY <1>1, <1>6 DEF FilesTypes, StagingWithinCap
<1>8. StepsWell(t)
  <2>1. Staged(thread[t])'
    BY <1>1, <1>4 DEF Staged, StagedInv
  <2>2. \A b \in Browsers : thread[t].for = b => browser'[b].pc \notin {"send", "done"}
    BY <1>4, NobodyWaits
  <2>3. \E row \in clips' : row.upload = thread'[t].upload
    BY <1>1, <1>4, <1>6
  <2> QED BY <1>1, <1>4, <2>1, <2>2, <2>3 DEF StepsWell, StepsAside, Creating
<1>9. SessionInv' /\ SentInv' /\ StagedInv' /\ RowInv' /\ SuccessIsCatalogued'
  BY <1>2, <1>8, StepKeeps
<1>10. thread[t].name \in crossed \/ media[thread[t].name] = File(All(thread[t].size), TRUE)
  BY <1>1 DEF PublishedInv, Published
<1>11. PublishedInv'
  <2> SUFFICES ASSUME NEW s \in Threads, thread'[s].name \notin crossed'
               PROVE  Published(thread[s])'
    BY DEF PublishedInv
  <2>1. CASE s = t
    BY <1>1, <1>4, <1>10, <2>1 DEF Published
  <2>2. CASE s # t
    BY <1>1, <1>4, <2>2 DEF PublishedInv, Published
  <2> QED BY <2>1, <2>2
<1>12. CataloguedIsComplete'
  BY <1>1, <1>6, <1>10 DEF CataloguedIsComplete
<1> QED BY <1>5, <1>7, <1>9, <1>11, <1>12

-----------------------------------------------------------------------------
(* Steps that drop an upload.                                              *)

\* Less of a session or of a staging file takes nothing away from the invariant.
LEMMA LessKeeps ==
  ASSUME UploadsAssumption, UploadsInv, NEW t \in Threads, thread[t].pc \in Dropping, ControlInv',
         UNCHANGED <<media, clips, used, crossed>>,
         thread'[t].pc \in {"idle", "discard"}, NEW u \in Uploads, u = thread[t].upload,
         thread'[t].pc = "discard" => ~session'[u].there /\ thread'[t].upload = u,
         \A s \in Threads : s # t => thread'[s] = thread[s],
         \A b \in Browsers : browser'[b] = browser[b] \/ browser'[b].pc \notin {"send", "done"},
         \A v \in Uploads : v # u => session'[v] = session[v] /\ staging'[v] = staging[v],
         ~session'[u].there, staging'[u] \in {staging[u], Absent},
         FilesTypes', session' \in [Uploads -> [there: BOOLEAN, name: Names \cup {"none"},
                                                size: Sizes \cup {0}, received: 0 .. Cap]]
  PROVE  UploadsInv'
<1> USE DEF UploadsInv
<1>1. /\ Absent.blocks = <<>> /\ ~Absent.there
      /\ <<>> \in Seq(Blocks) /\ Len(<<>>) = 0
  BY EmptySeq DEF Absent
<1>2. StagingWithinCap'
  <2>1. \A v \in Uploads : staging'[v].blocks \in Seq(Blocks) /\ Len(staging'[v].blocks) <= Cap
    <3> SUFFICES ASSUME NEW v \in Uploads
                 PROVE  staging'[v].blocks \in Seq(Blocks) /\ Len(staging'[v].blocks) <= Cap
      OBVIOUS
    <3>1. staging'[v] = staging[v] \/ staging'[v] = Absent
      OBVIOUS
    <3>2. staging[v].blocks \in Seq(Blocks) /\ Len(staging[v].blocks) <= Cap
      BY DEF StagingWithinCap
    <3>3. 0 <= Cap
      BY DEF UploadsAssumption
    <3>4. CASE staging'[v] = Absent
      BY <1>1, <3>3, <3>4
    <3> QED BY <3>1, <3>2, <3>4
  <2> QED BY <2>1 DEF StagingWithinCap
<1>3. SessionInv'
  <2>1. \A v \in Uploads : session'[v].there => v \in used'
    BY DEF SessionInv
  <2>2. ASSUME NEW s \in Threads, thread'[s].pc \in Creating \cup {"discard"}
        PROVE  ~session'[thread'[s].upload].there
    <3>1. CASE s = t
      BY <2>2, <3>1 DEF Creating
    <3>2. CASE s # t
      <4>1. thread'[s] = thread[s]
        BY <3>2
      <4>2. ~session[thread[s].upload].there /\ thread[s].upload \in Uploads
        <5>1. thread[s].pc # "idle"
          BY <2>2, <4>1 DEF Creating
        <5> QED BY <2>2, <4>1, <5>1, ThreadFacts DEF SessionInv, ControlInv
      <4> QED BY <4>1, <4>2
    <3> QED BY <3>1, <3>2
  <2> QED BY <2>1, <2>2 DEF SessionInv
<1>4. SentInv'
  <2>1. \A b \in Browsers : browser[b].pc = "send" => browser[b].upload \in Uploads
    BY BrowserFacts DEF ControlInv
  <2> QED BY <2>1 DEF SentInv
<1>5. StagedInv'
  <2> SUFFICES ASSUME NEW s \in Threads PROVE Staged(thread[s])'
    BY DEF StagedInv
  <2>1. CASE s = t
    BY <2>1 DEF Staged
  <2>2. CASE s # t
    <3>1. thread'[s] = thread[s] /\ Staged(thread[s])
      BY <2>2 DEF StagedInv
    <3>2. CASE thread[s].pc \notin Writing
      BY <3>1, <3>2 DEF Staged, Writing, Creating, Appending, Finishing
    <3>3. CASE thread[s].pc \in Writing /\ thread[s].upload # u
      <4>1. thread[s].upload \in Uploads
        BY <3>3, WorkTypes
      <4>2. /\ session'[thread[s].upload] = session[thread[s].upload]
            /\ staging'[thread[s].upload] = staging[thread[s].upload]
        BY <3>3, <4>1
      <4> QED BY <3>1, <4>2 DEF Staged
    <3>4. CASE thread[s].pc \in Writing /\ thread[s].upload = u
      <4>1. thread[s].pc # "insert"
        BY <2>2, <3>4 DEF ControlInv, AloneInv, Creating
      <4>2. thread[s].pc = "write" => Len(staging'[u].blocks) < Cap
        <5>1. thread[s].pc = "write" => Len(staging[u].blocks) < Cap
          BY <3>1, <3>4 DEF Staged
        <5>2. Len(staging[u].blocks) \in Nat
          BY LenProperties DEF FilesTypes
        <5> QED BY <1>1, <5>1, <5>2 DEF UploadsAssumption
      <4>3. /\ thread[s].pc = "open" /\ staging'[u].there => staging'[u].blocks = All(thread[s].size)
            /\ thread[s].pc \in {"row", "forget"} => ~staging'[u].there
        BY <1>1, <3>1, <3>4 DEF Staged
      <4> QED BY <3>1, <3>4, <4>1, <4>2, <4>3 DEF Staged
    <3> QED BY <3>2, <3>3, <3>4
  <2> QED BY <2>1, <2>2
<1>6. PublishedInv'
  <2> SUFFICES ASSUME NEW s \in Threads, thread'[s].name \notin crossed'
               PROVE  Published(thread[s])'
    BY DEF PublishedInv
  <2>1. CASE s = t
    <3>1. thread'[s].pc \notin {"copy", "unlink", "row", "forget"}
      BY <2>1
    <3> HIDE DEF UploadsInv
    <3> QED BY <3>1 DEF Published
  <2>2. CASE s # t
    <3>1. thread'[s] = thread[s] /\ media' = media /\ crossed' = crossed
      BY <2>2
    <3>2. Published(thread[s])
      BY <3>1 DEF PublishedInv
    <3> QED BY <3>1, <3>2 DEF Published
  <2> QED BY <2>1, <2>2
<1>7. RowInv' /\ CataloguedIsComplete'
  <2>1. \A s \in Threads : thread'[s].pc = "forget" => thread'[s] = thread[s]
    OBVIOUS
  <2>2. RowInv'
    BY <2>1 DEF RowInv
  <2>3. media' = media /\ clips' = clips /\ crossed' = crossed /\ CataloguedIsComplete
    OBVIOUS
  <2>4. CataloguedIsComplete'
    BY <2>3 DEF CataloguedIsComplete
  <2> QED BY <2>2, <2>4
<1>8. SuccessIsCatalogued'
  <2>1. \A b \in Browsers : browser[b].pc = "done" => browser[b].upload \in Uploads
    BY BrowserFacts DEF ControlInv
  <2> QED BY <1>1, <2>1 DEF SuccessIsCatalogued
<1> QED BY <1>2, <1>3, <1>4, <1>5, <1>6, <1>7, <1>8

LEMMA DropKeeps ==
  ASSUME UploadsAssumption, UploadsInv, NEW t \in Threads, Drop(t)
  PROVE  UploadsInv'
<1> USE DEF UploadsInv
<1> DEFINE u == thread[t].upload
<1>1. /\ thread[t].pc = "abort" /\ UNCHANGED <<staging, media, clips, used, crossed>>
      /\ IF session[u].there
         THEN session' = [session EXCEPT ![u].there = FALSE] /\ Go(t, "discard")
         ELSE Refuse(t) /\ UNCHANGED session
  BY DEF Drop
<1>2. thread[t].pc # "idle" /\ u \in Uploads /\ thread[t].pc \in Dropping
  BY <1>1, ThreadFacts DEF ControlInv, Dropping
<1>3. CASE ~session[u].there
  BY <1>1, <1>2, <1>3, RefusalKeeps
<1>4. CASE session[u].there
  <2>1. session' = [session EXCEPT ![u].there = FALSE] /\ Go(t, "discard")
    BY <1>1, <1>4
  <2>2. ControlInv'
    BY <1>1, <2>1, GoControl DEF Stays, Dropping
  <2>3. /\ browser' = browser
        /\ \A s \in Threads : s # t => thread'[s] = thread[s]
        /\ thread'[t].upload = thread[t].upload /\ thread'[t].pc = "discard"
    BY <1>2, <2>1, GoFields DEF ControlInv
  <2>4. /\ ~session'[u].there
        /\ \A v \in Uploads : v # u => session'[v] = session[v]
        /\ session' \in [Uploads -> [there: BOOLEAN, name: Names \cup {"none"},
                                     size: Sizes \cup {0}, received: 0 .. Cap]]
    BY <1>2, <2>1 DEF StagingWithinCap
  <2>5. FilesTypes'
    BY <1>1 DEF FilesTypes
  <2> QED BY <1>1, <1>2, <2>2, <2>3, <2>4, <2>5, LessKeeps
<1> QED BY <1>3, <1>4

LEMMA DiscardKeeps ==
  ASSUME UploadsAssumption, UploadsInv, NEW t \in Threads, Discard(t)
  PROVE  UploadsInv'
<1> USE DEF UploadsInv
<1> DEFINE u == thread[t].upload
<1>1. /\ thread[t].pc = "discard" /\ Accept(t) /\ UNCHANGED <<session, media, clips, used, crossed>>
      /\ staging' = [staging EXCEPT ![u] = Absent]
  BY DEF Discard
<1>2. thread[t].pc # "idle" /\ u \in Uploads /\ thread[t].pc \in Dropping
  BY <1>1, ThreadFacts DEF ControlInv, Dropping
<1>3. ControlInv'
  BY <1>1, <1>2, ReplyControl DEF Accept
<1>4. /\ \A s \in Threads : s # t => thread'[s] = thread[s]
      /\ thread'[t].pc = "idle"
      /\ \A b \in Browsers : b # thread[t].for => browser'[b] = browser[b]
      /\ \A b \in Browsers : b = thread[t].for =>
           Serves(thread[t], browser[b]) /\ browser'[b] = Answered(browser[b])
  BY <1>1, <1>2, AcceptFields
<1>5. \A b \in Browsers : browser'[b] = browser[b] \/ browser'[b].pc \notin {"send", "done"}
  <2> SUFFICES ASSUME NEW b \in Browsers, b = thread[t].for
               PROVE  browser'[b].pc \notin {"send", "done"}
    BY <1>4
  <2>1. browser[b].pc = "aborting"
    BY <1>1, <1>4 DEF Serves, Creating, Appending, Finishing
  <2>2. browser[b] \in BusyBrowsers
    BY <2>1, BrowserFacts DEF ControlInv
  <2> QED BY <1>4, <2>1, <2>2, AnswerFields DEF IdleBrowser
<1>6. ~session[u].there
  BY <1>1 DEF SessionInv
<1>7. /\ staging'[u] = Absent
      /\ \A v \in Uploads : v # u => staging'[v] = staging[v]
  BY <1>1, <1>2 DEF FilesTypes
<1>8. FilesTypes'
  <2>1. Absent \in [there: BOOLEAN, whole: BOOLEAN, blocks: Seq(Blocks)]
    BY EmptySeq DEF Absent
  <2> QED BY <1>1, <2>1 DEF FilesTypes
<1>9. session' \in [Uploads -> [there: BOOLEAN, name: Names \cup {"none"},
                                size: Sizes \cup {0}, received: 0 .. Cap]]
  BY <1>1 DEF StagingWithinCap
<1> QED BY <1>1, <1>2, <1>3, <1>4, <1>5, <1>6, <1>7, <1>8, <1>9, LessKeeps

-----------------------------------------------------------------------------
(* The theorems.                                                           *)

LEMMA UploadsStart ==
  ASSUME UploadsAssumption, Init
  PROVE  UploadsInv
<1> USE DEF Init
<1>1. /\ IdleThread.pc = "idle" /\ IdleThread.for = Nobody /\ IdleThread.upload = Nobody
      /\ IdleBrowser.pc = "idle" /\ IdleBrowser.upload = Nobody
      /\ "idle" \notin Writing /\ "idle" \notin Creating
  BY DEF IdleThread, IdleBrowser, Writing, Creating, Appending, Finishing
<1>2. ControlInv
  BY <1>1 DEF ControlInv, ControlTypes, BrowserOK, OwnersInv, RequestsInv, AloneInv, AwaitedInv
<1>3. /\ Absent \in [there: BOOLEAN, whole: BOOLEAN, blocks: Seq(Blocks)]
      /\ Absent.blocks = <<>> /\ <<>> \in Seq(Blocks) /\ Len(<<>>) = 0
  BY EmptySeq DEF Absent
<1>4. /\ NoSession \in [there: BOOLEAN, name: Names \cup {"none"},
                        size: Sizes \cup {0}, received: 0 .. Cap]
      /\ ~NoSession.there
  BY DEF NoSession, UploadsAssumption
<1>5. SessionInv /\ SentInv /\ StagedInv /\ PublishedInv /\ RowInv
  BY <1>1, <1>4 DEF SessionInv, SentInv, StagedInv, Staged, PublishedInv, Published, RowInv
<1>6. FilesTypes
  BY <1>3 DEF FilesTypes
<1>7. StagingWithinCap
  BY <1>3, <1>4 DEF StagingWithinCap, UploadsAssumption
<1>8. CataloguedIsComplete /\ SuccessIsCatalogued
  BY <1>1 DEF CataloguedIsComplete, SuccessIsCatalogued
<1> QED BY <1>2, <1>5, <1>6, <1>7, <1>8 DEF UploadsInv

LEMMA UploadsNext ==
  ASSUME UploadsAssumption, UploadsInv, [Next]_vars
  PROVE  UploadsInv'
<1>1. CASE \E b \in Browsers : Browse(b)
  BY <1>1, BrowseKeeps
<1>2. CASE Cleanup \/ Crash
  BY <1>2, RestKeeps
<1>3. ASSUME NEW t \in Threads, Handle(t)
      PROVE  UploadsInv'
  <2>1. CASE Create(t) \/ Insert(t)
    BY <2>1, CreateKeeps, InsertKeeps
  <2>2. CASE AppendChunk(t) \/ Finish(t) \/ CopyFails(t)
    BY <2>2, LookingKeeps
  <2>3. CASE Write(t) \/ Update(t)
    BY <2>3, WriteKeeps, UpdateKeeps
  <2>4. CASE Open(t) \/ Copy(t) \/ Unlink(t)
    BY <2>4, OpenKeeps, CopyKeeps, UnlinkKeeps
  <2>5. CASE Catalog(t) \/ Forget(t)
    BY <2>5, CatalogKeeps, ForgetKeeps
  <2>6. CASE Drop(t) \/ Discard(t)
    BY <2>6, DropKeeps, DiscardKeeps
  <2> QED BY <1>3, <2>1, <2>2, <2>3, <2>4, <2>5, <2>6 DEF Handle
<1>4. CASE UNCHANGED vars
  <2>1. UNCHANGED <<browser, thread, session, staging, media, clips, used, crossed>>
    BY <1>4 DEF vars
  <2>2. ControlInv'
    <3>1. \A b \in Browsers : BrowserOK(browser[b])'
      BY <2>1 DEF UploadsInv, ControlInv, ControlTypes, BrowserOK, BusyOK
    <3>2. \A t \in Threads : (thread[t] = IdleThread \/ WorkOK(thread[t]))'
      BY <2>1 DEF UploadsInv, ControlInv, ControlTypes, WorkOK
    <3>3. ControlTypes'
      BY <2>1, <3>1, <3>2 DEF UploadsInv, ControlInv, ControlTypes
    <3>4. OwnersInv' /\ RequestsInv' /\ AloneInv' /\ AwaitedInv'
      BY <2>1, StagesStay DEF UploadsInv
    <3> QED BY <3>3, <3>4 DEF ControlInv
  <2>3. \A t \in Threads : Quiet(t)
    BY <2>1 DEF Quiet
  <2> QED BY <2>1, <2>2, <2>3, QuietSteps
<1> QED BY <1>1, <1>2, <1>3, <1>4 DEF Next

\* The whole invariant, for any number of browsers, requests, uploads and failures.
THEOREM UploadsInvariant == Spec => []UploadsInv
<1>1. Init => UploadsInv
  BY UploadsAssumption, UploadsStart
<1>2. UploadsInv /\ [Next]_vars => UploadsInv'
  BY UploadsAssumption, UploadsNext
<1> QED BY <1>1, <1>2, PTL DEF Spec

\* What finish_upload has catalogued is complete in the media directory, block by
\* block, unless two uploads were published under one name at once.
THEOREM CataloguedClipsAreComplete == Spec => []CataloguedIsComplete
<1>1. UploadsInv => CataloguedIsComplete
  BY DEF UploadsInv
<1> QED BY <1>1, UploadsInvariant, PTL

\* append_chunk keeps staging files and stored sizes within max_upload_bytes,
\* although the number it compares is stored after the file was written.
THEOREM StagingKeepsWithinCap == Spec => []StagingWithinCap
<1>1. UploadsInv => StagingWithinCap
  BY DEF UploadsInv
<1> QED BY <1>1, UploadsInvariant, PTL

\* A browser that finish_upload has answered has a clip, and there is nothing for
\* the cleanup to find.
THEOREM ToldSuccessIsCatalogued == Spec => []SuccessIsCatalogued
<1>1. UploadsInv => SuccessIsCatalogued
  BY DEF UploadsInv
<1> QED BY <1>1, UploadsInvariant, PTL
=============================================================================
