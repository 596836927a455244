---------------------------- MODULE Configuration ----------------------------
(***************************************************************************)
(* Collections and processing profiles: the Worker's repositories with     *)
(* their revisions, single default and idempotency records, the forms of   *)
(* the Manager that edit them, and the integration's one-way migration of  *)
(* the config entry's subentries into the Worker.                          *)
(*                                                                         *)
(* A handler looks for a replay outside of the transaction that then does  *)
(* the work, so two of them interleave there.  A client that gives up      *)
(* leaves its request behind; the migration repeats it under the same key, *)
(* a form does not.  Nothing deletes a record.                             *)
(***************************************************************************)
EXTENDS Naturals

CONSTANTS
  Profiles,
  Collections,
  Stored,       \* records the Worker may already have
  Users,        \* forms open in browsers
  Migration,    \* the client that is not a user
  Nobody,       \* no client, no record
  Threads,      \* requests the Worker can be handling
  MaxAttempts,  \* MAX_REQUEST_ATTEMPTS
  MaxSaves,     \* bound: times a user saves a form
  MaxFaults     \* bound: lost answers, failing transactions, crashes, restarts

ASSUME ConfigurationAssumption ==
  /\ Profiles \cap Collections = {} /\ Stored \subseteq Profiles \cup Collections
  /\ Migration \notin Users /\ Nobody \notin Users \cup {Migration} \cup Profiles \cup Collections
  /\ MaxAttempts \in Nat \ {0} /\ MaxSaves \in Nat /\ MaxFaults \in Nat

VARIABLES
  store,     \* rows of profiles and collections
  log,       \* request IDs in idempotency_records
  wanted,    \* the collection subentries with is_default; never changes
  ha,        \* async_migrate_subentries
  migrated,  \* the entry is marked and holds no subentries
  saved,     \* migrated, as the entry on the disk has it
  form,      \* CollectionForm and ProfileForm, per user
  thread,    \* handlers in the Worker
  saves, faults

vars == <<store, log, wanted, ha, migrated, saved, form, thread, saves, faults>>

-----------------------------------------------------------------------------
Records == Profiles \cup Collections

\* What a record says, apart from being the default: what the Worker had at
\* first, a subentry's fields or only those of a create, what a user typed.
Contents == {"old", "created", "held", "typed"}

\* A row; author is history: the client that wrote it last.
Absent == [there |-> FALSE, content |-> "old", default |-> FALSE, revision |-> 0, author |-> Nobody]
Row(content, default, revision, author) ==
  [there |-> TRUE, content |-> content, default |-> default, revision |-> revision,
   author |-> author]

IdleForm == [pc |-> "closed", id |-> Nobody, base |-> Absent]

\* A request; base is history: the row its author had read.  again, history:
\* its key was in the log when it was sent.
NoRequest == [op |-> "none", id |-> Nobody, revision |-> 0, content |-> "old", default |-> FALSE,
              by |-> Nobody, base |-> Absent]
IdleThread == [pc |-> "idle", request |-> NoRequest, for |-> Nobody, again |-> FALSE,
               answer |-> "none"]

NotStarted == [pc |-> "down", id |-> Nobody, todo |-> {}, request |-> NoRequest, tries |-> 0,
               good |-> TRUE]

Defaults == {c \in Collections : store[c].default}

Init ==
  /\ store \in [Records -> {Absent, Row("old", FALSE, 1, Nobody), Row("old", TRUE, 1, Nobody)}]
  /\ \A r \in Records : (store[r].there => r \in Stored) /\ (store[r].default => r \in Collections)
  /\ \A c, d \in Defaults : c = d
  /\ wanted \in SUBSET Collections
  /\ ha = NotStarted
  /\ form = [u \in Users |-> IdleForm]
  /\ thread = [t \in Threads |-> IdleThread]
  /\ log = {} /\ migrated = FALSE /\ saved = FALSE /\ saves = 0 /\ faults = 0

Fault == faults < MaxFaults /\ faults' = faults + 1

-----------------------------------------------------------------------------
(* Requests.                                                               *)

\* The key of a request of the migration.  A user's is new: it is not in the log.
Key(request) == <<request.id, request.op, request.revision>>

Handled(request) ==
  [pc |-> IF request.by = Migration THEN "lookup" ELSE "transact", request |-> request,
   for |-> request.by, again |-> request.by = Migration /\ Key(request) \in log, answer |-> "none"]

Send(request) ==
  \E t \in Threads :
    thread[t] = IdleThread /\ thread' = [thread EXCEPT ![t] = Handled(request)]

\* The handler has an answer, for whoever still waits.
Done(t, answer) ==
  thread' = [thread EXCEPT ![t] =
    IF @.for = Nobody THEN IdleThread
    ELSE [IdleThread EXCEPT !.pc = "answer", !.answer = answer, !.for = thread[t].for,
                            !.again = thread[t].again]]

\* Mutant: nothing is replayed.
NotReplayed(t) == FALSE
\* _replay.
Replayed(t) == thread[t].request.by = Migration /\ Key(thread[t].request) \in log

Lookup(t) ==
  /\ thread[t].pc = "lookup"
  /\ IF Replayed(t) THEN Done(t, "ok") ELSE thread' = [thread EXCEPT ![t].pc = "transact"]
  /\ UNCHANGED <<store, log, wanted, ha, migrated, saved, form, saves, faults>>

\* Mutant: no row is demoted.
DemotedNever(rows, request) == rows
\* Mutant: the demoted row keeps its revision.
DemotedQuietly(rows, request) ==
  [r \in Records |->
     IF request.default /\ rows[r].default /\ r # request.id
     THEN Row(rows[r].content, FALSE, rows[r].revision, request.by)
     ELSE rows[r]]
\* _demote_other_defaults.
Demoted(rows, request) ==
  [r \in Records |->
     IF request.default /\ rows[r].default /\ r # request.id
     THEN Row(rows[r].content, FALSE, rows[r].revision + 1, request.by)
     ELSE rows[r]]

\* The INSERT or the UPDATE finds what it needs.
Applies(request) ==
  IF request.op = "create" THEN ~store[request.id].there
  ELSE store[request.id].there /\ store[request.id].revision = request.revision

\* The content after a request.  The fields that a patch leaves out or sets to null
\* keep their values (exclude_none, repositories.py:285); content stands for the result.
Written(request) ==
  [Demoted(store, request) EXCEPT ![request.id] =
     Row(request.content, request.default, @.revision + 1, request.by)]

\* Mutant: the demotion is a transaction of its own.
HalfDone(request) == Demoted(store, request)
\* What a transaction that raises leaves.
RolledBack(request) == store

\* create and patch, from BEGIN IMMEDIATE to the end.
Transact(t) ==
  LET request == thread[t].request IN
  /\ thread[t].pc = "transact"
  /\ \/ /\ Applies(request)
        /\ store' = Written(request)
        /\ log' = log \cup (IF request.by = Migration THEN {Key(request)} ELSE {})
        /\ Done(t, "ok")
        /\ UNCHANGED faults
     \/ /\ ~Applies(request)
        /\ store' = RolledBack(request)
        /\ Done(t, "refused")
        /\ UNCHANGED <<log, faults>>
     \/ /\ Fault
        /\ store' = RolledBack(request)
        /\ Done(t, "unavailable")
        /\ UNCHANGED log
  /\ UNCHANGED <<wanted, ha, migrated, saved, form, saves>>

-----------------------------------------------------------------------------
(* The migration.                                                          *)

\* The migration ends with nothing removed, until the next start.
Failed == [NotStarted EXCEPT !.pc = "failed"]

\* _async_mutate: the same request again, while there are attempts left.
Repeat(own) ==
  IF own.tries < MaxAttempts THEN [own EXCEPT !.pc = "send"] ELSE Failed

\* A collection that was created is patched next.
Pushed(own) ==
  IF own.request.op = "create" /\ own.id \in Collections
  THEN [own EXCEPT !.pc = "push", !.request = NoRequest, !.tries = 0]
  ELSE [NotStarted EXCEPT !.pc = "push", !.todo = own.todo \ {own.id}]

AfterAnswer(own, answer) ==
  CASE answer = "ok"      -> Pushed(own)
    [] answer = "refused" -> Failed
    [] OTHER              -> Repeat(own)

\* async_setup_entry.
Setup ==
  /\ ha.pc = "down"
  /\ ha' = IF migrated THEN [ha EXCEPT !.pc = "done"]
           ELSE [ha EXCEPT !.pc = "push", !.todo = Records]
  /\ UNCHANGED <<store, log, wanted, migrated, saved, form, thread, saves, faults>>

\* _push_profile and _push_collection list what there is and choose the request.
PushOf(r) ==
  [op |-> IF store[r].there THEN "patch" ELSE "create", id |-> r, revision |-> store[r].revision,
   content |-> IF store[r].there \/ r \in Profiles THEN "held" ELSE "created",
   default |-> r \in wanted, by |-> Migration, base |-> Absent]

Push ==
  /\ ha.pc = "push"
  /\ \E r \in ha.todo :
       /\ ha.id \in {r, Nobody}
       /\ r \in Profiles \/ ha.todo \cap Profiles = {}
       /\ Send(PushOf(r))
       /\ ha' = [ha EXCEPT !.pc = "wait", !.id = r, !.tries = 1, !.request = PushOf(r)]
  /\ UNCHANGED <<store, log, wanted, migrated, saved, form, saves, faults>>

PushAgain ==
  /\ ha.pc = "send"
  /\ Send(ha.request)
  /\ ha' = [ha EXCEPT !.pc = "wait", !.tries = @ + 1]
  /\ UNCHANGED <<store, log, wanted, migrated, saved, form, saves, faults>>

\* A list cannot be read.
CannotList ==
  /\ ha.pc \in {"push", "collections", "profiles"}
  /\ Fault
  /\ ha' = Failed
  /\ UNCHANGED <<store, log, wanted, migrated, saved, form, thread, saves>>

\* Mutant: a record that is there is taken to be right.
IsThere(r) == store[r].there
\* _matches.
Matches(r) == store[r].there /\ store[r].content = "held" /\ store[r].default = (r \in wanted)

\* The read-back: the collections, and then the profiles; all are removed or none.
Collected ==
  /\ ha.pc = "push" /\ ha.todo = {}
  /\ ha' = [ha EXCEPT !.pc = "profiles", !.good = \A c \in Collections : Matches(c)]
  /\ UNCHANGED <<store, log, wanted, migrated, saved, form, thread, saves, faults>>

Remove ==
  /\ ha.pc = "profiles"
  /\ IF ha.good /\ \A p \in Profiles : Matches(p)
     THEN migrated' = TRUE /\ ha' = [NotStarted EXCEPT !.pc = "done"]
     ELSE UNCHANGED migrated /\ ha' = Failed
  /\ UNCHANGED <<store, log, wanted, saved, form, thread, saves, faults>>

\* Home Assistant writes its entries some time later.
Save ==
  /\ migrated /\ ~saved
  /\ saved' = TRUE
  /\ UNCHANGED <<store, log, wanted, ha, migrated, form, thread, saves, faults>>

\* Home Assistant starts again with what its disk has.
Restart ==
  /\ Fault
  /\ ha.pc # "down"
  /\ ha' = NotStarted
  /\ migrated' = saved
  /\ thread' = [t \in Threads |-> IF thread[t].for = Migration
                                  THEN [thread[t] EXCEPT !.for = Nobody] ELSE thread[t]]
  /\ UNCHANGED <<store, log, wanted, saved, form, saves>>

-----------------------------------------------------------------------------
(* A form of the Manager.                                                  *)

\* The view's list has the row, or the user makes a new one.
Open(u) ==
  /\ form[u].pc = "closed"
  /\ saves < MaxSaves
  /\ \E r \in Records : form' = [form EXCEPT ![u] = [pc |-> "open", id |-> r, base |-> store[r]]]
  /\ UNCHANGED <<store, log, wanted, ha, migrated, saved, thread, saves, faults>>

\* The form sends what it holds under the revision of the row it was filled from.
\* Content stands for a version of the row, not for its fields: that payload() makes
\* "schedule" anew from the two fields it shows (CollectionForm.vue:104) is not seen.
SaveForm(u) ==
  /\ form[u].pc = "open"
  /\ saves < MaxSaves
  /\ saves' = saves + 1
  /\ \E default \in IF form[u].id \in Collections THEN BOOLEAN ELSE {FALSE} :
       Send([op |-> IF form[u].base.there THEN "patch" ELSE "create", id |-> form[u].id,
             revision |-> form[u].base.revision, content |-> "typed", default |-> default,
             by |-> u, base |-> form[u].base])
  /\ form' = [form EXCEPT ![u].pc = "saving"]
  /\ UNCHANGED <<store, log, wanted, ha, migrated, saved, faults>>

Close(u) ==
  /\ form[u].pc = "open"
  /\ form' = [form EXCEPT ![u] = IdleForm]
  /\ UNCHANGED <<store, log, wanted, ha, migrated, saved, thread, saves, faults>>

-----------------------------------------------------------------------------
(* Answers, and what becomes of them.                                      *)

\* The clients hear an answer, or that the connection broke.
Hear(clients, answer) ==
  /\ form' = [u \in Users |->
       IF u \notin clients THEN form[u]
       ELSE IF answer = "ok" THEN IdleForm ELSE [form[u] EXCEPT !.pc = "open"]]
  /\ ha' = IF Migration \in clients THEN AfterAnswer(ha, answer) ELSE ha

Answer(t) ==
  /\ thread[t].pc = "answer"
  /\ thread' = [thread EXCEPT ![t] = IdleThread]
  /\ Hear({thread[t].for}, thread[t].answer)
  /\ UNCHANGED <<store, log, wanted, migrated, saved, saves, faults>>

\* A client gives up; the handler goes on.
GiveUp(t) ==
  /\ Fault
  /\ thread[t].for # Nobody
  /\ thread' = [thread EXCEPT ![t] =
       IF @.pc = "answer" THEN IdleThread ELSE [@ EXCEPT !.for = Nobody]]
  /\ Hear({thread[t].for}, "unavailable")
  /\ UNCHANGED <<store, log, wanted, migrated, saved, saves>>

\* The Worker ends and starts again.
Crash ==
  /\ Fault
  /\ \E t \in Threads : thread[t] # IdleThread
  /\ thread' = [t \in Threads |-> IdleThread]
  /\ Hear({thread[t].for : t \in Threads}, "unavailable")
  /\ UNCHANGED <<store, log, wanted, migrated, saved, saves>>

Handle(t) == Lookup(t) \/ Transact(t) \/ Answer(t) \/ GiveUp(t)
Migrate == Setup \/ Push \/ PushAgain \/ CannotList \/ Collected \/ Remove \/ Save \/ Restart
Edit(u) == Open(u) \/ SaveForm(u) \/ Close(u)

Next ==
  \/ \E t \in Threads : Handle(t)
  \/ \E u \in Users : Edit(u)
  \/ Migrate
  \/ Crash

Spec == Init /\ [][Next]_vars

-----------------------------------------------------------------------------
Clients == Users \cup {Migration, Nobody}
Rows == [there: BOOLEAN, content: Contents, default: BOOLEAN, revision: Nat, author: Clients]
Requests == [op: {"none", "create", "patch"}, id: Records \cup {Nobody}, revision: Nat,
             content: Contents, default: BOOLEAN, by: Clients, base: Rows]
ThreadStates == [pc: {"idle", "lookup", "transact", "answer"}, request: Requests, for: Clients,
                 again: BOOLEAN, answer: {"none", "ok", "refused", "unavailable"}]
FormStates == [pc: {"closed", "open", "saving"}, id: Records \cup {Nobody}, base: Rows]
MigrationStates == [pc: {"down", "push", "send", "wait", "profiles", "failed", "done"},
                    id: Records \cup {Nobody}, todo: SUBSET Records, request: Requests,
                    tries: 0 .. MaxAttempts, good: BOOLEAN]

\* Every variable has its type; a row that is not there says nothing, and at
\* most one is the default, so that the unique index never refuses a write; a
\* client waits for at most one request.
TypeOK ==
  /\ store \in [Records -> Rows]
  /\ \A r \in Records : IF store[r].there THEN store[r].revision > 0 ELSE store[r] = Absent
  /\ \A r \in Records : store[r].default => r \in Collections
  /\ \A c, d \in Defaults : c = d
  /\ log \in SUBSET (Records \X {"create", "patch"} \X Nat)
  /\ wanted \in SUBSET Collections
  /\ migrated \in BOOLEAN /\ saved \in BOOLEAN /\ (saved => migrated)
  /\ ha \in MigrationStates
  /\ form \in [Users -> FormStates]
  /\ thread \in [Threads -> ThreadStates]
  /\ \A t \in Threads : thread[t].pc # "answer" => thread[t].answer = "none"
  /\ saves \in Nat /\ faults \in Nat
  /\ \A s, t \in Threads : thread[s].for = thread[t].for /\ thread[s].for # Nobody => s = t
  /\ \A t \in Threads : thread[t].for = Migration => ha.pc = "wait"
  /\ \A t \in Threads : thread[t].for \in Users => form[thread[t].for].pc = "saving"

\* When the subentries are gone, every record is in the Worker as the subentry
\* had it, or a user has written it since: the module comment of migration.py.
Kept(r) ==
  \/ store[r].author \in Users
  \/ store[r].content = "held" /\ store[r].default = (r \in wanted)
RemovedMeansStored == migrated => \A r \in Records : Kept(r)

\* The step is that thread t carries out its request.
Carried(t) == thread[t].pc = "transact" /\ thread'[t].pc # "transact" /\ store' # store

\* A collection stops being the default only to make room for another, or
\* because a request on itself says so; never through one that is refused.
DefaultIsHandedOver ==
  [][\A c \in Defaults :
       \/ Defaults' # {}
       \/ \E t \in Threads :
            /\ thread[t].request.id = c /\ ~thread[t].request.default
            /\ Carried(t)]_vars

\* A user's patch replaces exactly the row the form was filled from, also when
\* only the default has gone to another collection since (useCollections.ts:
\* "a concurrent edit is refused by the Worker rather than silently overwritten").
NoBlindOverwrite ==
  [][\A t \in Threads :
       LET request == thread[t].request IN
       Carried(t) /\ request.by \in Users => store[request.id] = request.base]_vars

\* Repeating a request that was carried out is never refused, whatever has
\* happened to the row since.
RepeatIsAccepted == \A t \in Threads : thread[t].again => thread[t].answer \in {"none", "ok"}

-----------------------------------------------------------------------------
(* What the requests in progress rely on; with TypeOK it is inductive.     *)

Pending(t) == thread[t].pc \in {"lookup", "transact"}

\* The row may have been written since it was read, but not unnoticed.
Noticed(r, row) ==
  /\ row.revision <= store[r].revision
  /\ row.revision = store[r].revision => store[r] = row

\* Nothing is written unnoticed to a row that a form shows or a user's request
\* will replace; a request knows its client and its record.
FormsNoticed ==
  \A u \in Users :
    form[u].pc # "closed" => form[u].id \in Records /\ Noticed(form[u].id, form[u].base)

RequestKnown(request, for) ==
  /\ request.id \in Records
  /\ request.default => request.id \in Collections
  /\ request.by \in Users \cup {Migration}
  /\ for \in {request.by, Nobody}

UserRequest(request) ==
  /\ request.op = (IF request.base.there THEN "patch" ELSE "create")
  /\ request.revision = request.base.revision
  /\ Noticed(request.id, request.base)

RequestsInStep ==
  \A t \in Threads : Pending(t) =>
    /\ RequestKnown(thread[t].request, thread[t].for)
    /\ thread[t].request.by \in Users => UserRequest(thread[t].request)

\* A request of the migration says what the subentry says, and is not from the
\* future.
Proper(request) ==
  /\ request.id \in Records /\ request.by = Migration
  /\ request.default = (request.id \in wanted)
  /\ \/ request.op = "create" /\ request.revision = 0
     \/ /\ request.op = "patch" /\ request.revision > 0
        /\ store[request.id].there /\ request.content = "held"
  /\ request.revision <= store[request.id].revision

\* Thread t has a request of the migration on record r to carry out.
Pushes(t, r) ==
  Pending(t) /\ thread[t].request.by = Migration /\ thread[t].request.id = r

PushesAreProper == \A t \in Threads, r \in Records : Pushes(t, r) => Proper(thread[t].request)

\* The log names only revisions that are past.
LogIsPast == \A key \in log : key[3] < store[key[1]].revision

\* A repeated request that was carried out is never begun again.
RepeatsAreLogged ==
  \A t \in Threads : thread[t].again /\ Pending(t) =>
    /\ thread[t].pc = "lookup"
    /\ thread[t].request.by = Migration /\ Key(thread[t].request) \in log

\* The request under way is no older than those left behind on its record, and
\* the answer the migration waits for speaks of it.
PushIsLatest ==
  /\ ha.pc = "send" => ha.tries < MaxAttempts
  /\ ha.pc \in {"send", "wait"} =>
       /\ Proper(ha.request) /\ ha.request.id = ha.id /\ ha.id \in ha.todo
       /\ \A t \in Threads :
            Pushes(t, ha.id) => thread[t].request.revision <= ha.request.revision
  /\ \A t \in Threads : thread[t].for = Migration =>
       /\ Pending(t) => thread[t].request = ha.request
       /\ thread[t].answer = "ok" => Key(ha.request) \in log

Pushing == ha.pc \in {"push", "send", "wait", "profiles"}
IsPushed(r) == migrated \/ (Pushing /\ r \notin ha.todo)

\* No request the migration left behind can touch a record it has pushed.
PushedIsOver ==
  /\ Pushing => ~migrated
  /\ ha.pc = "profiles" => ha.todo = {}
  /\ \A r \in Records, t \in Threads :
       IsPushed(r) /\ Pushes(t, r) => thread[t].request.revision < store[r].revision

\* What the read-back has found stays true, but for what a user writes.
ReadBackStands == ha.pc = "profiles" /\ ha.good => \A c \in Collections : Kept(c)

ConfigurationInv ==
  /\ TypeOK
  /\ FormsNoticed
  /\ RequestsInStep
  /\ PushesAreProper
  /\ LogIsPast
  /\ RepeatsAreLogged
  /\ PushIsLatest
  /\ PushedIsOver
  /\ ReadBackStands
  /\ RemovedMeansStored
  /\ RepeatIsAccepted
=============================================================================
