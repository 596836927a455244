------------------------- MODULE ConfigurationProofs -------------------------
(***************************************************************************)
(* Proofs about Configuration, for every set of records, users and         *)
(* threads and every bound: nothing of the entry is lost when its          *)
(* subentries go, no form overwrites what it has not shown, the default is *)
(* only ever handed over, and a repeated request is accepted.              *)
(***************************************************************************)
EXTENDS Configuration, TLAPS

\* The values that variables are reset to have the types of TypeOK.
LEMMA InitialValues ==
  /\ Absent \in Rows
  /\ NoRequest \in Requests
  /\ IdleForm \in FormStates
  /\ IdleThread \in ThreadStates
  /\ NotStarted \in MigrationStates
  /\ Failed \in MigrationStates
<1>1. Absent \in Rows /\ NoRequest \in Requests
  BY DEF Absent, Rows, Contents, Clients, NoRequest, Requests
<1>2. IdleForm \in FormStates /\ IdleThread \in ThreadStates
  BY <1>1 DEF IdleForm, FormStates, IdleThread, ThreadStates, Clients
<1>3. NotStarted \in MigrationStates
  BY <1>1, ConfigurationAssumption DEF NotStarted, MigrationStates
<1>4. Failed \in MigrationStates
  BY <1>3 DEF Failed, MigrationStates
<1> QED BY <1>1, <1>2, <1>3, <1>4

-----------------------------------------------------------------------------
(* A transaction, seen from the rows.                                      *)

\* What a transaction does to a row: nothing, or the revision grows; a row that
\* was there stays.
Grown(r) ==
  /\ store'[r] = store[r] \/ store'[r].revision > store[r].revision
  /\ store[r].there => store'[r].there

\* The row a request is for, and any other row, once it has been carried out.
Replaced(request) ==
  LET row == store'[request.id] IN
  /\ row.there = TRUE /\ row.default = request.default /\ row.author = request.by
  /\ row.revision = store[request.id].revision + 1
Beside(r, request) ==
  \/ store'[r] = store[r] /\ ~(request.default /\ store[r].default)
  \/ /\ request.default /\ store[r].default
     /\ store'[r].there = TRUE /\ store'[r].default = FALSE /\ store'[r].author = request.by
     /\ store'[r].revision = store[r].revision + 1

\* What a request that applies makes of each row.
LEMMA RowsWritten ==
  ASSUME TypeOK, NEW request \in Requests, request.id \in Records,
         request.default => request.id \in Collections,
         store' = Written(request)
  PROVE  /\ store' \in [Records -> Rows]
         /\ Replaced(request)
         /\ \A r \in Records \ {request.id} : Beside(r, request)
         /\ \A r \in Records : Grown(r)
<1> DEFINE id == request.id
<1>1. Demoted(store, request)[id] = store[id]
  BY DEF Demoted
<1>2. store' = [Demoted(store, request) EXCEPT ![id] =
                  Row(request.content, request.default, store[id].revision + 1, request.by)]
  BY <1>1 DEF Written, Demoted
<1>3. store'[id] = Row(request.content, request.default, store[id].revision + 1, request.by)
  BY <1>2 DEF Demoted
<1>4. ASSUME NEW r \in Records \ {id}
      PROVE  store'[r] = IF request.default /\ store[r].default
                         THEN Row(store[r].content, FALSE, store[r].revision + 1, request.by)
                         ELSE store[r]
  BY <1>2 DEF Demoted
<1>5. store[id] \in Rows /\ store'[id] \in Rows
  BY <1>3 DEF TypeOK, Rows, Row, Requests
<1>6. ASSUME NEW r \in Records \ {id}
      PROVE  store'[r] \in Rows /\ Grown(r) /\ Beside(r, request)
  <2>1. store[r] \in Rows BY DEF TypeOK
  <2>2. CASE request.default /\ store[r].default
    <3>1. store'[r] = Row(store[r].content, FALSE, store[r].revision + 1, request.by)
      BY <1>4, <2>2
    <3>2. store'[r] \in Rows /\ Grown(r) BY <2>1, <3>1 DEF Rows, Requests, Row, Grown
    <3>3. Beside(r, request) BY <2>2, <3>1 DEF Row, Beside
    <3> QED BY <3>2, <3>3
  <2>3. CASE ~(request.default /\ store[r].default)
    <3>1. store'[r] = store[r] BY <1>4, <2>3
    <3> QED BY <2>1, <2>3, <3>1 DEF Grown, Beside
  <2> QED BY <2>2, <2>3
<1>7. store' \in [Records -> Rows]
  BY <1>2, <1>5, <1>6 DEF Demoted
<1>8. Grown(id)
  BY <1>3, <1>5 DEF Grown, Row, Rows
<1>9. Replaced(request) BY <1>3 DEF Replaced, Row
<1> QED BY <1>6, <1>7, <1>8, <1>9

-----------------------------------------------------------------------------
(* The invariant: first the steps that leave rows, forms and requests      *)
(* alone.                                                                  *)

LEMMA QuietStep ==
  ASSUME ConfigurationInv, UNCHANGED <<store, log, wanted, form, thread>>
  PROVE  /\ FormsNoticed' /\ RequestsInStep' /\ PushesAreProper'
         /\ LogIsPast' /\ RepeatsAreLogged' /\ RepeatIsAccepted'
<1>1. FormsNoticed' BY DEF ConfigurationInv, FormsNoticed, Noticed
<1>2. RequestsInStep'
  BY DEF ConfigurationInv, RequestsInStep, RequestKnown, UserRequest, Noticed, Pending
<1>3. PushesAreProper' BY DEF ConfigurationInv, PushesAreProper, Pushes, Pending, Proper
<1>4. LogIsPast' /\ RepeatsAreLogged' /\ RepeatIsAccepted'
  BY DEF ConfigurationInv, LogIsPast, RepeatsAreLogged, RepeatIsAccepted, Pending
<1> QED BY <1>1, <1>2, <1>3, <1>4

\* Type correctness of a step of the migration that leaves the rest alone.
LEMMA MigrationTyped ==
  ASSUME TypeOK, UNCHANGED <<store, log, wanted, form, thread, saves>>,
         ha' \in MigrationStates, faults' \in Nat,
         migrated' \in BOOLEAN, saved' \in BOOLEAN, saved' => migrated',
         \A t \in Threads : thread[t].for = Migration => ha'.pc = "wait"
  PROVE  TypeOK'
BY DEF TypeOK, Defaults

LEMMA SetupInv == ASSUME ConfigurationInv, Setup PROVE ConfigurationInv'
<1> USE DEF Setup
<1>1. TypeOK'
  <2>1. ha' \in MigrationStates
    <3>1. ha \in MigrationStates BY DEF ConfigurationInv, TypeOK
    <3>2. CASE migrated BY <3>1, <3>2 DEF MigrationStates
    <3>3. CASE ~migrated BY <3>1, <3>3 DEF MigrationStates
    <3> QED BY <3>2, <3>3
  <2> QED BY <2>1, MigrationTyped DEF ConfigurationInv, TypeOK
<1>2. PushIsLatest' /\ PushedIsOver' /\ ReadBackStands'
  BY DEF ConfigurationInv, TypeOK, MigrationStates, PushIsLatest, PushedIsOver, Pushing, IsPushed,
         Pushes, Pending, ReadBackStands
<1>3. RemovedMeansStored' BY DEF ConfigurationInv, RemovedMeansStored, Kept
<1> QED BY <1>1, <1>2, <1>3, QuietStep DEF ConfigurationInv

LEMMA CannotListInv == ASSUME ConfigurationInv, CannotList PROVE ConfigurationInv'
<1> USE DEF CannotList
<1>1. TypeOK'
  BY InitialValues, MigrationTyped DEF ConfigurationInv, TypeOK, Fault
<1>2. PushIsLatest' /\ PushedIsOver' /\ ReadBackStands'
  BY DEF ConfigurationInv, TypeOK, PushIsLatest, PushedIsOver, Pushing, IsPushed, Pushes, Pending,
         ReadBackStands, Failed, NotStarted
<1>3. RemovedMeansStored' BY DEF ConfigurationInv, RemovedMeansStored, Kept
<1> QED BY <1>1, <1>2, <1>3, QuietStep DEF ConfigurationInv

LEMMA CollectedInv == ASSUME ConfigurationInv, Collected PROVE ConfigurationInv'
<1> USE DEF Collected
<1>1. TypeOK'
  <2>1. ha' \in MigrationStates BY DEF ConfigurationInv, TypeOK, MigrationStates
  <2> QED BY <2>1, MigrationTyped DEF ConfigurationInv, TypeOK
<1>2. ha' = [ha EXCEPT !.pc = "profiles", !.good = \A c \in Collections : Matches(c)]
      /\ ha \in MigrationStates
  BY DEF ConfigurationInv, TypeOK
<1>3. PushIsLatest' /\ PushedIsOver'
  BY <1>2 DEF ConfigurationInv, TypeOK, MigrationStates, PushIsLatest, PushedIsOver, Pushing,
              IsPushed, Pushes, Pending
<1>4. ReadBackStands' BY <1>2 DEF ReadBackStands, Kept, Matches, MigrationStates
<1>5. RemovedMeansStored' BY DEF ConfigurationInv, RemovedMeansStored, Kept
<1> QED BY <1>1, <1>3, <1>4, <1>5, QuietStep DEF ConfigurationInv

LEMMA RemoveInv == ASSUME ConfigurationInv, Remove PROVE ConfigurationInv'
<1> USE DEF Remove
<1>1. CASE ha.good /\ \A p \in Profiles : Matches(p)
  <2>1. migrated' = TRUE /\ ha' = [NotStarted EXCEPT !.pc = "done"] BY <1>1
  <2>2. TypeOK'
    <3>1. ha' \in MigrationStates BY <2>1, InitialValues DEF MigrationStates
    <3> QED BY <2>1, <3>1, MigrationTyped DEF ConfigurationInv, TypeOK
  <2>3. PushIsLatest' BY <2>1 DEF ConfigurationInv, TypeOK, PushIsLatest, NotStarted
  <2>4. PushedIsOver'
    BY <2>1 DEF ConfigurationInv, PushedIsOver, Pushing, IsPushed, Pushes, Pending, NotStarted
  <2>5. ReadBackStands' BY <2>1 DEF ReadBackStands, NotStarted
  <2>6. RemovedMeansStored'
    BY <1>1 DEF ConfigurationInv, RemovedMeansStored, ReadBackStands, Kept, Matches, Records
  <2> QED BY <2>2, <2>3, <2>4, <2>5, <2>6, QuietStep DEF ConfigurationInv
<1>2. CASE ~(ha.good /\ \A p \in Profiles : Matches(p))
  <2>1. migrated' = migrated /\ ha' = Failed BY <1>2
  <2>2. TypeOK' BY <2>1, InitialValues, MigrationTyped DEF ConfigurationInv, TypeOK
  <2>3. PushIsLatest' BY <2>1 DEF ConfigurationInv, TypeOK, PushIsLatest, Failed, NotStarted
  <2>4. PushedIsOver'
    BY <2>1 DEF ConfigurationInv, PushedIsOver, Pushing, IsPushed, Pushes, Pending, Failed, NotStarted
  <2>5. ReadBackStands' BY <2>1 DEF ReadBackStands, Failed, NotStarted
  <2>6. RemovedMeansStored' BY <2>1 DEF ConfigurationInv, RemovedMeansStored, Kept
  <2> QED BY <2>2, <2>3, <2>4, <2>5, <2>6, QuietStep DEF ConfigurationInv
<1> QED BY <1>1, <1>2

LEMMA SaveInv == ASSUME ConfigurationInv, Save PROVE ConfigurationInv'
<1> USE DEF Save
<1>1. TypeOK' BY MigrationTyped DEF ConfigurationInv, TypeOK
<1>2. PushIsLatest' /\ PushedIsOver' /\ ReadBackStands' /\ RemovedMeansStored'
  BY DEF ConfigurationInv, PushIsLatest, PushedIsOver, Pushing, IsPushed, Pushes, Pending, Proper,
         ReadBackStands, RemovedMeansStored, Kept
<1> QED BY <1>1, <1>2, QuietStep DEF ConfigurationInv

-----------------------------------------------------------------------------
(* Forms, and the requests they and the migration send.                    *)

LEMMA OpenInv == ASSUME ConfigurationInv, NEW u \in Users, Open(u) PROVE ConfigurationInv'
<1> USE DEF Open
<1>1. PICK r \in Records :
        form' = [form EXCEPT ![u] = [pc |-> "open", id |-> r, base |-> store[r]]]
  OBVIOUS
<1>2. TypeOK'
  <2>1. form' \in [Users -> FormStates] BY <1>1 DEF ConfigurationInv, TypeOK, FormStates
  <2> QED BY <1>1, <2>1 DEF ConfigurationInv, TypeOK, Defaults
<1>3. FormsNoticed'
  <2> SUFFICES ASSUME NEW v \in Users, form'[v].pc # "closed"
               PROVE  (form[v].id \in Records /\ Noticed(form[v].id, form[v].base))'
    BY DEF FormsNoticed
  <2>1. store[r] \in Rows BY DEF ConfigurationInv, TypeOK
  <2>2. CASE v = u
    BY <1>1, <2>1, <2>2 DEF ConfigurationInv, TypeOK, Noticed, Rows
  <2>3. CASE v # u
    BY <1>1, <2>3 DEF ConfigurationInv, TypeOK, FormsNoticed, Noticed
  <2> QED BY <2>2, <2>3
<1>4. RequestsInStep' /\ PushesAreProper' /\ LogIsPast' /\ RepeatsAreLogged' /\ RepeatIsAccepted'
  BY DEF ConfigurationInv, RequestsInStep, RequestKnown, UserRequest, Noticed, Pending,
         PushesAreProper, Pushes, Proper, LogIsPast, RepeatsAreLogged, RepeatIsAccepted
<1>5. PushIsLatest' /\ PushedIsOver' /\ ReadBackStands' /\ RemovedMeansStored'
  BY DEF ConfigurationInv, PushIsLatest, PushedIsOver, Pushing, IsPushed, Pushes, Pending, Proper,
         ReadBackStands, RemovedMeansStored, Kept
<1> QED BY <1>2, <1>3, <1>4, <1>5 DEF ConfigurationInv

LEMMA CloseInv == ASSUME ConfigurationInv, NEW u \in Users, Close(u) PROVE ConfigurationInv'
<1> USE DEF Close
<1>1. TypeOK' BY InitialValues DEF ConfigurationInv, TypeOK, Defaults
<1>2. FormsNoticed' BY DEF ConfigurationInv, TypeOK, FormsNoticed, Noticed, IdleForm
<1>3. RequestsInStep' /\ PushesAreProper' /\ LogIsPast' /\ RepeatsAreLogged' /\ RepeatIsAccepted'
  BY DEF ConfigurationInv, RequestsInStep, RequestKnown, UserRequest, Noticed, Pending,
         PushesAreProper, Pushes, Proper, LogIsPast, RepeatsAreLogged, RepeatIsAccepted
<1>4. PushIsLatest' /\ PushedIsOver' /\ ReadBackStands' /\ RemovedMeansStored'
  BY DEF ConfigurationInv, PushIsLatest, PushedIsOver, Pushing, IsPushed, Pushes, Pending, Proper,
         ReadBackStands, RemovedMeansStored, Kept
<1> QED BY <1>1, <1>2, <1>3, <1>4 DEF ConfigurationInv

\* What a new request is to the Worker.
LEMMA Sent ==
  ASSUME TypeOK, NEW request \in Requests, Send(request), request.by \in Users \cup {Migration}
  PROVE  \E t \in Threads :
           /\ thread[t] = IdleThread
           /\ thread' \in [Threads -> ThreadStates]
           /\ \A s \in Threads \ {t} : thread'[s] = thread[s]
           /\ thread'[t].request = request /\ thread'[t].for = request.by
           /\ thread'[t].answer = "none"
           /\ thread'[t].pc = IF request.by = Migration THEN "lookup" ELSE "transact"
           /\ thread'[t].again = (request.by = Migration /\ Key(request) \in log)
<1>1. PICK t \in Threads :
        thread[t] = IdleThread /\ thread' = [thread EXCEPT ![t] = Handled(request)]
  BY DEF Send
<1>2. Handled(request) \in ThreadStates
  BY DEF Handled, ThreadStates, Clients
<1>3. thread' \in [Threads -> ThreadStates] /\ thread'[t] = Handled(request)
      /\ \A s \in Threads \ {t} : thread'[s] = thread[s]
  BY <1>1, <1>2 DEF TypeOK
<1>4. LET new == Handled(request) IN
      /\ new.request = request /\ new.for = request.by /\ new.answer = "none"
      /\ new.pc = IF request.by = Migration THEN "lookup" ELSE "transact"
      /\ new.again = (request.by = Migration /\ Key(request) \in log)
  BY DEF Handled
<1> QED BY <1>1, <1>3, <1>4

\* A request that is sent: what holds of all requests needs a look at this one
\* alone.
LEMMA SentKeeps ==
  ASSUME ConfigurationInv, UNCHANGED <<store, log, wanted, migrated>>,
         NEW request \in Requests, NEW t \in Threads,
         thread[t] = IdleThread, thread' \in [Threads -> ThreadStates],
         \A s \in Threads \ {t} : thread'[s] = thread[s],
         thread'[t].request = request, thread'[t].for = request.by, thread'[t].answer = "none",
         thread'[t].pc = (IF request.by = Migration THEN "lookup" ELSE "transact"),
         thread'[t].again = (request.by = Migration /\ Key(request) \in log)
  PROVE  /\ RequestKnown(request, request.by)
              /\ (request.by \in Users => UserRequest(request)) => RequestsInStep'
         /\ (request.by = Migration => Proper(request)) => PushesAreProper'
         /\ RepeatsAreLogged' /\ RepeatIsAccepted' /\ LogIsPast'
<1>1. ASSUME RequestKnown(request, request.by), request.by \in Users => UserRequest(request)
      PROVE  RequestsInStep'
  <2> SUFFICES ASSUME NEW s \in Threads, Pending(s)'
               PROVE  (/\ RequestKnown(thread[s].request, thread[s].for)
                       /\ thread[s].request.by \in Users => UserRequest(thread[s].request))'
    BY DEF RequestsInStep
  <2>1. CASE s = t
    BY <1>1, <2>1 DEF RequestKnown, UserRequest, Noticed
  <2>2. CASE s # t
    BY <2>2 DEF ConfigurationInv, RequestsInStep, RequestKnown, UserRequest, Noticed, Pending
  <2> QED BY <2>1, <2>2
<1>2. ASSUME request.by = Migration => Proper(request) PROVE PushesAreProper'
  <2> SUFFICES ASSUME NEW s \in Threads, NEW r \in Records, Pushes(s, r)'
               PROVE  Proper(thread[s].request)'
    BY DEF PushesAreProper
  <2>1. CASE s = t BY <1>2, <2>1 DEF Pushes, Proper
  <2>2. CASE s # t BY <2>2 DEF ConfigurationInv, PushesAreProper, Pushes, Pending, Proper
  <2> QED BY <2>1, <2>2
<1>3. RepeatsAreLogged'
  <2> SUFFICES ASSUME NEW s \in Threads, (thread[s].again /\ Pending(s))'
               PROVE  (/\ thread[s].pc = "lookup"
                       /\ thread[s].request.by = Migration /\ Key(thread[s].request) \in log)'
    BY DEF RepeatsAreLogged
  <2>1. CASE s = t BY <2>1 DEF Key
  <2>2. CASE s # t BY <2>2 DEF ConfigurationInv, RepeatsAreLogged, Pending, Key
  <2> QED BY <2>1, <2>2
<1>4. RepeatIsAccepted' /\ LogIsPast'
  BY DEF ConfigurationInv, RepeatIsAccepted, LogIsPast
<1> QED BY <1>1, <1>2, <1>3, <1>4

LEMMA SaveFormInv == ASSUME ConfigurationInv, NEW u \in Users, SaveForm(u) PROVE ConfigurationInv'
<1> USE DEF SaveForm
<1>1. PICK default \in (IF form[u].id \in Collections THEN BOOLEAN ELSE {FALSE}) :
        Send([op |-> IF form[u].base.there THEN "patch" ELSE "create", id |-> form[u].id,
              revision |-> form[u].base.revision, content |-> "typed", default |-> default,
              by |-> u, base |-> form[u].base])
  OBVIOUS
<1> DEFINE request ==
      [op |-> IF form[u].base.there THEN "patch" ELSE "create", id |-> form[u].id,
       revision |-> form[u].base.revision, content |-> "typed", default |-> default,
       by |-> u, base |-> form[u].base]
<1>2. form[u] \in FormStates /\ form[u].pc = "open" /\ form[u].id \in Records
  BY DEF ConfigurationInv, TypeOK, FormsNoticed
<1>3. request \in Requests
  BY <1>2 DEF FormStates, Rows, Requests, Contents, Clients
<1>4. request.id \in Records /\ request.by = u /\ u # Migration /\ u # Nobody
      /\ (request.default => request.id \in Collections) /\ UserRequest(request)
  BY <1>2, ConfigurationAssumption DEF ConfigurationInv, FormsNoticed, UserRequest
<1> HIDE DEF request
<1>5. PICK t \in Threads :
        /\ thread[t] = IdleThread
        /\ thread' \in [Threads -> ThreadStates]
        /\ \A s \in Threads \ {t} : thread'[s] = thread[s]
        /\ thread'[t].request = request /\ thread'[t].for = request.by
        /\ thread'[t].answer = "none"
        /\ thread'[t].pc = IF request.by = Migration THEN "lookup" ELSE "transact"
        /\ thread'[t].again = (request.by = Migration /\ Key(request) \in log)
  BY <1>1, <1>3, <1>4, Sent DEF ConfigurationInv, request
<1>6. form' = [form EXCEPT ![u].pc = "saving"] /\ form' \in [Users -> FormStates]
  BY <1>2 DEF ConfigurationInv, TypeOK, FormStates
<1>7. RequestsInStep' /\ PushesAreProper' /\ RepeatsAreLogged' /\ RepeatIsAccepted' /\ LogIsPast'
  <2>1. RequestKnown(request, request.by) BY <1>4 DEF RequestKnown
  <2> QED BY <1>3, <1>4, <1>5, <2>1, SentKeeps
<1>8. TypeOK'
  <2>1. \A s \in Threads : thread[s].for # u
    BY <1>2 DEF ConfigurationInv, TypeOK
  <2>2. \A s \in Threads : thread'[s].for = IF s = t THEN u ELSE thread[s].for
    BY <1>4, <1>5
  <2>3. \A v \in Users : form'[v].pc = IF v = u THEN "saving" ELSE form[v].pc
    BY <1>6 DEF ConfigurationInv, TypeOK, FormStates
  <2>4. UNCHANGED <<store, log, wanted, ha, migrated, saved, faults>> /\ saves' \in Nat
    BY DEF ConfigurationInv, TypeOK
  <2>5. \A s \in Threads : thread'[s].for = Migration => ha'.pc = "wait"
    BY <1>4, <2>2, <2>4 DEF ConfigurationInv, TypeOK
  <2>6. \A s \in Threads : thread'[s].for \in Users => form'[thread'[s].for].pc = "saving"
    BY <2>2, <2>3 DEF ConfigurationInv, TypeOK
  <2>7. \A s, v \in Threads : thread'[s].for = thread'[v].for /\ thread'[s].for # Nobody => s = v
    BY <2>1, <2>2 DEF ConfigurationInv, TypeOK
  <2> QED BY <1>5, <1>6, <2>4, <2>5, <2>6, <2>7 DEF ConfigurationInv, TypeOK, Defaults
<1>9. FormsNoticed'
  BY <1>6 DEF ConfigurationInv, TypeOK, FormStates, FormsNoticed, Noticed
<1>10. \A s \in Threads, r \in Records : Pushes(s, r)' => Pushes(s, r) /\ s # t
  BY <1>4, <1>5 DEF Pushes, Pending
<1>11. PushIsLatest' /\ PushedIsOver'
  <2>1. UNCHANGED <<store, log, wanted, ha, migrated>> OBVIOUS
  <2>2. \A s \in Threads : thread'[s].for = Migration => thread'[s] = thread[s]
    BY <1>4, <1>5
  <2>3. \A s \in Threads, r \in Records : Pushes(s, r)' => thread'[s] = thread[s]
    BY <1>5, <1>10
  <2>4. ha.pc \in {"send", "wait"} => ha.id \in Records
    BY DEF ConfigurationInv, PushIsLatest, Proper
  <2>5. PushIsLatest'
    BY <2>1, <2>2, <2>3, <2>4, <1>10 DEF ConfigurationInv, PushIsLatest, Proper, Pending
  <2>6. PushedIsOver'
    BY <2>1, <2>3, <1>10 DEF ConfigurationInv, PushedIsOver, Pushing, IsPushed
  <2> QED BY <2>5, <2>6
<1>12. ReadBackStands' /\ RemovedMeansStored'
  BY DEF ConfigurationInv, ReadBackStands, RemovedMeansStored, Kept
<1> QED BY <1>7, <1>8, <1>9, <1>11, <1>12 DEF ConfigurationInv

\* The migration sends a request, for the first time or again.
LEMMA PushSent ==
  ASSUME ConfigurationInv, UNCHANGED <<store, log, wanted, migrated, saved, form, saves, faults>>,
         NEW request \in Requests, Send(request), Proper(request),
         ha.pc \in {"push", "send"}, ha' \in MigrationStates, ha'.pc = "wait",
         ha'.id = request.id, ha'.request = request, ha'.todo = ha.todo, request.id \in ha.todo,
         \A s \in Threads :
           Pushes(s, request.id) => thread[s].request.revision <= request.revision
  PROVE  ConfigurationInv'
<1>1. /\ request.by = Migration /\ request.id \in Records
      /\ Migration \notin Users /\ Migration # Nobody
      /\ (request.default => request.id \in Collections)
      /\ RequestKnown(request, request.by)
  BY ConfigurationAssumption DEF Proper, ConfigurationInv, TypeOK, RequestKnown
<1>2. PICK t \in Threads :
        /\ thread[t] = IdleThread
        /\ thread' \in [Threads -> ThreadStates]
        /\ \A s \in Threads \ {t} : thread'[s] = thread[s]
        /\ thread'[t].request = request /\ thread'[t].for = request.by
        /\ thread'[t].answer = "none"
        /\ thread'[t].pc = IF request.by = Migration THEN "lookup" ELSE "transact"
        /\ thread'[t].again = (request.by = Migration /\ Key(request) \in log)
  BY <1>1, Sent DEF ConfigurationInv
<1>3. RequestsInStep' /\ PushesAreProper' /\ RepeatsAreLogged' /\ RepeatIsAccepted' /\ LogIsPast'
  BY <1>1, <1>2, SentKeeps
<1>4. FormsNoticed' BY DEF ConfigurationInv, FormsNoticed, Noticed
<1>5. \A s \in Threads : thread[s].for # Migration
  BY DEF ConfigurationInv, TypeOK
<1>6. \A s \in Threads : thread'[s].for = IF s = t THEN Migration ELSE thread[s].for
  BY <1>1, <1>2
<1>7. TypeOK'
  <2>1. \A s \in Threads : thread'[s].for = Migration => ha'.pc = "wait" OBVIOUS
  <2>2. \A s \in Threads : thread'[s].for \in Users => form'[thread'[s].for].pc = "saving"
    BY <1>1, <1>6 DEF ConfigurationInv, TypeOK
  <2>3. \A s, v \in Threads : thread'[s].for = thread'[v].for /\ thread'[s].for # Nobody => s = v
    BY <1>5, <1>6 DEF ConfigurationInv, TypeOK
  <2> QED BY <1>2, <2>1, <2>2, <2>3 DEF ConfigurationInv, TypeOK, Defaults
<1>8. \A s \in Threads, r \in Records :
        Pushes(s, r)' => IF s = t THEN r = request.id ELSE Pushes(s, r) /\ thread'[s] = thread[s]
  BY <1>2 DEF Pushes, Pending
<1>9. PushIsLatest'
  <2>1. \A s \in Threads : thread'[s].for = Migration => s = t BY <1>5, <1>6
  <2>2. thread'[t].request = ha'.request /\ thread'[t].answer = "none" BY <1>2
  <2>3. ASSUME NEW s \in Threads, Pushes(s, request.id)'
        PROVE  thread'[s].request.revision <= request.revision
    <3>1. CASE s = t BY <1>2, <3>1 DEF Requests
    <3>2. CASE s # t BY <1>1, <1>8, <2>3, <3>2
    <3> QED BY <3>1, <3>2
  <2>4. Proper(ha.request)' BY DEF Proper
  <2> QED BY <2>1, <2>2, <2>3, <2>4 DEF PushIsLatest
<1>10. PushedIsOver'
  BY <1>8 DEF ConfigurationInv, PushedIsOver, Pushing, IsPushed
<1>11. ReadBackStands' /\ RemovedMeansStored'
  BY DEF ConfigurationInv, ReadBackStands, RemovedMeansStored, Kept
<1> QED BY <1>3, <1>4, <1>7, <1>9, <1>10, <1>11 DEF ConfigurationInv

LEMMA PushAgainInv == ASSUME ConfigurationInv, PushAgain PROVE ConfigurationInv'
<1> USE DEF PushAgain
<1>1. ha \in MigrationStates /\ ha.request \in Requests
  BY DEF ConfigurationInv, TypeOK, MigrationStates
<1>2. ha' \in MigrationStates /\ ha'.pc = "wait" /\ ha'.id = ha.id /\ ha'.request = ha.request
      /\ ha'.todo = ha.todo
  <2>1. ha.tries + 1 \in 0 .. MaxAttempts
    BY <1>1, ConfigurationAssumption DEF ConfigurationInv, PushIsLatest, MigrationStates
  <2> QED BY <1>1, <2>1 DEF MigrationStates
<1>3. /\ Proper(ha.request) /\ ha.request.id = ha.id /\ ha.id \in ha.todo
      /\ \A s \in Threads :
           Pushes(s, ha.request.id) => thread[s].request.revision <= ha.request.revision
  BY DEF ConfigurationInv, PushIsLatest
<1> QED BY <1>1, <1>2, <1>3, PushSent

LEMMA PushInv == ASSUME ConfigurationInv, Push PROVE ConfigurationInv'
<1> USE DEF Push
<1>1. PICK r \in ha.todo :
        /\ Send(PushOf(r))
        /\ ha' = [ha EXCEPT !.pc = "wait", !.id = r, !.tries = 1, !.request = PushOf(r)]
  OBVIOUS
<1>2. ha \in MigrationStates /\ r \in Records /\ store[r] \in Rows
  BY DEF ConfigurationInv, TypeOK, MigrationStates
<1>3. PushOf(r) \in Requests
  BY <1>2, InitialValues DEF PushOf, Requests, Clients, Contents, Rows
<1>4. Proper(PushOf(r))
  BY <1>2 DEF PushOf, Proper, ConfigurationInv, TypeOK, Absent, Rows
<1>5. PushOf(r).id = r /\ PushOf(r).revision = store[r].revision BY DEF PushOf
<1>6. ha' \in MigrationStates /\ ha'.pc = "wait" /\ ha'.id = r /\ ha'.request = PushOf(r)
      /\ ha'.todo = ha.todo
  <2>1. 1 \in 0 .. MaxAttempts BY ConfigurationAssumption
  <2> QED BY <1>1, <1>2, <1>3, <2>1 DEF MigrationStates
<1>7. \A s \in Threads : Pushes(s, r) => thread[s].request.revision <= store[r].revision
  BY <1>2 DEF ConfigurationInv, PushesAreProper, Proper, Pushes
<1> QED BY <1>1, <1>3, <1>4, <1>5, <1>6, <1>7, PushSent

-----------------------------------------------------------------------------
(* Steps that begin no request and touch no row: an answer is found, given *)
(* or lost.                                                                *)

\* What thread s has afterwards: its request as before or none, its client or
\* nobody.
Remains(s) ==
  /\ thread'[s].for \in {thread[s].for, Nobody}
  /\ Pending(s)' => Pending(s) /\ thread'[s].request = thread[s].request
  /\ Pending(s)' /\ thread'[s].again => thread[s].again /\ thread'[s].pc = thread[s].pc
  /\ thread'[s].again => thread'[s].answer \in {"none", "ok"}

LEMMA FewerRequests ==
  ASSUME ConfigurationInv, UNCHANGED <<store, log, wanted>>, \A s \in Threads : Remains(s)
  PROVE  /\ RequestsInStep' /\ PushesAreProper' /\ LogIsPast'
         /\ RepeatsAreLogged' /\ RepeatIsAccepted'
         /\ \A s \in Threads, r \in Records :
              Pushes(s, r)' => Pushes(s, r) /\ thread'[s].request = thread[s].request
<1>1. RequestsInStep'
  <2> SUFFICES ASSUME NEW s \in Threads, Pending(s)'
               PROVE  (/\ RequestKnown(thread[s].request, thread[s].for)
                       /\ thread[s].request.by \in Users => UserRequest(thread[s].request))'
    BY DEF RequestsInStep
  <2>1. Remains(s) /\ RequestKnown(thread[s].request, thread[s].for)
        /\ (thread[s].request.by \in Users => UserRequest(thread[s].request))
    BY DEF ConfigurationInv, RequestsInStep, Remains
  <2> QED BY <2>1 DEF Remains, RequestKnown, UserRequest, Noticed
<1>2. \A s \in Threads, r \in Records :
        Pushes(s, r)' => Pushes(s, r) /\ thread'[s].request = thread[s].request
  BY DEF Remains, Pushes
<1>3. PushesAreProper' BY <1>2 DEF ConfigurationInv, PushesAreProper, Proper
<1>4. LogIsPast' BY DEF ConfigurationInv, LogIsPast
<1>5. RepeatsAreLogged' BY DEF ConfigurationInv, RepeatsAreLogged, Remains, Key
<1>6. RepeatIsAccepted' BY DEF RepeatIsAccepted, Remains
<1> QED BY <1>1, <1>2, <1>3, <1>4, <1>5, <1>6

LEMMA FewerTyped ==
  ASSUME TypeOK, UNCHANGED <<store, log, wanted>>, thread' \in [Threads -> ThreadStates],
         \A s \in Threads : thread'[s].pc # "answer" => thread'[s].answer = "none",
         \A s \in Threads : thread'[s].for \in {thread[s].for, Nobody},
         ha' \in MigrationStates, form' \in [Users -> FormStates],
         \A s \in Threads : thread'[s].for = Migration => ha'.pc = "wait",
         \A s \in Threads : thread'[s].for \in Users => form'[thread'[s].for].pc = "saving",
         migrated' \in BOOLEAN, saved' \in BOOLEAN, saved' => migrated',
         saves' \in Nat, faults' \in Nat
  PROVE  TypeOK'
BY DEF TypeOK, Defaults

LEMMA RestartInv == ASSUME ConfigurationInv, Restart PROVE ConfigurationInv'
<1> USE DEF Restart
<1>1. thread' = [t \in Threads |-> IF thread[t].for = Migration
                                   THEN [thread[t] EXCEPT !.for = Nobody] ELSE thread[t]]
      /\ thread \in [Threads -> ThreadStates]
  BY DEF ConfigurationInv, TypeOK
<1>2. ASSUME NEW t \in Threads
      PROVE  /\ thread'[t] \in ThreadStates /\ Remains(t)
             /\ thread'[t].for # Migration
             /\ thread'[t].pc # "answer" => thread'[t].answer = "none"
             /\ thread'[t].for \in Users => thread'[t].for = thread[t].for
  <2>1. thread[t] \in ThreadStates BY <1>1
  <2>2. /\ thread[t].again => thread[t].answer \in {"none", "ok"}
        /\ thread[t].pc # "answer" => thread[t].answer = "none"
    BY DEF ConfigurationInv, TypeOK, RepeatIsAccepted
  <2>3. CASE thread[t].for = Migration
    <3>1. thread'[t] = [thread[t] EXCEPT !.for = Nobody] BY <1>1, <2>3
    <3> QED BY <2>1, <2>2, <3>1, ConfigurationAssumption
            DEF ThreadStates, Clients, Remains, Pending
  <2>4. CASE thread[t].for # Migration
    <3>1. thread'[t] = thread[t] BY <1>1, <2>4
    <3> QED BY <2>1, <2>2, <2>4, <3>1 DEF Remains, Pending
  <2> QED BY <2>3, <2>4
<1>3. TypeOK'
  <2>1. thread' \in [Threads -> ThreadStates] BY <1>1, <1>2
  <2>2. \A t \in Threads : thread'[t].for \in {thread[t].for, Nobody} BY <1>2 DEF Remains
  <2>3. form' = form /\ ha' \in MigrationStates /\ faults' \in Nat
    BY InitialValues DEF ConfigurationInv, TypeOK, Fault
  <2> QED BY <1>2, <2>1, <2>2, <2>3, FewerTyped DEF ConfigurationInv, TypeOK
<1>4. FormsNoticed' BY DEF ConfigurationInv, FormsNoticed, Noticed
<1>5. PushIsLatest' BY <1>2 DEF PushIsLatest, NotStarted
<1>6. PushedIsOver'
  BY <1>2, FewerRequests
     DEF ConfigurationInv, TypeOK, PushedIsOver, Pushing, IsPushed, NotStarted
<1>7. ReadBackStands' BY DEF ReadBackStands, NotStarted
<1>8. RemovedMeansStored' BY DEF ConfigurationInv, TypeOK, RemovedMeansStored, Kept
<1> QED BY <1>2, <1>3, <1>4, <1>5, <1>6, <1>7, <1>8, FewerRequests DEF ConfigurationInv

\* A handler that has its answer.
LEMMA Over ==
  ASSUME ConfigurationInv, NEW t \in Threads, NEW answer \in {"ok", "refused", "unavailable"},
         Done(t, answer), thread[t].again => answer = "ok"
  PROVE  /\ thread' \in [Threads -> ThreadStates]
         /\ \A s \in Threads \ {t} : thread'[s] = thread[s]
         /\ ~Pending(t)' /\ Remains(t) /\ thread'[t].for = thread[t].for
         /\ thread'[t].answer \in {"none", answer}
         /\ thread'[t].pc # "answer" => thread'[t].answer = "none"
<1> DEFINE new == IF thread[t].for = Nobody THEN IdleThread
                  ELSE [IdleThread EXCEPT !.pc = "answer", !.answer = answer,
                                          !.for = thread[t].for, !.again = thread[t].again]
<1>1. thread' = [thread EXCEPT ![t] = new] /\ thread \in [Threads -> ThreadStates]
  BY DEF Done, ConfigurationInv, TypeOK
<1>2. thread[t] \in ThreadStates BY <1>1
<1>3. new \in ThreadStates
  BY <1>2, InitialValues DEF ThreadStates
<1>4. /\ new.pc \in {"idle", "answer"} /\ new.for = thread[t].for
      /\ new.again => thread[t].again /\ new.answer = answer
      /\ new.answer \in {"none", answer} /\ (new.pc # "answer" => new.answer = "none")
  BY <1>2 DEF IdleThread, ThreadStates
<1> HIDE DEF new
<1>5. thread'[t] = new /\ thread' \in [Threads -> ThreadStates]
      /\ \A s \in Threads \ {t} : thread'[s] = thread[s]
  BY <1>1, <1>3
<1> QED BY <1>4, <1>5 DEF Remains, Pending

\* A step of a handler that begins no request and touches no row.
LEMMA HandledStep ==
  ASSUME ConfigurationInv, UNCHANGED <<store, log, wanted, ha, migrated, saved, form, saves>>,
         faults' \in Nat, thread' \in [Threads -> ThreadStates],
         NEW t \in Threads, \A s \in Threads \ {t} : thread'[s] = thread[s],
         Remains(t), thread'[t].for = thread[t].for,
         thread'[t].pc # "answer" => thread'[t].answer = "none",
         \A s \in Threads :
           thread'[s].for = Migration /\ thread'[s].answer = "ok" => Key(ha.request) \in log
  PROVE  ConfigurationInv'
<1>1. \A s \in Threads : Remains(s)
  BY DEF Remains, Pending, ConfigurationInv, RepeatIsAccepted
<1>2. \A s \in Threads : thread'[s].for = thread[s].for OBVIOUS
<1>3. TypeOK' BY <1>2, FewerTyped DEF ConfigurationInv, TypeOK
<1>4. FormsNoticed' BY DEF ConfigurationInv, FormsNoticed, Noticed
<1>5. PushIsLatest'
  <2>1. \A s \in Threads : thread'[s].for = Migration /\ Pending(s)' => thread'[s].request = ha.request
    BY <1>1, <1>2 DEF Remains, ConfigurationInv, PushIsLatest
  <2>2. ha.pc \in {"send", "wait"} => ha.id \in Records
    BY DEF ConfigurationInv, PushIsLatest, Proper
  <2> QED BY <1>1, <2>1, <2>2, FewerRequests DEF ConfigurationInv, PushIsLatest, Proper, Key
<1>6. PushedIsOver'
  BY <1>1, FewerRequests DEF ConfigurationInv, PushedIsOver, Pushing, IsPushed
<1>7. ReadBackStands' /\ RemovedMeansStored'
  BY DEF ConfigurationInv, ReadBackStands, RemovedMeansStored, Kept
<1> QED BY <1>1, <1>3, <1>4, <1>5, <1>6, <1>7, FewerRequests DEF ConfigurationInv

LEMMA LookupInv == ASSUME ConfigurationInv, NEW t \in Threads, Lookup(t) PROVE ConfigurationInv'
<1> USE DEF Lookup
<1>1. /\ thread' \in [Threads -> ThreadStates]
      /\ \A s \in Threads \ {t} : thread'[s] = thread[s]
      /\ Remains(t) /\ thread'[t].for = thread[t].for
      /\ thread'[t].answer = "ok" => Key(thread[t].request) \in log
      /\ thread'[t].pc # "answer" => thread'[t].answer = "none"
  <2>0. thread \in [Threads -> ThreadStates] /\ thread[t] \in ThreadStates
        /\ (thread[t].again => thread[t].answer \in {"none", "ok"})
    BY DEF ConfigurationInv, TypeOK, RepeatIsAccepted
  <2>1. CASE Replayed(t)
    <3>1. Done(t, "ok") BY <2>1
    <3> QED BY <2>1, <3>1, Over DEF Replayed
  <2>2. CASE ~Replayed(t)
    <3>1. thread' = [thread EXCEPT ![t].pc = "transact"] BY <2>2
    <3>2. ~thread[t].again
      BY <2>2 DEF Replayed, ConfigurationInv, RepeatsAreLogged, Pending
    <3>3. thread[t].answer = "none"
      BY DEF ConfigurationInv, TypeOK, Pending
    <3> QED BY <2>0, <3>1, <3>2, <3>3 DEF ThreadStates, Remains, Pending
  <2> QED BY <2>1, <2>2
<1>2. ASSUME NEW s \in Threads, thread'[s].for = Migration, thread'[s].answer = "ok"
      PROVE  Key(ha.request) \in log
  <2>1. CASE s = t
    <3>1. Pending(t) /\ thread[t].for = Migration BY <1>1, <1>2, <2>1 DEF Pending
    <3> QED BY <1>1, <1>2, <2>1, <3>1 DEF ConfigurationInv, PushIsLatest
  <2>2. CASE s # t BY <1>1, <1>2, <2>2 DEF ConfigurationInv, PushIsLatest
  <2> QED BY <2>1, <2>2
<1>3. faults' \in Nat BY DEF ConfigurationInv, TypeOK
<1> QED BY <1>1, <1>2, <1>3, HandledStep

\* What the migration does with an answer, once no request of it is awaited.
LEMMA AnswerHeard ==
  ASSUME ConfigurationInv, NEW answer \in {"ok", "refused", "unavailable"},
         UNCHANGED <<store, log, wanted, migrated>>,
         ha.pc = "wait", ha' = AfterAnswer(ha, answer),
         answer = "ok" => Key(ha.request) \in log,
         \A s \in Threads : Remains(s) /\ thread'[s].for # Migration
  PROVE  ha' \in MigrationStates /\ PushIsLatest' /\ PushedIsOver' /\ ha'.pc # "profiles"
<1>1. ha \in MigrationStates /\ ha.request \in Requests
  BY DEF ConfigurationInv, TypeOK, MigrationStates
<1>2. /\ Proper(ha.request) /\ ha.request.id = ha.id /\ ha.id \in ha.todo
      /\ \A t \in Threads :
           Pushes(t, ha.id) => thread[t].request.revision <= ha.request.revision
  BY DEF ConfigurationInv, PushIsLatest
<1>3. \A s \in Threads, r \in Records :
        Pushes(s, r)' => Pushes(s, r) /\ thread'[s].request = thread[s].request
  BY FewerRequests
<1>4. /\ ~migrated
      /\ \A r \in Records, t \in Threads :
           (r \notin ha.todo) /\ Pushes(t, r) => thread[t].request.revision < store[r].revision
  BY DEF ConfigurationInv, PushedIsOver, Pushing, IsPushed
<1>5. CASE ha' = Failed
  <2>1. ha' \in MigrationStates /\ ha'.pc = "failed"
    BY <1>5, InitialValues DEF Failed, NotStarted
  <2> QED BY <1>4, <2>1 DEF PushIsLatest, PushedIsOver, Pushing, IsPushed
<1>6. CASE answer = "unavailable" /\ ha.tries < MaxAttempts
  <2>1. ha' = [ha EXCEPT !.pc = "send"] BY <1>6 DEF AfterAnswer, Repeat
  <2>2. ha' \in MigrationStates /\ ha'.pc = "send" /\ ha'.tries < MaxAttempts
        /\ ha'.id = ha.id /\ ha'.todo = ha.todo /\ ha'.request = ha.request
    BY <1>1, <1>6, <2>1 DEF MigrationStates
  <2>3. PushIsLatest'
    <3>1. ha.id \in Records BY <1>2 DEF Proper
    <3> QED BY <1>2, <1>3, <2>2, <3>1 DEF PushIsLatest, Proper
  <2> QED BY <1>3, <1>4, <2>2, <2>3 DEF PushedIsOver, Pushing, IsPushed
<1>7. CASE answer = "ok" /\ ha.request.op = "create" /\ ha.id \in Collections
  <2>1. ha' = [ha EXCEPT !.pc = "push", !.request = NoRequest, !.tries = 0]
    BY <1>7 DEF AfterAnswer, Pushed
  <2>2. 0 \in 0 .. MaxAttempts BY ConfigurationAssumption
  <2>3. ha' \in MigrationStates /\ ha'.pc = "push" /\ ha'.todo = ha.todo
    BY <1>1, <2>1, <2>2, InitialValues DEF MigrationStates
  <2> QED BY <1>3, <1>4, <2>3 DEF PushIsLatest, PushedIsOver, Pushing, IsPushed
<1>8. CASE answer = "ok" /\ ~(ha.request.op = "create" /\ ha.id \in Collections)
  <2>1. ha' = [NotStarted EXCEPT !.pc = "push", !.todo = ha.todo \ {ha.id}]
    BY <1>8 DEF AfterAnswer, Pushed
  <2>2. ha' \in MigrationStates /\ ha'.pc = "push" /\ ha'.todo = ha.todo \ {ha.id}
    <3>1. ha.todo \ {ha.id} \in SUBSET Records BY <1>1 DEF MigrationStates
    <3>2. NotStarted \in MigrationStates BY InitialValues
    <3> QED BY <2>1, <3>1, <3>2 DEF MigrationStates, NotStarted
  <2>3. ha.request.revision < store[ha.id].revision
    BY <1>2, <1>8 DEF ConfigurationInv, LogIsPast, Key
  <2>4. ASSUME NEW r \in Records, NEW s \in Threads, r \notin ha'.todo, Pushes(s, r)'
        PROVE  thread'[s].request.revision < store[r].revision
    <3>1. Pushes(s, r) /\ thread'[s].request = thread[s].request BY <1>3, <2>4
    <3>2. CASE r = ha.id
      <4>1. thread[s].request.revision <= ha.request.revision BY <1>2, <3>1, <3>2
      <4>2. thread[s].request.revision \in Nat /\ ha.request.revision \in Nat
            /\ store[r].revision \in Nat
        BY <1>1 DEF ConfigurationInv, TypeOK, ThreadStates, Requests, Rows
      <4> QED BY <2>3, <3>1, <3>2, <4>1, <4>2
    <3>3. CASE r # ha.id BY <1>4, <2>2, <2>4, <3>1, <3>3
    <3> QED BY <3>2, <3>3
  <2> QED BY <1>4, <2>2, <2>4 DEF PushIsLatest, PushedIsOver, Pushing, IsPushed
<1> QED BY <1>5, <1>6, <1>7, <1>8 DEF AfterAnswer, Repeat

\* Clients hear an answer, and wait for nothing more.
LEMMA Heard ==
  ASSUME ConfigurationInv, NEW clients, NEW answer \in {"ok", "refused", "unavailable"},
         Hear(clients, answer), UNCHANGED <<store, log, wanted, migrated, saved, saves>>,
         faults' \in Nat, thread' \in [Threads -> ThreadStates],
         \A c \in clients : c # Nobody => \E t \in Threads : thread[t].for = c,
         Migration \in clients /\ answer = "ok" => Key(ha.request) \in log,
         \A s \in Threads :
           /\ Remains(s)
           /\ thread'[s].for # Nobody => thread'[s].for \notin clients
           /\ thread'[s].pc # "answer" => thread'[s].answer = "none"
           /\ thread'[s].answer = "ok" => thread[s].answer = "ok"
  PROVE  ConfigurationInv'
<1> USE DEF Hear
<1>1. Migration # Nobody /\ Migration \notin Users /\ Nobody \notin Users
  BY ConfigurationAssumption
<1>2. /\ form \in [Users -> FormStates]
      /\ \A u \in Users \cap clients : form[u].pc = "saving"
      /\ Migration \in clients => ha.pc = "wait"
  BY <1>1 DEF ConfigurationInv, TypeOK
<1>3. \A u \in Users :
        /\ form'[u] \in FormStates
        /\ u \notin clients => form'[u] = form[u]
        /\ form'[u].pc # "closed" => /\ form[u].pc # "closed"
                                     /\ form'[u].id = form[u].id
                                     /\ form'[u].base = form[u].base
  <2> SUFFICES ASSUME NEW u \in Users
               PROVE  /\ form'[u] \in FormStates
                      /\ u \notin clients => form'[u] = form[u]
                      /\ form'[u].pc # "closed" => /\ form[u].pc # "closed"
                                                   /\ form'[u].id = form[u].id
                                                   /\ form'[u].base = form[u].base
    OBVIOUS
  <2>1. CASE u \notin clients BY <1>2, <2>1
  <2>2. CASE u \in clients /\ answer = "ok"
    <3>1. form'[u] = IdleForm BY <2>2
    <3> QED BY <2>2, <3>1, InitialValues DEF IdleForm
  <2>3. CASE u \in clients /\ answer # "ok"
    <3>1. form'[u] = [form[u] EXCEPT !.pc = "open"] BY <2>3
    <3> QED BY <1>2, <2>3, <3>1 DEF FormStates
  <2> QED BY <2>1, <2>2, <2>3
<1>4. ha' \in MigrationStates /\ PushIsLatest' /\ PushedIsOver'
      /\ (ha'.pc = "profiles" => ha' = ha)
      /\ \A s \in Threads : thread'[s].for = Migration => ha'.pc = "wait"
  <2>1. CASE Migration \in clients
    <3>1. \A s \in Threads : Remains(s) /\ thread'[s].for # Migration BY <1>1, <2>1
    <3>2. ha' = AfterAnswer(ha, answer) BY <2>1
    <3> QED BY <1>2, <2>1, <3>1, <3>2, AnswerHeard
  <2>2. CASE Migration \notin clients
    <3>1. ha' = ha BY <2>2
    <3>2. \A s \in Threads, r \in Records :
            Pushes(s, r)' => Pushes(s, r) /\ thread'[s].request = thread[s].request
      BY FewerRequests
    <3>3. \A s \in Threads : thread'[s].for = Migration =>
            /\ thread[s].for = Migration
            /\ Pending(s)' => Pending(s) /\ thread'[s].request = thread[s].request
      BY <1>1 DEF Remains
    <3>4. ha.pc \in {"send", "wait"} => ha.id \in Records
      BY DEF ConfigurationInv, PushIsLatest, Proper
    <3>5. PushIsLatest'
      BY <3>1, <3>2, <3>3, <3>4 DEF ConfigurationInv, PushIsLatest, Proper, Key
    <3>6. PushedIsOver'
      BY <3>1, <3>2 DEF ConfigurationInv, PushedIsOver, Pushing, IsPushed
    <3> QED BY <3>1, <3>3, <3>5, <3>6 DEF ConfigurationInv, TypeOK
  <2> QED BY <2>1, <2>2
<1>5. TypeOK'
  <2>1. form' \in [Users -> FormStates] BY <1>3
  <2>2. \A s \in Threads : thread'[s].for \in {thread[s].for, Nobody} BY DEF Remains
  <2>3. \A s \in Threads : thread'[s].for \in Users => form'[thread'[s].for].pc = "saving"
    BY <1>1, <1>3, <2>2 DEF ConfigurationInv, TypeOK
  <2> QED BY <1>4, <2>1, <2>2, <2>3, FewerTyped DEF ConfigurationInv, TypeOK
<1>6. FormsNoticed'
  <2> SUFFICES ASSUME NEW u \in Users, form'[u].pc # "closed"
               PROVE  (form[u].id \in Records /\ Noticed(form[u].id, form[u].base))'
    BY DEF FormsNoticed
  <2>1. form[u].id \in Records /\ Noticed(form[u].id, form[u].base)
    BY <1>3 DEF ConfigurationInv, FormsNoticed
  <2> HIDE DEF Hear
  <2> QED BY <1>3, <2>1 DEF Noticed
<1>7. ReadBackStands'
  BY <1>4 DEF ConfigurationInv, ReadBackStands, Kept
<1>8. RemovedMeansStored' BY DEF ConfigurationInv, RemovedMeansStored, Kept
<1> QED BY <1>4, <1>5, <1>6, <1>7, <1>8, FewerRequests DEF ConfigurationInv

LEMMA AnswerInv == ASSUME ConfigurationInv, NEW t \in Threads, Answer(t) PROVE ConfigurationInv'
<1> USE DEF Answer
<1>1. thread \in [Threads -> ThreadStates] /\ thread[t] \in ThreadStates
      /\ \A s \in Threads : thread[s].again => thread[s].answer \in {"none", "ok"}
  BY DEF ConfigurationInv, TypeOK, RepeatIsAccepted
<1>2. thread' \in [Threads -> ThreadStates] /\ thread'[t] = IdleThread
      /\ \A s \in Threads \ {t} : thread'[s] = thread[s]
  BY <1>1, InitialValues
<1>3. \A s \in Threads :
        /\ Remains(s)
        /\ thread'[s].for # Nobody => thread'[s].for \notin {thread[t].for}
        /\ thread'[s].pc # "answer" => thread'[s].answer = "none"
        /\ thread'[s].answer = "ok" => thread[s].answer = "ok"
  BY <1>1, <1>2 DEF Remains, Pending, IdleThread, ConfigurationInv, TypeOK
<1>4. CASE thread[t].answer = "none"
  <2>1. AfterAnswer(ha, "none") = AfterAnswer(ha, "unavailable") BY DEF AfterAnswer
  <2>2. Hear({thread[t].for}, "unavailable") BY <1>4, <2>1 DEF Hear
  <2> QED BY <1>2, <1>3, <2>2, Heard DEF ConfigurationInv, TypeOK
<1>5. CASE thread[t].answer # "none"
  <2>1. thread[t].answer \in {"ok", "refused", "unavailable"} BY <1>1, <1>5 DEF ThreadStates
  <2>2. thread[t].for = Migration /\ thread[t].answer = "ok" => Key(ha.request) \in log
    BY DEF ConfigurationInv, PushIsLatest
  <2> QED BY <1>2, <1>3, <2>1, <2>2, Heard DEF ConfigurationInv, TypeOK
<1> QED BY <1>4, <1>5

LEMMA GiveUpInv == ASSUME ConfigurationInv, NEW t \in Threads, GiveUp(t) PROVE ConfigurationInv'
<1> USE DEF GiveUp
<1> DEFINE new == IF thread[t].pc = "answer" THEN IdleThread
                  ELSE [thread[t] EXCEPT !.for = Nobody]
<1>1. thread \in [Threads -> ThreadStates] /\ thread[t] \in ThreadStates
      /\ \A s \in Threads :
           /\ thread[s].again => thread[s].answer \in {"none", "ok"}
           /\ thread[s].pc # "answer" => thread[s].answer = "none"
  BY DEF ConfigurationInv, TypeOK, RepeatIsAccepted
<1>2. /\ new \in ThreadStates /\ new.for = Nobody /\ new.answer = "none"
      /\ new.again => thread[t].again
      /\ new.pc \in {"lookup", "transact"} => new.pc = thread[t].pc /\ new.request = thread[t].request
  BY <1>1, InitialValues DEF ThreadStates, Clients, IdleThread
<1>3. thread' = [thread EXCEPT ![t] = new] OBVIOUS
<1> HIDE DEF new
<1>4. thread' \in [Threads -> ThreadStates] /\ thread'[t] = new
      /\ \A s \in Threads \ {t} : thread'[s] = thread[s]
  BY <1>1, <1>2, <1>3
<1>5. \A s \in Threads :
        /\ Remains(s)
        /\ thread'[s].for # Nobody => thread'[s].for \notin {thread[t].for}
        /\ thread'[s].pc # "answer" => thread'[s].answer = "none"
        /\ thread'[s].answer = "ok" => thread[s].answer = "ok"
  BY <1>1, <1>2, <1>4 DEF Remains, Pending, ConfigurationInv, TypeOK
<1> QED BY <1>4, <1>5, Heard DEF Fault, ConfigurationInv, TypeOK

LEMMA CrashInv == ASSUME ConfigurationInv, Crash PROVE ConfigurationInv'
<1> USE DEF Crash
<1>1. thread' \in [Threads -> ThreadStates] /\ \A s \in Threads : thread'[s] = IdleThread
  BY InitialValues
<1>2. \A s \in Threads :
        /\ Remains(s)
        /\ thread'[s].for # Nobody => thread'[s].for \notin {thread[t].for : t \in Threads}
        /\ thread'[s].pc # "answer" => thread'[s].answer = "none"
        /\ thread'[s].answer = "ok" => thread[s].answer = "ok"
  BY <1>1 DEF Remains, Pending, IdleThread
<1> QED BY <1>1, <1>2, Heard DEF Fault, ConfigurationInv, TypeOK

-----------------------------------------------------------------------------
(* The transaction of a request.                                           *)

\* It fails: nothing changes but the handler.
LEMMA FailsInv ==
  ASSUME ConfigurationInv, NEW t \in Threads, NEW answer \in {"refused", "unavailable"},
         thread[t].pc = "transact", Done(t, answer), faults' \in Nat,
         UNCHANGED <<store, log, wanted, ha, migrated, saved, form, saves>>
  PROVE  ConfigurationInv'
<1>1. ~thread[t].again BY DEF ConfigurationInv, RepeatsAreLogged, Pending
<1>2. /\ thread' \in [Threads -> ThreadStates]
      /\ \A s \in Threads \ {t} : thread'[s] = thread[s]
      /\ Remains(t) /\ thread'[t].for = thread[t].for
      /\ thread'[t].answer \in {"none", answer}
      /\ thread'[t].pc # "answer" => thread'[t].answer = "none"
  BY <1>1, Over
<1>3. \A s \in Threads :
        thread'[s].for = Migration /\ thread'[s].answer = "ok" => Key(ha.request) \in log
  BY <1>2 DEF ConfigurationInv, PushIsLatest
<1> QED BY <1>2, <1>3, HandledStep

\* What was noticed stays so when the rows grow.
LEMMA NoticedStill ==
  ASSUME NEW r \in Records, NEW row \in Rows, store[r] \in Rows, store'[r] \in Rows,
         Grown(r), Noticed(r, row)
  PROVE  Noticed(r, row)'
BY DEF Noticed, Grown, Rows

\* And a request of the migration stays what it should be.
LEMMA ProperStill ==
  ASSUME NEW request \in Requests, request.id \in Records, wanted' = wanted,
         store[request.id] \in Rows, store'[request.id] \in Rows,
         Grown(request.id), Proper(request)
  PROVE  Proper(request)'
BY DEF Proper, Grown, Rows, Requests

\* What is pushed is out of reach of the requests the migration left behind.
LEMMA TooLate ==
  ASSUME ConfigurationInv, NEW t \in Threads, Pending(t),
         thread[t].request.by = Migration, Applies(thread[t].request)
  PROVE  ~migrated /\ ha.pc # "profiles"
<1> DEFINE request == thread[t].request
<1>1. request.id \in Records BY DEF ConfigurationInv, RequestsInStep, RequestKnown
<1>2. Pushes(t, request.id) BY DEF Pushes
<1>3. Proper(request) BY <1>1, <1>2 DEF ConfigurationInv, PushesAreProper
<1>4. ~(request.revision < store[request.id].revision)
  <2>1. store[request.id] \in Rows /\ request \in Requests
        /\ (~store[request.id].there => store[request.id] = Absent)
    BY <1>1 DEF ConfigurationInv, TypeOK, ThreadStates
  <2> QED BY <1>3, <2>1 DEF Applies, Proper, Absent, Rows, Requests
<1> QED BY <1>1, <1>2, <1>4 DEF ConfigurationInv, PushedIsOver, IsPushed, Pushing

LEMMA AppliesInv ==
  ASSUME ConfigurationInv, NEW t \in Threads, thread[t].pc = "transact",
         Applies(thread[t].request), store' = Written(thread[t].request),
         log' = log \cup (IF thread[t].request.by = Migration
                           THEN {Key(thread[t].request)} ELSE {}),
         Done(t, "ok"), UNCHANGED <<wanted, ha, migrated, saved, form, saves, faults>>
  PROVE  ConfigurationInv'
<1> DEFINE request == thread[t].request
<1>1. Pending(t) /\ RequestKnown(request, thread[t].for)
  BY DEF Pending, ConfigurationInv, RequestsInStep
<1>2. request \in Requests /\ request.id \in Records
      /\ (request.default => request.id \in Collections)
  BY <1>1 DEF RequestKnown, ConfigurationInv, TypeOK, ThreadStates
<1>3. /\ store' \in [Records -> Rows]
      /\ Replaced(request)
      /\ \A r \in Records \ {request.id} : Beside(r, request)
      /\ \A r \in Records : Grown(r)
  BY <1>2, RowsWritten DEF ConfigurationInv
<1>4. /\ thread' \in [Threads -> ThreadStates]
      /\ \A s \in Threads \ {t} : thread'[s] = thread[s]
      /\ ~Pending(t)' /\ Remains(t) /\ thread'[t].for = thread[t].for
      /\ thread'[t].pc # "answer" => thread'[t].answer = "none"
  BY Over
<1>5. /\ store \in [Records -> Rows] /\ thread \in [Threads -> ThreadStates]
      /\ form \in [Users -> FormStates] /\ ha \in MigrationStates
  BY DEF ConfigurationInv, TypeOK
<1>6. request.by = Migration => Proper(request)
  BY <1>1, <1>2 DEF ConfigurationInv, PushesAreProper, Pushes
<1>7. TypeOK'
  <2>1. \A r \in Records :
          /\ IF store'[r].there THEN store'[r].revision > 0 ELSE store'[r] = Absent
          /\ store'[r].default => r \in Collections
    <3> SUFFICES ASSUME NEW r \in Records
                 PROVE  /\ IF store'[r].there THEN store'[r].revision > 0 ELSE store'[r] = Absent
                        /\ store'[r].default => r \in Collections
      OBVIOUS
    <3>1. store[r] \in Rows
          /\ (IF store[r].there THEN store[r].revision > 0 ELSE store[r] = Absent)
          /\ (store[r].default => r \in Collections)
      BY DEF ConfigurationInv, TypeOK
    <3>2. store[request.id].revision \in Nat BY <1>2, <1>5 DEF Rows
    <3>3. CASE r = request.id
      <4>1. store'[r].there = TRUE /\ store'[r].revision = store[r].revision + 1
            /\ store'[r].default = request.default
        BY <1>3, <3>3 DEF Replaced
      <4> QED BY <1>2, <3>2, <3>3, <4>1
    <3>4. CASE r # request.id BY <1>3, <3>1, <3>4 DEF Beside, Rows
    <3> QED BY <3>3, <3>4
  <2>2. \A c, d \in Defaults' : c = d
    <3> SUFFICES ASSUME NEW c \in Collections, NEW d \in Collections,
                        store'[c].default, store'[d].default
                 PROVE  c = d
      BY DEF Defaults
    <3>1. c \in Records /\ d \in Records BY DEF Records
    <3>2. CASE request.default
      <4>1. ASSUME NEW r \in Records \ {request.id} PROVE ~store'[r].default
        BY <1>3, <3>2 DEF Replaced, Beside
      <4> QED BY <3>1, <4>1
    <3>3. CASE ~request.default
      <4>1. store[c].default /\ store[d].default BY <1>3, <3>1, <3>3 DEF Replaced, Beside
      <4> QED BY <4>1 DEF ConfigurationInv, TypeOK, Defaults
    <3> QED BY <3>2, <3>3
  <2>3. log' \in SUBSET (Records \X {"create", "patch"} \X Nat)
    <3>1. request.by = Migration => Key(request) \in Records \X {"create", "patch"} \X Nat
      BY <1>2, <1>6 DEF Key, Proper, Requests
    <3> QED BY <3>1 DEF ConfigurationInv, TypeOK
  <2>4. \A s \in Threads : thread'[s].for = thread[s].for BY <1>4
  <2> QED BY <1>3, <1>4, <2>1, <2>2, <2>3, <2>4 DEF ConfigurationInv, TypeOK
<1>8. FormsNoticed'
  <2> SUFFICES ASSUME NEW u \in Users, form[u].pc # "closed"
               PROVE  form[u].id \in Records /\ Noticed(form[u].id, form[u].base)'
    BY DEF FormsNoticed
  <2>1. form[u].id \in Records /\ Noticed(form[u].id, form[u].base) /\ form[u].base \in Rows
    BY <1>5 DEF ConfigurationInv, FormsNoticed, FormStates
  <2> QED BY <1>3, <1>5, <2>1, NoticedStill
<1>9. \A s \in Threads : Pending(s)' => s # t /\ Pending(s) /\ thread'[s] = thread[s]
  BY <1>4 DEF Pending
<1>10. RequestsInStep'
  <2> SUFFICES ASSUME NEW s \in Threads, Pending(s)'
               PROVE  (/\ RequestKnown(thread[s].request, thread[s].for)
                       /\ thread[s].request.by \in Users => UserRequest(thread[s].request))'
    BY DEF RequestsInStep
  <2>1. /\ RequestKnown(thread[s].request, thread[s].for) /\ thread'[s] = thread[s]
        /\ thread[s].request.by \in Users => UserRequest(thread[s].request)
        /\ thread[s].request.base \in Rows
    BY <1>5, <1>9 DEF ConfigurationInv, RequestsInStep, ThreadStates, Requests
  <2> QED BY <1>3, <1>5, <2>1, NoticedStill DEF RequestKnown, UserRequest
<1>11. PushesAreProper'
  <2> SUFFICES ASSUME NEW s \in Threads, NEW r \in Records, Pushes(s, r)'
               PROVE  Proper(thread[s].request)'
    BY DEF PushesAreProper
  <2>1. thread'[s] = thread[s] /\ Pushes(s, r) /\ Proper(thread[s].request)
        /\ thread[s].request \in Requests
    BY <1>5, <1>9 DEF Pushes, ConfigurationInv, PushesAreProper, ThreadStates
  <2>2. Proper(thread[s].request)'
    BY <1>3, <1>5, <2>1, ProperStill DEF Pushes, Proper
  <2> QED BY <2>2
<1>12. LogIsPast'
  <2> SUFFICES ASSUME NEW key \in log' PROVE key[3] < store'[key[1]].revision
    BY DEF LogIsPast
  <2>1. CASE key \in log
    <3>1. key[1] \in Records /\ key[3] \in Nat /\ key[3] < store[key[1]].revision
      BY <2>1 DEF ConfigurationInv, TypeOK, LogIsPast
    <3> QED BY <1>3, <1>5, <3>1 DEF Grown, Rows
  <2>2. CASE key \notin log
    <3>1. request.by = Migration /\ key = Key(request) BY <2>2
    <3> QED BY <1>2, <1>3, <1>5, <1>6, <3>1 DEF Key, Proper, Replaced, Rows, Requests
  <2> QED BY <2>1, <2>2
<1>13. RepeatsAreLogged'
  BY <1>9 DEF ConfigurationInv, RepeatsAreLogged, Key, Pending
<1>14. RepeatIsAccepted'
  BY <1>4 DEF ConfigurationInv, RepeatIsAccepted, Remains
<1>15. PushIsLatest'
  <2>1. ha.pc \in {"send", "wait"} => Proper(ha.request)' /\ ha.id \in Records
    BY <1>3, <1>5, ProperStill DEF ConfigurationInv, PushIsLatest, Proper, MigrationStates
  <2>2. ASSUME NEW s \in Threads, thread'[s].for = Migration
        PROVE  /\ Pending(s)' => thread'[s].request = ha.request
               /\ thread'[s].answer = "ok" => Key(ha.request) \in log'
    <3>1. CASE s = t
      <4>1. request = ha.request /\ request.by = Migration
        BY <1>1, <1>4, <2>2, <3>1, ConfigurationAssumption
           DEF ConfigurationInv, PushIsLatest, RequestKnown
      <4> QED BY <1>4, <3>1, <4>1 DEF Key
    <3>2. CASE s # t BY <1>4, <1>9, <2>2, <3>2 DEF ConfigurationInv, PushIsLatest
    <3> QED BY <3>1, <3>2
  <2>3. \A s \in Threads, r \in Records : Pushes(s, r)' => Pushes(s, r) /\ thread'[s] = thread[s]
    BY <1>9 DEF Pushes
  <2> QED BY <2>1, <2>2, <2>3 DEF ConfigurationInv, PushIsLatest, Key
<1>16. PushedIsOver'
  <2>1. \A s \in Threads, r \in Records : Pushes(s, r)' => Pushes(s, r) /\ thread'[s] = thread[s]
    BY <1>9 DEF Pushes
  <2> SUFFICES ASSUME NEW s \in Threads, NEW r \in Records, IsPushed(r), Pushes(s, r)'
               PROVE  thread'[s].request.revision < store'[r].revision
    BY DEF ConfigurationInv, PushedIsOver, IsPushed, Pushing
  <2>2. thread'[s] = thread[s] /\ thread[s].request.revision < store[r].revision
    BY <2>1 DEF ConfigurationInv, PushedIsOver
  <2>3. store[r] \in Rows /\ store'[r] \in Rows /\ Grown(r) /\ thread[s] \in ThreadStates
    BY <1>3, <1>5
  <2> QED BY <2>2, <2>3 DEF Grown, Rows, ThreadStates, Requests
<1>17. ASSUME migrated \/ ha.pc = "profiles", NEW r \in Records, Kept(r) PROVE Kept(r)'
  <2>1. request.by \in Users BY <1>1, <1>17, TooLate DEF RequestKnown
  <2>2. store'[r] = store[r] \/ store'[r].author = request.by
    <3>1. CASE r = request.id BY <1>3, <3>1 DEF Replaced, Beside
    <3>2. CASE r # request.id BY <1>3, <3>2 DEF Replaced, Beside
    <3> QED BY <3>1, <3>2
  <2> QED BY <1>17, <2>1, <2>2 DEF Kept
<1>18. ReadBackStands' BY <1>17 DEF ConfigurationInv, ReadBackStands, Records
<1>19. RemovedMeansStored' BY <1>17 DEF ConfigurationInv, RemovedMeansStored
<1> QED BY <1>7, <1>8, <1>10, <1>11, <1>12, <1>13, <1>14, <1>15, <1>16, <1>18, <1>19
        DEF ConfigurationInv

LEMMA TransactInv == ASSUME ConfigurationInv, NEW t \in Threads, Transact(t) PROVE ConfigurationInv'
<1> USE DEF Transact
<1>1. CASE store' = Written(thread[t].request) /\ Applies(thread[t].request) /\ Done(t, "ok")
           /\ log' = log \cup (IF thread[t].request.by = Migration
                               THEN {Key(thread[t].request)} ELSE {})
           /\ UNCHANGED faults
  BY <1>1, AppliesInv
<1>2. CASE store' = store /\ Done(t, "refused") /\ UNCHANGED <<log, faults>>
  BY <1>2, FailsInv DEF ConfigurationInv, TypeOK
<1>3. CASE store' = store /\ Done(t, "unavailable") /\ Fault /\ UNCHANGED log
  BY <1>3, FailsInv DEF ConfigurationInv, TypeOK, Fault
<1> QED BY <1>1, <1>2, <1>3 DEF RolledBack

-----------------------------------------------------------------------------
(* The theorems.                                                           *)

LEMMA InitInv == Init => ConfigurationInv
<1> SUFFICES ASSUME Init PROVE ConfigurationInv
  OBVIOUS
<1> USE DEF Init
<1>1. \A t \in Threads : thread[t] = IdleThread
  OBVIOUS
<1>2. TypeOK
  <2>1. \A r \in Records :
          store[r] \in {Absent, Row("old", FALSE, 1, Nobody), Row("old", TRUE, 1, Nobody)}
    OBVIOUS
  <2>2. \A r \in Records :
          /\ store[r] \in Rows
          /\ IF store[r].there THEN store[r].revision > 0 ELSE store[r] = Absent
    <3> SUFFICES ASSUME NEW r \in Records
                 PROVE  /\ store[r] \in Rows
                        /\ IF store[r].there THEN store[r].revision > 0 ELSE store[r] = Absent
      OBVIOUS
    <3>1. CASE store[r] = Absent BY <3>1, InitialValues DEF Absent
    <3>2. CASE store[r] = Row("old", FALSE, 1, Nobody)
      BY <3>2 DEF Row, Rows, Contents, Clients
    <3>3. CASE store[r] = Row("old", TRUE, 1, Nobody)
      BY <3>3 DEF Row, Rows, Contents, Clients
    <3> QED BY <2>1, <3>1, <3>2, <3>3
  <2>3. store \in [Records -> Rows] BY <2>2
  <2>4. thread \in [Threads -> ThreadStates] /\ form \in [Users -> FormStates]
        /\ ha \in MigrationStates
    BY InitialValues
  <2>5. Nobody \notin Users \cup {Migration} BY ConfigurationAssumption
  <2> QED BY <1>1, <2>2, <2>3, <2>4, <2>5 DEF TypeOK, IdleThread
<1>3. \A t \in Threads : ~Pending(t) /\ ~thread[t].again /\ thread[t].answer = "none"
                         /\ thread[t].for = Nobody
  BY <1>1 DEF Pending, IdleThread
<1>4. FormsNoticed BY DEF FormsNoticed, IdleForm
<1>5. RequestsInStep /\ PushesAreProper /\ LogIsPast /\ RepeatsAreLogged /\ RepeatIsAccepted
  BY <1>3 DEF RequestsInStep, PushesAreProper, Pushes, LogIsPast, RepeatsAreLogged,
              RepeatIsAccepted
<1>6. PushIsLatest /\ PushedIsOver /\ ReadBackStands /\ RemovedMeansStored
  BY <1>3, ConfigurationAssumption
     DEF PushIsLatest, PushedIsOver, Pushing, IsPushed, Pushes, ReadBackStands,
         RemovedMeansStored, NotStarted
<1> QED BY <1>2, <1>4, <1>5, <1>6 DEF ConfigurationInv

LEMMA NextInv == ConfigurationInv /\ [Next]_vars => ConfigurationInv'
<1> SUFFICES ASSUME ConfigurationInv, [Next]_vars PROVE ConfigurationInv'
  OBVIOUS
<1>1. CASE \E t \in Threads : Handle(t)
  BY <1>1, LookupInv, TransactInv, AnswerInv, GiveUpInv DEF Handle
<1>2. CASE \E u \in Users : Edit(u)
  BY <1>2, OpenInv, SaveFormInv, CloseInv DEF Edit
<1>3. CASE Migrate
  BY <1>3, SetupInv, PushInv, PushAgainInv, CannotListInv, CollectedInv, RemoveInv, SaveInv,
     RestartInv DEF Migrate
<1>4. CASE Crash
  BY <1>4, CrashInv
<1>5. CASE UNCHANGED vars
  <2>1. UNCHANGED <<store, log, wanted, form, thread>> /\ UNCHANGED <<ha, migrated, saved>>
        /\ UNCHANGED <<saves, faults>>
    BY <1>5 DEF vars
  <2>2. TypeOK' BY <2>1, MigrationTyped DEF ConfigurationInv, TypeOK
  <2>3. PushIsLatest' /\ PushedIsOver' /\ ReadBackStands' /\ RemovedMeansStored'
    BY <2>1 DEF ConfigurationInv, PushIsLatest, PushedIsOver, Pushing, IsPushed, Pushes, Pending,
                Proper, ReadBackStands, RemovedMeansStored, Kept
  <2> QED BY <2>1, <2>2, <2>3, QuietStep DEF ConfigurationInv
<1> QED BY <1>1, <1>2, <1>3, <1>4, <1>5 DEF Next

\* The inductive invariant: what the requests in progress may still do is known
\* of every one of them, those that nobody waits for included.
THEOREM ConfigurationInvariant == Spec => []ConfigurationInv
BY InitInv, NextInv, PTL DEF Spec

\* Every variable has its type, at most one collection is the default, and a
\* client waits for at most one request.
THEOREM TypeCorrect == Spec => []TypeOK
<1>1. ConfigurationInv => TypeOK BY DEF ConfigurationInv
<1> QED BY ConfigurationInvariant, <1>1, PTL

\* When the migration has removed the entry's subentries, the Worker has every
\* one of them as it was, or as a user has written it since: a request that was
\* given up, repeated or replayed does not undo what came later.
THEOREM NothingIsForgotten == Spec => []RemovedMeansStored
<1>1. ConfigurationInv => RemovedMeansStored BY DEF ConfigurationInv
<1> QED BY ConfigurationInvariant, <1>1, PTL

\* A request that was carried out is accepted when it is sent again.
THEOREM RepeatsAreAccepted == Spec => []RepeatIsAccepted
<1>1. ConfigurationInv => RepeatIsAccepted BY DEF ConfigurationInv
<1> QED BY ConfigurationInvariant, <1>1, PTL

\* The rows change only when one thread carries out its request.
LEMMA OnlyTransactions ==
  ASSUME ConfigurationInv, [Next]_vars, store' # store
  PROVE  \E t \in Threads :
           /\ Pending(t) /\ Applies(thread[t].request) /\ store' = Written(thread[t].request)
           /\ thread[t].pc = "transact" /\ thread'[t].pc # "transact"
           /\ \A s \in Threads \ {t} : thread'[s] = thread[s]
<1>1. PICK t \in Threads : Transact(t)
  BY DEF Next, Handle, Lookup, Answer, GiveUp, Edit, Open, SaveForm, Close, Migrate, Setup, Push,
         PushAgain, CannotList, Collected, Remove, Save, Restart, Crash, vars
<1>2. /\ thread[t].pc = "transact" /\ Applies(thread[t].request)
      /\ store' = Written(thread[t].request) /\ Done(t, "ok")
  BY <1>1 DEF Transact, RolledBack
<1>3. ~Pending(t)' /\ \A s \in Threads \ {t} : thread'[s] = thread[s]
  BY <1>2, Over
<1> QED BY <1>2, <1>3 DEF Pending

\* A transaction seen from the collection that is the default.
LEMMA DefaultStep ==
  ASSUME ConfigurationInv, [Next]_vars, NEW c \in Defaults
  PROVE  \/ Defaults' # {}
         \/ \E t \in Threads :
              /\ thread[t].request.id = c /\ ~thread[t].request.default
              /\ Carried(t)
<1>1. CASE store' = store BY <1>1 DEF Defaults
<1>2. CASE store' # store
  <2>1. PICK t \in Threads :
          /\ Pending(t) /\ store' = Written(thread[t].request)
          /\ thread[t].pc = "transact" /\ thread'[t].pc # "transact"
    BY <1>2, OnlyTransactions
  <2>2. Carried(t) BY <1>2, <2>1 DEF Carried
  <2> DEFINE request == thread[t].request
  <2>3. request \in Requests /\ request.id \in Records
        /\ (request.default => request.id \in Collections)
    BY <2>1 DEF ConfigurationInv, TypeOK, ThreadStates, RequestsInStep, RequestKnown
  <2>4. Replaced(request) /\ \A r \in Records \ {request.id} : Beside(r, request)
    BY <2>1, <2>3, RowsWritten DEF ConfigurationInv
  <2>5. c \in Collections /\ c \in Records /\ store[c].default BY DEF Defaults, Records
  <2>6. CASE request.default
    <3>1. request.id \in Defaults' BY <2>3, <2>4, <2>6 DEF Replaced, Defaults
    <3> QED BY <3>1
  <2>7. CASE ~request.default /\ request.id # c
    <3>1. c \in Defaults' BY <2>4, <2>5, <2>7 DEF Beside, Defaults
    <3> QED BY <3>1
  <2>8. CASE ~request.default /\ request.id = c
    BY <2>2, <2>8
  <2> QED BY <2>6, <2>7, <2>8
<1> QED BY <1>1, <1>2

\* The collections are never left without a default but by a request on the
\* default itself: a request that is refused or fails takes nothing away.
THEOREM DefaultHandedOver == Spec => DefaultIsHandedOver
<1>1. ConfigurationInv /\ [Next]_vars =>
        [\A c \in Defaults :
           \/ Defaults' # {}
           \/ \E t \in Threads :
                /\ thread[t].request.id = c /\ ~thread[t].request.default
                /\ Carried(t)]_vars
  BY DefaultStep
<1> QED BY ConfigurationInvariant, <1>1, PTL DEF Spec, DefaultIsHandedOver

\* A transaction seen from the form that asked for it.
LEMMA OverwriteStep ==
  ASSUME ConfigurationInv, [Next]_vars, NEW t \in Threads, Carried(t),
         thread[t].request.by \in Users
  PROVE  store[thread[t].request.id] = thread[t].request.base
<1>1. Applies(thread[t].request)
  BY OnlyTransactions DEF Carried
<1> DEFINE request == thread[t].request
<1>2. request.id \in Records /\ UserRequest(request)
  BY DEF Carried, Pending, ConfigurationInv, RequestsInStep, RequestKnown
<1>3. /\ store[request.id] \in Rows /\ request.base \in Rows
      /\ ~store[request.id].there => store[request.id] = Absent
  BY <1>2 DEF ConfigurationInv, TypeOK, ThreadStates, Requests
<1> QED BY <1>1, <1>2, <1>3 DEF Applies, UserRequest, Noticed, Absent, Rows

\* A form replaces the very row it was filled from, or the Worker refuses it.
THEOREM FormsOverwriteWhatTheyShow == Spec => NoBlindOverwrite
<1>1. ConfigurationInv /\ [Next]_vars =>
        [\A t \in Threads :
           LET request == thread[t].request IN
           Carried(t) /\ request.by \in Users => store[request.id] = request.base]_vars
  BY OverwriteStep
<1> QED BY ConfigurationInvariant, <1>1, PTL DEF Spec, NoBlindOverwrite
=============================================================================
