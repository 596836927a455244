------------------------------- MODULE Dispatch -------------------------------
(***************************************************************************)
(* Scheduled compilation, end to end: once a minute the integration's      *)
(* scheduler (scheduler.py) claims the occurrences that are due and        *)
(* submits each through the API client (api_client.py), which repeats a    *)
(* request under the same idempotency key; the Worker (api.py) remembers   *)
(* the key with the jobs it queues.  Requests time out and are still       *)
(* handled, answers get lost, both sides stop and start again.             *)
(*                                                                         *)
(* What the coordinator knows at a minute is any of Configs (Coordinator   *)
(* says how it comes to know it); the options of the entry, which hold the *)
(* tokens, are written at once.                                            *)
(***************************************************************************)
EXTENDS Resolver, FiniteSets

CONSTANTS
  Configs,     \* the collections the coordinator may know
  MaxClock,    \* bound: minutes
  MaxEvents,   \* bound: outages and restarts
  MaxListeners,  \* bound: time listeners; a set-up that fails leaves its own behind
  Handlers,    \* callbacks that can be in progress
  Slots,       \* requests the Worker can be handling
  NoSlot,      \* no request
  MaxTries,    \* MAX_REQUEST_ATTEMPTS
  TokenLimit   \* MAX_SCHEDULE_RUN_TOKENS

Strategies == {"scan_only", "compile_stale_only", "scan_and_compile"}

ASSUME DispatchAssumption ==
  /\ \A known \in Configs :
       /\ DOMAIN known \subseteq Collections
       /\ \A c \in DOMAIN known : known[c].schedule.strategy \in Strategies
  /\ NoSlot \notin Slots
  /\ MaxClock \in Nat \ {0} /\ MaxEvents \in Nat /\ MaxListeners \in Nat \ {0}
  /\ MaxTries \in Nat \ {0} /\ TokenLimit \in Nat

VARIABLES
  clock,    \* local time
  up,       \* the Worker listens
  events,   \* outages and restarts so far
  listeners,  \* registered time listeners
  ringing,    \* those that have not run in this minute
  handler,  \* the callbacks in progress
  token,    \* the run tokens in the entry's options, per occurrence
  net,      \* requests sent and not yet answered
  seen,     \* idempotency_records: the strategy a key was used for
  batches   \* how often jobs were queued for an occurrence

schedulerVars == <<listeners, ringing, handler, token>>
bells == <<listeners, ringing>>
serverVars == <<net, seen, batches>>
worldVars == <<clock, up, events>>
vars == <<worldVars, schedulerVars, serverVars>>

-----------------------------------------------------------------------------
Occurrences == Collections \X (1 .. MaxClock)
TokenStates == {"none", "pending", "failed", "succeeded"}
NoPlan == <<>>  \* no collections, nothing left to submit
IdleHandler == [pc |-> "idle", minute |-> 0, plan |-> NoPlan, tries |-> 0, slot |-> NoSlot]
NoRequest == [pc |-> "none"]

Init ==
  /\ clock = 1 /\ up = TRUE /\ events = 0
  /\ listeners \in 1 .. MaxListeners /\ ringing = listeners
  /\ handler = [h \in Handlers |-> IdleHandler]
  /\ token = [o \in Occurrences |-> "none"]
  /\ net = [s \in Slots |-> NoRequest]
  /\ seen = [o \in Occurrences |-> "none"]
  /\ batches = [o \in Occurrences |-> 0]

\* Mutant: one token too many.
PrunedLate(states) ==
  LET Before(p, q) == p[1] < q[1] \/ (p[1] = q[1] /\ p[2] < q[2])
      present      == {o \in Occurrences : states[o] # "none"}
  IN  [o \in Occurrences |->
         IF Cardinality({q \in present : Before(o, q)}) <= TokenLimit THEN states[o] ELSE "none"]

\* _prune_token_states: the last tokens in the order of their text, which
\* begins with the collection.
Pruned(states) ==
  LET Before(p, q) == p[1] < q[1] \/ (p[1] = q[1] /\ p[2] < q[2])
      present      == {o \in Occurrences : states[o] # "none"}
  IN  [o \in Occurrences |->
         IF Cardinality({q \in present : Before(o, q)}) < TokenLimit THEN states[o] ELSE "none"]

SetToken(o, state) == token' = Pruned([token EXCEPT ![o] = state])

-----------------------------------------------------------------------------
(* The scheduler's callback.                                               *)

\* async_handle_due starts: it reads the schedules once.
Fire(h) ==
  /\ handler[h].pc = "idle"
  /\ ringing > 0 /\ ringing' = ringing - 1
  /\ \E known \in Configs :
       LET due == DueAt(known, clock)
       IN  handler' = IF due = {} THEN handler
                      ELSE [handler EXCEPT ![h] =
                        [pc |-> "next", minute |-> clock, tries |-> 0, slot |-> NoSlot,
                         plan |-> [c \in due |-> known[c].schedule.strategy]]]
  /\ UNCHANGED <<listeners, token, worldVars, serverVars>>

Current(h) == <<First(DOMAIN handler[h].plan), handler[h].minute>>
Without(plan, c) == [d \in DOMAIN plan \ {c} |-> plan[d]]

\* async_begin for the next schedule, or the end of the loop.
NextDue(h) ==
  /\ handler[h].pc = "next"
  /\ IF DOMAIN handler[h].plan = {}
     THEN /\ handler' = [handler EXCEPT ![h] = IdleHandler]
          /\ UNCHANGED token
     ELSE IF token[Current(h)] = "succeeded"
     THEN /\ handler' = [handler EXCEPT ![h].plan = Without(@, Current(h)[1])]
          /\ UNCHANGED token
     ELSE /\ handler' = [handler EXCEPT ![h].pc = "call", ![h].tries = 0]
          /\ SetToken(Current(h), "pending")
  /\ UNCHANGED <<bells, worldVars, serverVars>>

\* The request was accepted: async_succeed.
Succeed(h) ==
  /\ handler' = [handler EXCEPT ![h].pc = "next", ![h].slot = NoSlot,
                                ![h].plan = Without(@, Current(h)[1])]
  /\ SetToken(Current(h), "succeeded")

\* Mutant: the token is completed whatever happened.
FailAsDone(h) ==
  /\ handler' = [handler EXCEPT ![h] = IdleHandler]
  /\ SetToken(Current(h), "succeeded")

\* The client gives up: async_fail, and the exception ends the callback.
Fail(h) ==
  /\ handler' = [handler EXCEPT ![h] = IdleHandler]
  /\ SetToken(Current(h), "failed")

\* Mutant: the client never gives up.
AgainAlways(h) ==
  /\ handler' = [handler EXCEPT ![h].pc = "call", ![h].slot = NoSlot, ![h].tries = 0]
  /\ UNCHANGED token

\* A connection error, a time-out, 429 or 503: another attempt, MaxTries in all.
Again(h) ==
  IF handler[h].tries = MaxTries THEN Fail(h)
  ELSE /\ handler' = [handler EXCEPT ![h].pc = "call", ![h].slot = NoSlot]
       /\ UNCHANGED token

\* _async_mutate_once sends.
Send(h) ==
  /\ handler[h].pc = "call" /\ up
  /\ \E s \in Slots :
       /\ net[s] = NoRequest
       /\ net' = [net EXCEPT ![s] = [pc |-> "sent", key |-> Current(h),
                                     strategy |-> handler[h].plan[Current(h)[1]]]]
       /\ handler' = [handler EXCEPT ![h].pc = "wait", ![h].slot = s, ![h].tries = @ + 1]
  /\ UNCHANGED <<bells, token, seen, batches, worldVars>>

\* The Worker does not listen.
CannotConnect(h) ==
  /\ handler[h].pc = "call" /\ ~up
  /\ IF handler[h].tries + 1 = MaxTries THEN Fail(h)
     ELSE handler' = [handler EXCEPT ![h].tries = @ + 1] /\ UNCHANGED token
  /\ UNCHANGED <<bells, worldVars, serverVars>>

\* No answer within the time-out, or the connection is reset.
Timeout(h) ==
  /\ handler[h].pc = "wait"
  /\ Again(h)
  /\ UNCHANGED <<bells, worldVars, serverVars>>

-----------------------------------------------------------------------------
(* The Worker.                                                             *)

\* The answer to the request in slot s reaches whoever still waits for it.
Answer(s, status) ==
  /\ net' = [net EXCEPT ![s] = NoRequest]
  /\ LET waiting == {h \in Handlers : handler[h].slot = s}
     IN  IF waiting = {} THEN UNCHANGED <<handler, token>>
         ELSE \E h \in waiting : CASE status = "ok"          -> Succeed(h)
                                   [] status = "unavailable" -> Again(h)
                                   [] OTHER                  -> Fail(h)
  /\ UNCHANGED <<bells, worldVars>>

Remember(key, strategy) == seen' = [seen EXCEPT ![key] = strategy]
QueueJobs(key) == batches' = [batches EXCEPT ![key] = @ + 1]

\* The key was used: the recorded job, or 409 if it was for another request.
Replay(s) ==
  /\ net[s].pc = "sent" /\ seen[net[s].key] # "none"
  /\ Answer(s, IF seen[net[s].key] = net[s].strategy THEN "ok" ELSE "conflict")
  /\ UNCHANGED <<seen, batches>>

\* scan_only and compile_stale_only: look-up, jobs and record are one
\* transaction.  A request is refused when it is not authorised or not valid, or
\* when a compile request finds nothing to do; one that finds an active job queues
\* nothing.
Accept(s) ==
  /\ net[s].pc = "sent" /\ seen[net[s].key] = "none"
  /\ net[s].strategy # "scan_and_compile"
  /\ \/ Remember(net[s].key, net[s].strategy) /\ QueueJobs(net[s].key) /\ Answer(s, "ok")
     \/ /\ net[s].strategy = "compile_stale_only"
        /\ Remember(net[s].key, net[s].strategy) /\ Answer(s, "ok")
        /\ UNCHANGED batches
     \/ Answer(s, "invalid") /\ UNCHANGED <<seen, batches>>

\* scan_and_compile: an active job is returned at once; otherwise the scan
\* commits the transaction in which the key was looked up.
Scan(s) ==
  /\ net[s].pc = "sent" /\ seen[net[s].key] = "none"
  /\ net[s].strategy = "scan_and_compile"
  /\ \/ Remember(net[s].key, net[s].strategy) /\ Answer(s, "ok")
     \/ /\ net' = [net EXCEPT ![s].pc = "scanned"]
        /\ UNCHANGED <<seen, handler, token, bells, worldVars>>
  /\ UNCHANGED batches

\* Mutant: the jobs are committed before the key is recorded.
StoreApart(s) ==
  /\ net[s].pc = "scanned"
  /\ QueueJobs(net[s].key)
  /\ IF seen[net[s].key] # "none" THEN UNCHANGED seen /\ Answer(s, "unavailable")
     ELSE Remember(net[s].key, net[s].strategy) /\ Answer(s, "ok")

\* Jobs and record are one transaction; a second record for the key violates
\* the primary key and takes the jobs back.
Store(s) ==
  /\ net[s].pc = "scanned"
  /\ \/ /\ seen[net[s].key] # "none"
        /\ Answer(s, "unavailable")
        /\ UNCHANGED <<seen, batches>>
     \/ /\ seen[net[s].key] = "none"
        /\ Remember(net[s].key, net[s].strategy)
        /\ QueueJobs(net[s].key)
        /\ Answer(s, "ok")
     \/ Answer(s, "invalid") /\ UNCHANGED <<seen, batches>>

\* The Worker's process ends: what it was handling is gone, and nobody answers
\* the callbacks that wait for it.
StopWorker ==
  /\ events < MaxEvents /\ events' = events + 1
  /\ up /\ up' = FALSE
  /\ net' = [s \in Slots |-> NoRequest]
  /\ handler' = [h \in Handlers |-> [handler[h] EXCEPT !.slot = NoSlot]]
  /\ UNCHANGED <<clock, bells, token, seen, batches>>

StartWorker ==
  /\ ~up /\ up' = TRUE
  /\ UNCHANGED <<clock, events, schedulerVars, serverVars>>

-----------------------------------------------------------------------------
Tick ==
  /\ clock < MaxClock /\ ringing = 0
  /\ clock' = clock + 1
  /\ ringing' = listeners
  /\ UNCHANGED <<up, events, listeners, handler, token, serverVars>>

\* Home Assistant stops and starts again: listeners left behind are gone, and
\* the one it registers runs at the next full minute.
Restart ==
  /\ events < MaxEvents /\ events' = events + 1
  /\ listeners' = 1 /\ ringing' = 0
  /\ handler' = [h \in Handlers |-> IdleHandler]
  /\ UNCHANGED <<clock, up, token, serverVars>>

Callback(h) == Fire(h) \/ NextDue(h) \/ Send(h) \/ CannotConnect(h) \/ Timeout(h)
Serve(s) == Replay(s) \/ Accept(s) \/ Scan(s) \/ Store(s)

Next ==
  \/ \E h \in Handlers : Callback(h)
  \/ \E s \in Slots : Serve(s)
  \/ StopWorker \/ StartWorker \/ Tick \/ Restart

Spec == Init /\ [][Next]_vars

\* The event loop goes on, and so do the client's time-outs and the threads of
\* the Worker.
Fairness ==
  /\ \A h \in Handlers : WF_vars(NextDue(h) \/ Send(h) \/ CannotConnect(h) \/ Timeout(h))
  /\ \A s \in Slots : WF_vars(Serve(s))
FairSpec == Spec /\ Fairness

-----------------------------------------------------------------------------
TypeOK ==
  /\ token \in [Occurrences -> TokenStates]
  /\ Cardinality({o \in Occurrences : token[o] # "none"}) <= TokenLimit
  /\ \A h \in Handlers : handler[h].pc \in {"idle", "next", "call", "wait"}
                         /\ handler[h].tries \in 0 .. MaxTries
  /\ ringing \in 0 .. listeners

\* An occurrence queues jobs once, whatever is sent again by the client, handled
\* after it timed out, or forgotten by a restart or by the bound on tokens.
OncePerOccurrence == \A o \in Occurrences : batches[o] <= 1

\* A token says succeeded only if the Worker has accepted that very occurrence,
\* not an earlier request that shares the connection or the slot.
SucceededMeansAccepted ==
  \A o \in Occurrences : token[o] = "succeeded" => seen[o] # "none"

\* Every callback ends: its attempts are bounded and each of them ends.
CallbacksEnd == \A h \in Handlers : handler[h].pc # "idle" ~> handler[h].pc = "idle"

-----------------------------------------------------------------------------
(* What callbacks, requests and the Worker's records have to do with each  *)
(* other; it is inductive.                                                 *)

Plans == UNION {[due -> Strategies] : due \in SUBSET Collections}
HandlerStates == [pc: {"idle", "next", "call", "wait"}, minute: 0 .. MaxClock, plan: Plans,
                  tries: Nat, slot: Slots \cup {NoSlot}]
Requests == [pc: {"sent", "scanned"}, key: Occurrences, strategy: Strategies]

DispatchTyped ==
  /\ clock \in 1 .. MaxClock
  /\ handler \in [Handlers -> HandlerStates]
  /\ token \in [Occurrences -> TokenStates]
  /\ net \in [Slots -> Requests \cup {NoRequest}]
  /\ seen \in [Occurrences -> Strategies \cup {"none"}]
  /\ batches \in [Occurrences -> Nat]

\* A callback holds a slot only while it waits, and it has something to submit
\* whenever it calls.
HandlersInStep ==
  \A h \in Handlers :
    /\ handler[h].slot # NoSlot => handler[h].pc = "wait"
    /\ handler[h].pc # "idle" => handler[h].minute > 0
    /\ handler[h].pc \in {"call", "wait"} => DOMAIN handler[h].plan # {}

\* The request in the slot a callback waits for is about its current
\* occurrence, and nobody else waits for it.
AnswersAreOwn ==
  /\ \A h \in Handlers : handler[h].slot # NoSlot =>
       /\ net[handler[h].slot] # NoRequest
       /\ net[handler[h].slot].key = Current(h)
  /\ \A g, h \in Handlers : handler[g].slot = handler[h].slot /\ handler[g].slot # NoSlot => g = h

\* Jobs are queued only together with the record of their key.
JobsAreRecorded == \A o \in Occurrences : batches[o] > 0 => seen[o] # "none"

DispatchInv ==
  /\ DispatchTyped
  /\ HandlersInStep
  /\ AnswersAreOwn
  /\ JobsAreRecorded
  /\ OncePerOccurrence
  /\ SucceededMeansAccepted
=============================================================================
