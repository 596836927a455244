---------------------------- MODULE DispatchProofs ----------------------------
(***************************************************************************)
(* Proofs about Dispatch, for every set of policies, number of callbacks,  *)
(* requests, restarts and attempts: an occurrence queues jobs once, a      *)
(* token that says succeeded says the truth, and tokens stay bounded.      *)
(***************************************************************************)
EXTENDS Dispatch, TLAPS, WellFoundedInduction, FiniteSetTheorems

-----------------------------------------------------------------------------
(* Operators.                                                              *)

\* A set of numbers that is not empty has a first one.
LEMMA FirstIsMember ==
  ASSUME NEW ids \in SUBSET Nat, ids # {}
  PROVE  First(ids) \in ids
<1> DEFINE Before == OpToRel(<, Nat)
<1>1. IsWellFoundedOn(Before, Nat) BY NatLessThanWellFounded
<1>2. PICK x \in ids : \A y \in ids : ~(<<y, x>> \in Before)
  BY <1>1, WFMin
<1>3. \A y \in ids : ~(y < x) BY <1>2 DEF OpToRel
<1>4. \A y \in ids : x <= y BY <1>3
<1> QED BY <1>4 DEF First

\* The bound on tokens only ever takes tokens away.
LEMMA PrunedOnlyForgets ==
  ASSUME NEW states \in [Occurrences -> TokenStates]
  PROVE  /\ Pruned(states) \in [Occurrences -> TokenStates]
         /\ \A o \in Occurrences : Pruned(states)[o] \in {states[o], "none"}
BY DEF Pruned, TokenStates

\* What setting a token does to all of them.
LEMMA TokenSet ==
  ASSUME token \in [Occurrences -> TokenStates], NEW o \in Occurrences,
         NEW state \in TokenStates, SetToken(o, state)
  PROVE  /\ token' \in [Occurrences -> TokenStates]
         /\ \A p \in Occurrences :
              token'[p] = "succeeded" => token[p] = "succeeded" \/ (p = o /\ state = "succeeded")
<1> DEFINE set == [token EXCEPT ![o] = state]
<1>1. set \in [Occurrences -> TokenStates] OBVIOUS
<1>2. /\ Pruned(set) \in [Occurrences -> TokenStates]
      /\ \A p \in Occurrences : Pruned(set)[p] \in {set[p], "none"}
  BY <1>1, PrunedOnlyForgets
<1>3. token' = Pruned(set) BY DEF SetToken
<1> QED BY <1>2, <1>3

\* A callback that calls is about an occurrence.
LEMMA CurrentIsOccurrence ==
  ASSUME DispatchTyped, HandlersInStep, NEW h \in Handlers,
         handler[h].pc # "idle", DOMAIN handler[h].plan # {}
  PROVE  /\ Current(h) \in Occurrences
         /\ Current(h)[1] \in DOMAIN handler[h].plan
         /\ handler[h].plan[Current(h)[1]] \in Strategies
<1>1. handler[h] \in HandlerStates /\ handler[h].minute > 0
  BY DEF DispatchTyped, HandlersInStep
<1>2. PICK due \in SUBSET Collections : handler[h].plan \in [due -> Strategies]
  BY <1>1 DEF HandlerStates, Plans
<1>3. DOMAIN handler[h].plan = due /\ due \in SUBSET Nat
  BY <1>2, ResolverAssumption
<1>4. First(DOMAIN handler[h].plan) \in due
  BY <1>3, FirstIsMember
<1>5. handler[h].minute \in 1 .. MaxClock BY <1>1, DispatchAssumption DEF HandlerStates
<1> QED BY <1>2, <1>3, <1>4, <1>5 DEF Current, Occurrences

-----------------------------------------------------------------------------
(* Steps of a callback.                                                    *)

\* Callback h is somewhere it may be, and waits for no answer.
Free(h) ==
  /\ handler' \in [Handlers -> HandlerStates]
  /\ \A g \in Handlers \ {h} : handler'[g] = handler[g]
  /\ handler'[h].slot = NoSlot
  /\ handler'[h].pc # "idle" => handler'[h].minute > 0
  /\ handler'[h].pc \in {"call", "wait"} => DOMAIN handler'[h].plan # {}

\* The tokens that say succeeded said so before.
NoneSucceeds ==
  /\ token' \in [Occurrences -> TokenStates]
  /\ \A o \in Occurrences : token'[o] = "succeeded" => token[o] = "succeeded"

LEMMA FreeKeeps ==
  ASSUME DispatchInv, NEW h \in Handlers, Free(h), NoneSucceeds,
         UNCHANGED <<net, seen, batches>>, clock' \in 1 .. MaxClock
  PROVE  DispatchInv'
<1>1. DispatchTyped' BY DEF DispatchInv, DispatchTyped, Free, NoneSucceeds
<1>2. HandlersInStep' BY DEF DispatchInv, HandlersInStep, Free
<1>3. AnswersAreOwn'
  <2>1. ASSUME NEW g \in Handlers, handler'[g].slot # NoSlot PROVE g # h /\ handler'[g] = handler[g]
    BY <2>1 DEF Free
  <2>2. \A g \in Handlers : handler'[g] = handler[g] => Current(g)' = Current(g)
    BY DEF Current
  <2> QED BY <2>1, <2>2 DEF DispatchInv, AnswersAreOwn
<1>4. JobsAreRecorded' /\ OncePerOccurrence' BY DEF DispatchInv, JobsAreRecorded, OncePerOccurrence
<1>5. SucceededMeansAccepted' BY DEF DispatchInv, SucceededMeansAccepted, NoneSucceeds
<1> QED BY <1>1, <1>2, <1>3, <1>4, <1>5 DEF DispatchInv

\* A smaller plan is a plan.
LEMMA WithoutIsPlan ==
  ASSUME NEW plan \in Plans, NEW c
  PROVE  Without(plan, c) \in Plans
<1>1. PICK due \in SUBSET Collections : plan \in [due -> Strategies] BY DEF Plans
<1>2. Without(plan, c) \in [due \ {c} -> Strategies] BY <1>1 DEF Without
<1> QED BY <1>2 DEF Plans

LEMMA IdleTyped == IdleHandler \in HandlerStates /\ NoPlan \in Plans
<1>1. NoPlan \in [{} -> Strategies] BY DEF NoPlan
<1>2. NoPlan \in Plans BY <1>1 DEF Plans
<1> QED BY <1>2, DispatchAssumption DEF IdleHandler, HandlerStates

\* What is known of a callback that has something to submit.
LEMMA Busy ==
  ASSUME DispatchInv, NEW h \in Handlers, handler[h].pc \in {"call", "wait"}
  PROVE  /\ handler \in [Handlers -> HandlerStates] /\ handler[h] \in HandlerStates
         /\ handler[h].minute > 0 /\ DOMAIN handler[h].plan # {}
         /\ Current(h) \in Occurrences
         /\ handler[h].plan[Current(h)[1]] \in Strategies
         /\ token \in [Occurrences -> TokenStates]
<1>1. DispatchTyped /\ HandlersInStep BY DEF DispatchInv
<1>2. handler \in [Handlers -> HandlerStates] /\ token \in [Occurrences -> TokenStates]
      /\ handler[h].minute > 0 /\ DOMAIN handler[h].plan # {}
  BY <1>1 DEF DispatchTyped, HandlersInStep
<1> QED BY <1>1, <1>2, CurrentIsOccurrence

LEMMA FailFrees ==
  ASSUME DispatchInv, NEW h \in Handlers, handler[h].pc \in {"call", "wait"}, Fail(h)
  PROVE  Free(h) /\ NoneSucceeds
<1>1. "failed" \in TokenStates BY DEF TokenStates
<1>2. NoneSucceeds BY <1>1, Busy, TokenSet DEF Fail, NoneSucceeds
<1>3. Free(h) BY Busy, IdleTyped DEF Fail, Free, IdleHandler
<1> QED BY <1>2, <1>3

LEMMA AgainFrees ==
  ASSUME DispatchInv, NEW h \in Handlers, handler[h].pc \in {"call", "wait"}, Again(h)
  PROVE  Free(h) /\ NoneSucceeds
<1>1. CASE handler[h].tries = MaxTries BY <1>1, FailFrees DEF Again
<1>2. CASE handler[h].tries # MaxTries
  <2>1. handler' = [handler EXCEPT ![h].pc = "call", ![h].slot = NoSlot] /\ token' = token
    BY <1>2 DEF Again
  <2>2. NoneSucceeds BY <2>1, Busy DEF NoneSucceeds
  <2>3. Free(h) BY <2>1, Busy DEF Free, HandlerStates
  <2> QED BY <2>2, <2>3
<1> QED BY <1>1, <1>2

LEMMA SucceedFrees ==
  ASSUME DispatchInv, NEW h \in Handlers, handler[h].pc = "wait", Succeed(h)
  PROVE  /\ Free(h)
         /\ token' \in [Occurrences -> TokenStates]
         /\ \A o \in Occurrences :
              token'[o] = "succeeded" => token[o] = "succeeded" \/ o = Current(h)
<1>1. "succeeded" \in TokenStates BY DEF TokenStates
<1>2. Without(handler[h].plan, Current(h)[1]) \in Plans
  BY Busy, WithoutIsPlan DEF HandlerStates
<1>3. Free(h) BY <1>2, Busy DEF Succeed, Free, HandlerStates
<1> QED BY <1>1, <1>3, Busy, TokenSet DEF Succeed

LEMMA FireInv == ASSUME DispatchInv, NEW h \in Handlers, Fire(h) PROVE DispatchInv'
<1> USE DEF Fire
<1>1. handler \in [Handlers -> HandlerStates] /\ clock \in 1 .. MaxClock
      /\ token \in [Occurrences -> TokenStates] /\ handler[h].slot = NoSlot
  BY DEF DispatchInv, DispatchTyped, HandlersInStep
<1>2. PICK known \in Configs :
        LET due == DueAt(known, clock)
        IN  handler' = IF due = {} THEN handler
                       ELSE [handler EXCEPT ![h] =
                         [pc |-> "next", minute |-> clock, tries |-> 0, slot |-> NoSlot,
                          plan |-> [c \in due |-> known[c].schedule.strategy]]]
  OBVIOUS
<1> DEFINE plan == [c \in DueAt(known, clock) |-> known[c].schedule.strategy]
           new  == [pc |-> "next", minute |-> clock, tries |-> 0, slot |-> NoSlot, plan |-> plan]
<1>3. Free(h)
  <2>1. CASE DueAt(known, clock) = {}
    BY <1>1, <1>2, <2>1 DEF Free
  <2>2. CASE DueAt(known, clock) # {}
    <3>1. plan \in [DueAt(known, clock) -> Strategies] /\ DueAt(known, clock) \in SUBSET Collections
      BY DispatchAssumption DEF DueAt
    <3>2. plan \in Plans BY <3>1 DEF Plans
    <3>3. handler' = [handler EXCEPT ![h] = new] BY <1>2, <2>2
    <3> HIDE DEF plan
    <3>4. new \in HandlerStates /\ new.slot = NoSlot /\ new.minute > 0 /\ new.pc = "next"
      <4>1. clock \in 0 .. MaxClock /\ clock > 0 BY <1>1, DispatchAssumption
      <4> QED BY <3>2, <4>1 DEF HandlerStates
    <3> HIDE DEF new
    <3> QED BY <1>1, <3>3, <3>4 DEF Free
  <2> QED BY <2>1, <2>2
<1>4. NoneSucceeds BY <1>1 DEF NoneSucceeds
<1> QED BY <1>1, <1>3, <1>4, FreeKeeps DEF worldVars, serverVars

LEMMA NextDueInv == ASSUME DispatchInv, NEW h \in Handlers, NextDue(h) PROVE DispatchInv'
<1> USE DEF NextDue
<1>1. handler \in [Handlers -> HandlerStates] /\ clock \in 1 .. MaxClock
      /\ token \in [Occurrences -> TokenStates] /\ handler[h].slot = NoSlot
      /\ handler[h].minute > 0 /\ handler[h] \in HandlerStates
  BY DEF DispatchInv, DispatchTyped, HandlersInStep
<1>2. Free(h) /\ NoneSucceeds
  <2>1. CASE DOMAIN handler[h].plan = {}
    BY <1>1, <2>1, IdleTyped DEF Free, NoneSucceeds, IdleHandler
  <2>2. CASE DOMAIN handler[h].plan # {} /\ token[Current(h)] = "succeeded"
    <3>1. Without(handler[h].plan, Current(h)[1]) \in Plans
      BY <1>1, WithoutIsPlan DEF HandlerStates
    <3> QED BY <1>1, <2>2, <3>1 DEF Free, NoneSucceeds, HandlerStates
  <2>3. CASE DOMAIN handler[h].plan # {} /\ token[Current(h)] # "succeeded"
    <3>1. handler' = [handler EXCEPT ![h].pc = "call", ![h].tries = 0]
          /\ SetToken(Current(h), "pending")
      BY <2>3
    <3>2. Current(h) \in Occurrences
      BY <2>3, CurrentIsOccurrence DEF DispatchInv
    <3>3. NoneSucceeds BY <1>1, <3>1, <3>2, TokenSet DEF NoneSucceeds, TokenStates
    <3>4. Free(h) BY <1>1, <2>3, <3>1 DEF Free, HandlerStates
    <3> QED BY <3>3, <3>4
  <2> QED BY <2>1, <2>2, <2>3
<1> QED BY <1>1, <1>2, FreeKeeps DEF worldVars, serverVars

LEMMA CannotConnectInv ==
  ASSUME DispatchInv, NEW h \in Handlers, CannotConnect(h) PROVE DispatchInv'
<1> USE DEF CannotConnect
<1>1. clock \in 1 .. MaxClock /\ handler[h].slot = NoSlot
  BY DEF DispatchInv, DispatchTyped, HandlersInStep
<1>2. CASE handler[h].tries + 1 = MaxTries
  BY <1>1, <1>2, FailFrees, FreeKeeps DEF worldVars, serverVars
<1>3. CASE handler[h].tries + 1 # MaxTries
  <2>1. handler' = [handler EXCEPT ![h].tries = @ + 1] /\ token' = token BY <1>3
  <2>2. NoneSucceeds BY <2>1, Busy DEF NoneSucceeds
  <2>3. Free(h) BY <1>1, <2>1, Busy DEF Free, HandlerStates
  <2> QED BY <1>1, <2>2, <2>3, FreeKeeps DEF worldVars, serverVars
<1> QED BY <1>2, <1>3

LEMMA TimeoutInv == ASSUME DispatchInv, NEW h \in Handlers, Timeout(h) PROVE DispatchInv'
<1>1. clock \in 1 .. MaxClock BY DEF DispatchInv, DispatchTyped
<1> QED BY <1>1, AgainFrees, FreeKeeps DEF Timeout, worldVars, serverVars

-----------------------------------------------------------------------------
(* Steps of the Worker.                                                    *)

\* A callback keeps its current occurrence while it and its plan stay.
LEMMA SameCurrent ==
  ASSUME NEW h \in Handlers, handler'[h].plan = handler[h].plan,
         handler'[h].minute = handler[h].minute
  PROVE  Current(h)' = Current(h)
BY DEF Current

\* Records are only added, and jobs never without one.
Recorded ==
  /\ seen' \in [Occurrences -> Strategies \cup {"none"}]
  /\ batches' \in [Occurrences -> Nat]
  /\ \A o \in Occurrences :
       /\ seen[o] # "none" => seen'[o] # "none"
       /\ batches'[o] <= 1 /\ (batches'[o] > 0 => seen'[o] # "none")

\* A request that is answered, whatever the answer is.
LEMMA AnswerInv ==
  ASSUME DispatchInv, NEW s \in Slots, NEW status, net[s] # NoRequest, Answer(s, status),
         Recorded, status = "ok" => seen'[net[s].key] # "none"
  PROVE  DispatchInv'
<1>1. /\ handler \in [Handlers -> HandlerStates] /\ net \in [Slots -> Requests \cup {NoRequest}]
      /\ token \in [Occurrences -> TokenStates] /\ clock' \in 1 .. MaxClock
  BY DEF DispatchInv, DispatchTyped, Answer, worldVars
<1>2. net' = [net EXCEPT ![s] = NoRequest] BY DEF Answer
<1>3. NoSlot \notin Slots BY DispatchAssumption
<1>4. CASE {h \in Handlers : handler[h].slot = s} = {}
  <2>1. UNCHANGED <<handler, token>> BY <1>4 DEF Answer
  <2>2. \A h \in Handlers : handler[h].slot # s BY <1>4
  <2>3. DispatchTyped' BY <1>1, <1>2, <2>1 DEF DispatchTyped, Recorded
  <2>4. HandlersInStep' BY <2>1 DEF DispatchInv, HandlersInStep
  <2>5. AnswersAreOwn'
    <3>1. \A h \in Handlers : Current(h)' = Current(h) BY <2>1, SameCurrent
    <3>2. \A h \in Handlers : handler[h].slot # NoSlot => net'[handler[h].slot] = net[handler[h].slot]
      BY <1>1, <1>2, <2>2 DEF HandlerStates
    <3> QED BY <2>1, <3>1, <3>2 DEF DispatchInv, AnswersAreOwn
  <2> QED BY <2>1, <2>3, <2>4, <2>5
          DEF DispatchInv, Recorded, JobsAreRecorded, OncePerOccurrence, SucceededMeansAccepted
<1>5. CASE {h \in Handlers : handler[h].slot = s} # {}
  <2>1. PICK h \in Handlers :
          /\ handler[h].slot = s
          /\ CASE status = "ok"          -> Succeed(h)
               [] status = "unavailable" -> Again(h)
               [] OTHER                  -> Fail(h)
    BY <1>5 DEF Answer
  <2>2. handler[h].pc = "wait" /\ net[s].key = Current(h)
        /\ \A g \in Handlers \ {h} : handler[g].slot # s
    BY <1>3, <2>1 DEF DispatchInv, HandlersInStep, AnswersAreOwn
  <2>3. /\ Free(h)
        /\ token' \in [Occurrences -> TokenStates]
        /\ \A o \in Occurrences :
             token'[o] = "succeeded" =>
               token[o] = "succeeded" \/ (status = "ok" /\ o = Current(h))
    <3>1. CASE status = "ok" BY <2>1, <2>2, <3>1, SucceedFrees
    <3>2. CASE status = "unavailable" BY <2>1, <2>2, <3>2, AgainFrees DEF NoneSucceeds
    <3>3. CASE status \notin {"ok", "unavailable"}
      BY <2>1, <2>2, <3>3, FailFrees DEF NoneSucceeds
    <3> QED BY <3>1, <3>2, <3>3
  <2>4. DispatchTyped' BY <1>1, <1>2, <2>3 DEF DispatchTyped, Recorded, Free
  <2>5. HandlersInStep' BY <2>3 DEF DispatchInv, HandlersInStep, Free
  <2>6. AnswersAreOwn'
    <3>1. ASSUME NEW g \in Handlers, handler'[g].slot # NoSlot
          PROVE  /\ handler'[g] = handler[g] /\ handler[g].slot # s
                 /\ Current(g)' = Current(g)
                 /\ net'[handler[g].slot] = net[handler[g].slot]
      <4>1. g # h /\ handler'[g] = handler[g] BY <2>3, <3>1 DEF Free
      <4>2. handler[g].slot \in Slots \ {s} BY <1>1, <2>2, <3>1, <4>1 DEF HandlerStates
      <4> QED BY <1>1, <1>2, <4>1, <4>2, SameCurrent
    <3> QED BY <3>1 DEF DispatchInv, AnswersAreOwn
  <2>7. SucceededMeansAccepted'
    BY <2>2, <2>3 DEF DispatchInv, SucceededMeansAccepted, Recorded
  <2> QED BY <2>4, <2>5, <2>6, <2>7 DEF DispatchInv, Recorded, JobsAreRecorded, OncePerOccurrence
<1> QED BY <1>4, <1>5

\* A request that is there.
LEMMA RequestTyped ==
  ASSUME DispatchInv, NEW s \in Slots, net[s].pc \in {"sent", "scanned"}
  PROVE  /\ net[s] # NoRequest /\ net[s] \in Requests
         /\ net[s].key \in Occurrences /\ net[s].strategy \in Strategies
         /\ net \in [Slots -> Requests \cup {NoRequest}]
         /\ seen \in [Occurrences -> Strategies \cup {"none"}]
         /\ batches \in [Occurrences -> Nat]
<1>1. net \in [Slots -> Requests \cup {NoRequest}] /\ net[s] # NoRequest
  BY DEF DispatchInv, DispatchTyped, NoRequest
<1> QED BY <1>1 DEF DispatchInv, DispatchTyped, Requests

\* The records with a new one, with and without its jobs.
LEMMA NothingRecorded ==
  ASSUME DispatchInv, UNCHANGED <<seen, batches>> PROVE Recorded
BY DEF DispatchInv, DispatchTyped, Recorded, JobsAreRecorded, OncePerOccurrence

LEMMA KeyRecorded ==
  ASSUME DispatchInv, NEW key \in Occurrences, NEW strategy \in Strategies,
         Remember(key, strategy), UNCHANGED batches
  PROVE  Recorded /\ seen'[key] # "none"
BY DEF DispatchInv, DispatchTyped, Remember, Recorded, JobsAreRecorded, OncePerOccurrence, Strategies

LEMMA JobsRecorded ==
  ASSUME DispatchInv, NEW key \in Occurrences, NEW strategy \in Strategies,
         seen[key] = "none", Remember(key, strategy), QueueJobs(key)
  PROVE  Recorded /\ seen'[key] # "none"
<1>1. batches[key] = 0 BY DEF DispatchInv, DispatchTyped, JobsAreRecorded
<1> QED BY <1>1 DEF DispatchInv, DispatchTyped, Remember, QueueJobs, Recorded, JobsAreRecorded,
                    OncePerOccurrence, Strategies

LEMMA ReplayInv == ASSUME DispatchInv, NEW s \in Slots, Replay(s) PROVE DispatchInv'
BY RequestTyped, NothingRecorded, AnswerInv DEF Replay

LEMMA AcceptInv == ASSUME DispatchInv, NEW s \in Slots, Accept(s) PROVE DispatchInv'
<1> USE DEF Accept
<1>1. net[s] # NoRequest /\ net[s].key \in Occurrences /\ net[s].strategy \in Strategies
  BY RequestTyped
<1>2. CASE Remember(net[s].key, net[s].strategy) /\ QueueJobs(net[s].key) /\ Answer(s, "ok")
  BY <1>1, <1>2, JobsRecorded, AnswerInv
<1>3. CASE Remember(net[s].key, net[s].strategy) /\ Answer(s, "ok") /\ UNCHANGED batches
  BY <1>1, <1>3, KeyRecorded, AnswerInv
<1>4. CASE UNCHANGED <<seen, batches>> /\ Answer(s, "invalid")
  BY <1>1, <1>4, NothingRecorded, AnswerInv
<1> QED BY <1>2, <1>3, <1>4

LEMMA StoreInv == ASSUME DispatchInv, NEW s \in Slots, Store(s) PROVE DispatchInv'
<1> USE DEF Store
<1>1. net[s] # NoRequest /\ net[s].key \in Occurrences /\ net[s].strategy \in Strategies
  BY RequestTyped
<1>2. CASE UNCHANGED <<seen, batches>> /\ Answer(s, "unavailable")
  BY <1>1, <1>2, NothingRecorded, AnswerInv
<1>3. CASE /\ seen[net[s].key] = "none" /\ Remember(net[s].key, net[s].strategy)
           /\ QueueJobs(net[s].key) /\ Answer(s, "ok")
  BY <1>1, <1>3, JobsRecorded, AnswerInv
<1>4. CASE UNCHANGED <<seen, batches>> /\ Answer(s, "invalid")
  BY <1>1, <1>4, NothingRecorded, AnswerInv
<1> QED BY <1>2, <1>3, <1>4

\* The scan that comes before the jobs; the request stays about its key.
LEMMA ScanInv == ASSUME DispatchInv, NEW s \in Slots, Scan(s) PROVE DispatchInv'
<1> USE DEF Scan
<1>1. net[s] # NoRequest /\ net[s].key \in Occurrences /\ net[s].strategy \in Strategies
      /\ net[s] \in Requests /\ net \in [Slots -> Requests \cup {NoRequest}]
  BY RequestTyped
<1>2. CASE Remember(net[s].key, net[s].strategy) /\ Answer(s, "ok")
  BY <1>1, <1>2, KeyRecorded, AnswerInv
<1>3. CASE net' = [net EXCEPT ![s].pc = "scanned"]
           /\ UNCHANGED <<seen, handler, token, bells, worldVars>>
  <2>1. /\ net' \in [Slots -> Requests \cup {NoRequest}]
        /\ net'[s].key = net[s].key /\ net'[s] # NoRequest
        /\ \A r \in Slots \ {s} : net'[r] = net[r]
    <3>1. net'[s] \in Requests /\ net'[s].key = net[s].key /\ net'[s].pc = "scanned"
      BY <1>1, <1>3 DEF Requests
    <3> QED BY <1>1, <1>3, <3>1 DEF NoRequest
  <2>2. DispatchTyped' BY <1>3, <2>1 DEF DispatchInv, DispatchTyped, worldVars
  <2>3. HandlersInStep' BY <1>3 DEF DispatchInv, HandlersInStep
  <2>4. AnswersAreOwn'
    <3>1. \A h \in Handlers : Current(h)' = Current(h) BY <1>3, SameCurrent
    <3>2. \A h \in Handlers : handler[h].slot # NoSlot => handler[h].slot \in Slots
      BY DEF DispatchInv, DispatchTyped, HandlerStates
    <3> QED BY <1>3, <2>1, <3>1, <3>2 DEF DispatchInv, AnswersAreOwn
  <2> QED BY <1>3, <2>2, <2>3, <2>4
          DEF DispatchInv, JobsAreRecorded, OncePerOccurrence, SucceededMeansAccepted
<1> QED BY <1>2, <1>3

\* A request is sent in a slot that nobody can be waiting for.
LEMMA SendInv == ASSUME DispatchInv, NEW h \in Handlers, Send(h) PROVE DispatchInv'
<1> USE DEF Send
<1>1. PICK s \in Slots :
        /\ net[s] = NoRequest
        /\ net' = [net EXCEPT ![s] = [pc |-> "sent", key |-> Current(h),
                                      strategy |-> handler[h].plan[Current(h)[1]]]]
        /\ handler' = [handler EXCEPT ![h].pc = "wait", ![h].slot = s, ![h].tries = @ + 1]
  OBVIOUS
<1>2. /\ handler \in [Handlers -> HandlerStates] /\ handler[h] \in HandlerStates
      /\ handler[h].minute > 0 /\ DOMAIN handler[h].plan # {}
      /\ Current(h) \in Occurrences /\ handler[h].plan[Current(h)[1]] \in Strategies
      /\ net \in [Slots -> Requests \cup {NoRequest}]
  BY Busy DEF DispatchInv, DispatchTyped
<1>3. /\ handler' \in [Handlers -> HandlerStates]
      /\ \A g \in Handlers \ {h} : handler'[g] = handler[g]
      /\ handler'[h].pc = "wait" /\ handler'[h].slot = s
      /\ handler'[h].minute = handler[h].minute /\ handler'[h].plan = handler[h].plan
  BY <1>1, <1>2 DEF HandlerStates
<1>4. /\ net' \in [Slots -> Requests \cup {NoRequest}]
      /\ net'[s] # NoRequest /\ net'[s].key = Current(h)
      /\ \A r \in Slots \ {s} : net'[r] = net[r]
  <2> DEFINE new == [pc |-> "sent", key |-> Current(h),
                     strategy |-> handler[h].plan[Current(h)[1]]]
  <2>1. new \in Requests /\ new.key = Current(h) /\ new.pc = "sent" BY <1>2 DEF Requests
  <2>2. net' = [net EXCEPT ![s] = new] BY <1>1
  <2> HIDE DEF new
  <2> QED BY <1>2, <2>1, <2>2 DEF NoRequest
<1>5. DispatchTyped' BY <1>3, <1>4 DEF DispatchInv, DispatchTyped, worldVars
<1>6. HandlersInStep' BY <1>2, <1>3 DEF DispatchInv, HandlersInStep
<1>7. AnswersAreOwn'
  <2>1. \A g \in Handlers : Current(g)' = Current(g) BY <1>3, SameCurrent
  <2>2. \A g \in Handlers \ {h} : handler[g].slot # NoSlot => handler[g].slot \in Slots \ {s}
    BY <1>1, <1>2 DEF DispatchInv, AnswersAreOwn, HandlerStates
  <2>3. s # NoSlot BY DispatchAssumption
  <2> QED BY <1>3, <1>4, <2>1, <2>2, <2>3 DEF DispatchInv, AnswersAreOwn
<1> QED BY <1>5, <1>6, <1>7
        DEF DispatchInv, JobsAreRecorded, OncePerOccurrence, SucceededMeansAccepted

-----------------------------------------------------------------------------
(* Time, outages and restarts.                                             *)

\* A step that leaves callbacks, requests and records alone.
LEMMA TimeInv ==
  ASSUME DispatchInv, UNCHANGED <<handler, token, net, seen, batches>>, clock' \in 1 .. MaxClock
  PROVE  DispatchInv'
BY DEF DispatchInv, DispatchTyped, HandlersInStep, AnswersAreOwn, Current, JobsAreRecorded,
       OncePerOccurrence, SucceededMeansAccepted

\* Nobody waits for an answer any more.
LEMMA NobodyWaits ==
  ASSUME DispatchInv, UNCHANGED <<token, seen, batches>>, clock' \in 1 .. MaxClock,
         net' \in [Slots -> Requests \cup {NoRequest}],
         handler' \in [Handlers -> HandlerStates],
         \A h \in Handlers :
           /\ handler'[h].slot = NoSlot
           /\ handler'[h].pc # "idle" => /\ handler'[h].pc = handler[h].pc
                                         /\ handler'[h].minute = handler[h].minute
                                         /\ handler'[h].plan = handler[h].plan
  PROVE  DispatchInv'
<1>1. DispatchTyped' BY DEF DispatchInv, DispatchTyped
<1>2. HandlersInStep' BY DEF DispatchInv, HandlersInStep
<1>3. AnswersAreOwn' BY DEF AnswersAreOwn
<1> QED BY <1>1, <1>2, <1>3
        DEF DispatchInv, JobsAreRecorded, OncePerOccurrence, SucceededMeansAccepted

LEMMA StopWorkerInv == ASSUME DispatchInv, StopWorker PROVE DispatchInv'
<1> USE DEF StopWorker
<1>1. handler \in [Handlers -> HandlerStates] /\ clock \in 1 .. MaxClock
  BY DEF DispatchInv, DispatchTyped
<1>2. \A h \in Handlers : /\ handler'[h] \in HandlerStates /\ handler'[h].slot = NoSlot
                          /\ handler'[h].pc = handler[h].pc
                          /\ handler'[h].minute = handler[h].minute
                          /\ handler'[h].plan = handler[h].plan
  BY <1>1 DEF HandlerStates
<1>3. handler' \in [Handlers -> HandlerStates] BY <1>2
<1> QED BY <1>1, <1>2, <1>3, NobodyWaits

LEMMA RestartInv == ASSUME DispatchInv, Restart PROVE DispatchInv'
<1> USE DEF Restart
<1>1. clock' \in 1 .. MaxClock /\ net' \in [Slots -> Requests \cup {NoRequest}]
      /\ UNCHANGED <<token, seen, batches>>
  BY DEF DispatchInv, DispatchTyped, serverVars
<1>2. handler' \in [Handlers -> HandlerStates] BY IdleTyped
<1> QED BY <1>1, <1>2, NobodyWaits DEF IdleHandler

-----------------------------------------------------------------------------
(* The theorems.                                                           *)

LEMMA InitInv == Init => DispatchInv
<1> SUFFICES ASSUME Init PROVE DispatchInv
  OBVIOUS
<1> USE DEF Init
<1>1. DispatchTyped BY IdleTyped, DispatchAssumption DEF DispatchTyped, TokenStates
<1>2. HandlersInStep /\ AnswersAreOwn BY DEF HandlersInStep, AnswersAreOwn, IdleHandler
<1>3. JobsAreRecorded /\ OncePerOccurrence /\ SucceededMeansAccepted
  BY DEF JobsAreRecorded, OncePerOccurrence, SucceededMeansAccepted
<1> QED BY <1>1, <1>2, <1>3 DEF DispatchInv

LEMMA NextInv == DispatchInv /\ [Next]_vars => DispatchInv'
<1> SUFFICES ASSUME DispatchInv, [Next]_vars PROVE DispatchInv'
  OBVIOUS
<1>1. CASE \E h \in Handlers : Callback(h)
  BY <1>1, FireInv, NextDueInv, SendInv, CannotConnectInv, TimeoutInv DEF Callback
<1>2. CASE \E s \in Slots : Serve(s)
  BY <1>2, ReplayInv, AcceptInv, ScanInv, StoreInv DEF Serve
<1>3. CASE StopWorker BY <1>3, StopWorkerInv
<1>4. CASE StartWorker \/ Tick \/ UNCHANGED vars
  <2>1. clock' \in 1 .. MaxClock
    BY <1>4, DispatchAssumption
       DEF DispatchInv, DispatchTyped, StartWorker, Tick, vars, worldVars
  <2> QED BY <1>4, <2>1, TimeInv DEF StartWorker, Tick, vars, schedulerVars, serverVars
<1>5. CASE Restart BY <1>5, RestartInv
<1> QED BY <1>1, <1>2, <1>3, <1>4, <1>5 DEF Next

\* The inductive invariant: an answer reaches only the callback that asked, about
\* the occurrence it asked for, and jobs go together with their record.
THEOREM DispatchInvariant == Spec => []DispatchInv
BY InitInv, NextInv, PTL DEF Spec

\* However often a request is repeated, handled late or sent again after a
\* restart, an occurrence queues jobs once.
THEOREM JobsOncePerOccurrence == Spec => []OncePerOccurrence
<1>1. DispatchInv => OncePerOccurrence BY DEF DispatchInv
<1> QED BY DispatchInvariant, <1>1, PTL

\* A token says succeeded only of an occurrence whose request was accepted.
THEOREM TokensSayTheTruth == Spec => []SucceededMeansAccepted
<1>1. DispatchInv => SucceededMeansAccepted BY DEF DispatchInv
<1> QED BY DispatchInvariant, <1>1, PTL

-----------------------------------------------------------------------------
(* The bounds: attempts, tokens and listeners.                             *)

Tokens(states) == {o \in Occurrences : states[o] # "none"}

\* One occurrence before another, in the order of the tokens' text.
Before(p, q) == p[1] < q[1] \/ (p[1] = q[1] /\ p[2] < q[2])

LEMMA FirstIsLeast ==
  ASSUME NEW ids \in SUBSET Nat, ids # {}
  PROVE  First(ids) \in ids /\ \A y \in ids : First(ids) <= y
<1> DEFINE Less == OpToRel(<, Nat)
<1>1. IsWellFoundedOn(Less, Nat) BY NatLessThanWellFounded
<1>2. PICK x \in ids : \A y \in ids : ~(<<y, x>> \in Less)
  BY <1>1, WFMin
<1>3. \A y \in ids : ~(y < x) BY <1>2 DEF OpToRel
<1>4. \A y \in ids : x <= y BY <1>3
<1> QED BY <1>4 DEF First

\* Of some occurrences one is before all others.
LEMMA EarliestOccurrence ==
  ASSUME NEW some \in SUBSET Occurrences, some # {}
  PROVE  \E o \in some : \A p \in some \ {o} : Before(o, p)
<1>1. \A o \in Occurrences : o[1] \in Nat /\ o[2] \in Nat /\ o = <<o[1], o[2]>>
  <2>1. Collections \subseteq Nat BY ResolverAssumption
  <2>2. 1 .. MaxClock \subseteq Nat OBVIOUS
  <2>3. TAKE o \in Occurrences
  <2>4. PICK c \in Collections, m \in 1 .. MaxClock : o = <<c, m>> BY DEF Occurrences
  <2> QED BY <2>1, <2>2, <2>4
<1> DEFINE firsts == {o[1] : o \in some}
           a      == First(firsts)
           rest   == {o \in some : o[1] = a}
           seconds == {o[2] : o \in rest}
           b      == First(seconds)
<1>2. a \in firsts /\ \A y \in firsts : a <= y
  <2>1. firsts \in SUBSET Nat /\ firsts # {} BY <1>1
  <2> HIDE DEF firsts
  <2> QED BY <2>1, FirstIsLeast
<1> HIDE DEF a
<1>3. b \in seconds /\ \A y \in seconds : b <= y
  <2>1. seconds \in SUBSET Nat /\ seconds # {} BY <1>1, <1>2
  <2> HIDE DEF seconds
  <2> QED BY <2>1, FirstIsLeast
<1> HIDE DEF b
<1>4. PICK o \in some : o[1] = a /\ o[2] = b BY <1>3
<1>5. ASSUME NEW p \in some \ {o} PROVE Before(o, p)
  <2>1. a <= p[1] BY <1>2
  <2>2. p[1] = a => b <= p[2] BY <1>3
  <2>3. p[1] # a \/ p[2] # b BY <1>1, <1>4
  <2> QED BY <1>1, <1>4, <2>1, <2>2, <2>3 DEF Before
<1> QED BY <1>5

\* The bound on tokens holds after it has been applied.
LEMMA PrunedIsBounded ==
  ASSUME NEW states \in [Occurrences -> TokenStates], IsFiniteSet(Tokens(states))
  PROVE  IsFiniteSet(Tokens(Pruned(states))) /\ Cardinality(Tokens(Pruned(states))) <= TokenLimit
<1> DEFINE present == Tokens(states)
           left    == Tokens(Pruned(states))
           After(o) == {q \in present : Before(o, q)}
<1>1. \A o \in left : o \in present /\ Cardinality(After(o)) < TokenLimit
  BY DEF Tokens, Pruned, Before
<1>2. left \in SUBSET present /\ left \in SUBSET Occurrences BY <1>1 DEF Tokens
<1>3. IsFiniteSet(left) BY <1>2, FS_Subset
<1> HIDE DEF left
<1> TokenLimit \in Nat BY DispatchAssumption
<1>4. ASSUME left = {} PROVE Cardinality(left) <= TokenLimit
  BY <1>4, FS_EmptySet
<1>5. ASSUME left # {} PROVE Cardinality(left) <= TokenLimit
  <2>1. PICK o \in left : \A p \in left \ {o} : Before(o, p)
    BY <1>2, <1>5, EarliestOccurrence
  <2>2. left \ {o} \in SUBSET After(o) BY <1>2, <2>1
  <2>3. IsFiniteSet(After(o)) BY FS_Subset
  <2>4. Cardinality(After(o)) < TokenLimit BY <1>1, <2>1
  <2>5. /\ Cardinality(left \ {o}) <= Cardinality(After(o))
        /\ Cardinality(After(o)) \in Nat
    <3> HIDE DEF After
    <3> QED BY <2>2, <2>3, FS_Subset, FS_CardinalityType
  <2>6. IsFiniteSet(left \ {o}) /\ Cardinality(left \ {o}) = Cardinality(left) - 1
        /\ Cardinality(left) \in Nat
    BY <1>3, <2>1, FS_RemoveElement, FS_CardinalityType
  <2> HIDE DEF After
  <2> QED BY <2>4, <2>5, <2>6
<1>6. Cardinality(left) <= TokenLimit BY <1>4, <1>5
<1> QED BY <1>3, <1>6 DEF left

TokensBounded == IsFiniteSet(Tokens(token)) /\ Cardinality(Tokens(token)) <= TokenLimit
Bounded(own) == own.tries \in 0 .. MaxTries /\ (own.pc = "call" => own.tries < MaxTries)
BoundsInv ==
  /\ TokensBounded
  /\ \A h \in Handlers : Bounded(handler[h])
  /\ listeners \in Nat /\ ringing \in 0 .. listeners

\* A step forgets nothing but by setting the token of an occurrence.
Marks == token' = token \/ \E o \in Occurrences, state \in TokenStates : SetToken(o, state)

\* What the end of a call makes of the callback.
Ends(h) ==
  /\ Marks
  /\ \A g \in Handlers \ {h} : handler'[g] = handler[g]
  /\ Bounded(handler'[h])

LEMMA IdleBounded == Bounded(IdleHandler)
BY DispatchAssumption DEF Bounded, IdleHandler

LEMMA CallEnds ==
  ASSUME DispatchInv, BoundsInv, NEW h \in Handlers, handler[h].pc \in {"call", "wait"},
         Succeed(h) \/ Fail(h) \/ Again(h)
  PROVE  Ends(h)
<1>1. /\ handler \in [Handlers -> HandlerStates] /\ Current(h) \in Occurrences
      /\ Bounded(handler[h]) /\ handler[h] \in HandlerStates
  BY Busy DEF BoundsInv
<1>2. {"succeeded", "failed"} \subseteq TokenStates BY DEF TokenStates
<1>3. CASE Fail(h) BY <1>1, <1>2, <1>3, IdleBounded DEF Fail, Ends, Marks
<1>4. CASE Succeed(h)
  <2>1. handler'[h].pc = "next" /\ handler'[h].tries = handler[h].tries
        /\ \A g \in Handlers \ {h} : handler'[g] = handler[g]
    BY <1>1, <1>4 DEF Succeed, HandlerStates
  <2> QED BY <1>1, <1>2, <1>4, <2>1 DEF Succeed, Ends, Marks, Bounded
<1>5. CASE Again(h) /\ handler[h].tries # MaxTries
  <2>1. handler'[h].pc = "call" /\ handler'[h].tries = handler[h].tries /\ token' = token
        /\ \A g \in Handlers \ {h} : handler'[g] = handler[g]
    BY <1>1, <1>5 DEF Again, HandlerStates
  <2> QED BY <1>1, <1>5, <2>1, DispatchAssumption DEF Ends, Marks, Bounded
<1> QED BY <1>3, <1>4, <1>5 DEF Again

LEMMA AnswerEnds ==
  ASSUME DispatchInv, BoundsInv, NEW s \in Slots, NEW status, Answer(s, status)
  PROVE  Marks /\ \A g \in Handlers : Bounded(handler'[g])
<1>1. CASE {h \in Handlers : handler[h].slot = s} = {}
  BY <1>1 DEF Answer, Marks, BoundsInv
<1>2. CASE {h \in Handlers : handler[h].slot = s} # {}
  <2>1. PICK h \in Handlers : handler[h].slot = s /\ (Succeed(h) \/ Again(h) \/ Fail(h))
    BY <1>2 DEF Answer
  <2>2. handler[h].pc = "wait"
    BY <2>1, DispatchAssumption DEF DispatchInv, HandlersInStep
  <2> QED BY <2>1, <2>2, CallEnds DEF Ends, BoundsInv
<1> QED BY <1>1, <1>2

LEMMA CallbackBounds ==
  ASSUME DispatchInv, BoundsInv, NEW h \in Handlers, Callback(h)
  PROVE  Marks /\ \A g \in Handlers : Bounded(handler'[g])
<1>1. handler \in [Handlers -> HandlerStates] /\ \A g \in Handlers : Bounded(handler[g])
  BY DEF DispatchInv, DispatchTyped, BoundsInv
<1>2. CASE Fire(h)
  <2>1. token' = token BY <1>2 DEF Fire
  <2>2. PICK known \in Configs :
          LET due == DueAt(known, clock)
          IN  handler' = IF due = {} THEN handler
                         ELSE [handler EXCEPT ![h] =
                           [pc |-> "next", minute |-> clock, tries |-> 0, slot |-> NoSlot,
                            plan |-> [c \in due |-> known[c].schedule.strategy]]]
    BY <1>2 DEF Fire
  <2>3. PICK plan : plan = [c \in DueAt(known, clock) |-> known[c].schedule.strategy]
    OBVIOUS
  <2>4. Bounded([pc |-> "next", minute |-> clock, tries |-> 0, slot |-> NoSlot, plan |-> plan])
    BY DispatchAssumption DEF Bounded
  <2> QED BY <1>1, <2>1, <2>2, <2>3, <2>4 DEF Marks
<1>3. CASE NextDue(h)
  <2>1. CASE DOMAIN handler[h].plan = {}
    BY <1>1, <1>3, <2>1, IdleBounded DEF NextDue, Marks
  <2>2. CASE DOMAIN handler[h].plan # {}
    <3>1. Current(h) \in Occurrences
      BY <1>3, <2>2, CurrentIsOccurrence DEF NextDue, DispatchInv
    <3>2. Marks BY <1>3, <2>2, <3>1 DEF NextDue, Marks, TokenStates
    <3>3. /\ \A g \in Handlers \ {h} : handler'[g] = handler[g]
          /\ \/ handler'[h].pc = "next" /\ handler'[h].tries = handler[h].tries
             \/ handler'[h].pc = "call" /\ handler'[h].tries = 0
      BY <1>1, <1>3, <2>2 DEF NextDue, HandlerStates
    <3> QED BY <1>1, <3>2, <3>3, DispatchAssumption DEF Bounded
  <2> QED BY <2>1, <2>2
<1>4. CASE Send(h)
  <2>1. /\ handler[h].pc = "call" /\ token' = token
        /\ \A g \in Handlers \ {h} : handler'[g] = handler[g]
        /\ handler'[h].pc = "wait" /\ handler'[h].tries = handler[h].tries + 1
    BY <1>1, <1>4 DEF Send, HandlerStates
  <2>2. handler[h].tries \in 0 .. MaxTries /\ handler[h].tries < MaxTries
    BY <1>1, <2>1 DEF Bounded
  <2> QED BY <1>1, <2>1, <2>2, DispatchAssumption DEF Bounded, Marks
<1>5. CASE CannotConnect(h)
  <2>1. CASE handler[h].tries + 1 = MaxTries
    BY <1>1, <1>5, <2>1, CallEnds DEF CannotConnect, Ends
  <2>2. CASE handler[h].tries + 1 # MaxTries
    <3>1. /\ handler[h].pc = "call" /\ token' = token
          /\ \A g \in Handlers \ {h} : handler'[g] = handler[g]
          /\ handler'[h].pc = "call" /\ handler'[h].tries = handler[h].tries + 1
      BY <1>1, <1>5, <2>2 DEF CannotConnect, HandlerStates
    <3>2. handler[h].tries \in 0 .. MaxTries /\ handler[h].tries < MaxTries
      BY <1>1, <3>1 DEF Bounded
    <3>3. MaxTries \in Nat BY DispatchAssumption
    <3>4. Bounded(handler'[h]) BY <2>2, <3>1, <3>2, <3>3 DEF Bounded
    <3>5. Marks BY <3>1 DEF Marks
    <3> QED BY <1>1, <3>1, <3>4, <3>5
  <2> QED BY <2>1, <2>2
<1>6. CASE Timeout(h)
  BY <1>1, <1>6, CallEnds DEF Timeout, Ends
<1> QED BY <1>2, <1>3, <1>4, <1>5, <1>6 DEF Callback

LEMMA ServeBounds ==
  ASSUME DispatchInv, BoundsInv, NEW s \in Slots, Serve(s)
  PROVE  Marks /\ \A g \in Handlers : Bounded(handler'[g])
<1>1. (\E status : Answer(s, status)) \/ UNCHANGED <<handler, token>>
  BY DEF Serve, Replay, Accept, Scan, Store
<1>2. CASE UNCHANGED <<handler, token>> BY <1>2 DEF Marks, BoundsInv
<1> QED BY <1>1, <1>2, AnswerEnds

LEMMA WorldBounds ==
  ASSUME DispatchInv, BoundsInv, StopWorker \/ StartWorker \/ Tick \/ Restart \/ UNCHANGED vars
  PROVE  Marks /\ \A g \in Handlers : Bounded(handler'[g])
<1>1. handler \in [Handlers -> HandlerStates] /\ \A g \in Handlers : Bounded(handler[g])
  BY DEF DispatchInv, DispatchTyped, BoundsInv
<1>2. CASE StopWorker
  <2>1. \A g \in Handlers : handler'[g].pc = handler[g].pc /\ handler'[g].tries = handler[g].tries
    BY <1>1, <1>2 DEF StopWorker, HandlerStates
  <2> QED BY <1>1, <1>2, <2>1 DEF StopWorker, Marks, Bounded
<1>3. CASE Restart BY <1>3, IdleBounded DEF Restart, Marks
<1>4. CASE StartWorker \/ Tick \/ UNCHANGED vars
  BY <1>1, <1>4 DEF StartWorker, Tick, vars, schedulerVars, Marks
<1> QED BY <1>2, <1>3, <1>4

LEMMA BellsKept ==
  ASSUME BoundsInv, [Next]_vars
  PROVE  listeners' \in Nat /\ ringing' \in 0 .. listeners'
<1>1. listeners \in Nat /\ ringing \in 0 .. listeners BY DEF BoundsInv
<1>2. CASE \E h \in Handlers : Callback(h)
  <2>1. PICK h \in Handlers : Callback(h) BY <1>2
  <2>2. CASE Fire(h)
    <3>1. ringing > 0 /\ ringing' = ringing - 1 /\ listeners' = listeners BY <2>2 DEF Fire
    <3> QED BY <1>1, <3>1
  <2>3. CASE ~Fire(h)
    <3>1. UNCHANGED bells
      BY <2>1, <2>3 DEF Callback, NextDue, Send, CannotConnect, Timeout
    <3> QED BY <1>1, <3>1 DEF bells
  <2> QED BY <2>2, <2>3
<1>3. CASE \E s \in Slots : Serve(s)
  BY <1>1, <1>3 DEF Serve, Replay, Accept, Scan, Store, Answer, bells
<1>4. CASE StopWorker \/ StartWorker \/ Tick \/ Restart \/ UNCHANGED vars
  BY <1>1, <1>4 DEF StopWorker, StartWorker, Tick, Restart, vars, bells, schedulerVars
<1> QED BY <1>2, <1>3, <1>4 DEF Next

LEMMA BoundsStep == ASSUME DispatchInv, BoundsInv, [Next]_vars PROVE BoundsInv'
<1>1. Marks /\ \A g \in Handlers : Bounded(handler'[g])
  <2>1. CASE \E h \in Handlers : Callback(h) BY <2>1, CallbackBounds
  <2>2. CASE \E s \in Slots : Serve(s) BY <2>2, ServeBounds
  <2>3. CASE StopWorker \/ StartWorker \/ Tick \/ Restart \/ UNCHANGED vars BY <2>3, WorldBounds
  <2> QED BY <2>1, <2>2, <2>3 DEF Next
<1>2. TokensBounded'
  <2>1. CASE token' = token BY <2>1 DEF BoundsInv, TokensBounded, Tokens
  <2>2. CASE \E o \in Occurrences, state \in TokenStates : SetToken(o, state)
    <3>1. PICK o \in Occurrences, state \in TokenStates : token' = Pruned([token EXCEPT ![o] = state])
      BY <2>2 DEF SetToken
    <3>2. token \in [Occurrences -> TokenStates] BY DEF DispatchInv, DispatchTyped
    <3>3. PICK set \in [Occurrences -> TokenStates] : set = [token EXCEPT ![o] = state]
      BY <3>2
    <3>4. Tokens(set) \in SUBSET (Tokens(token) \cup {o})
      BY <3>2, <3>3 DEF Tokens
    <3>5. IsFiniteSet(Tokens(set))
      BY <3>4, FS_AddElement, FS_Subset DEF BoundsInv, TokensBounded
    <3>6. token' = Pruned(set) BY <3>1, <3>3
    <3> QED BY <3>5, <3>6, PrunedIsBounded DEF TokensBounded, Tokens
  <2> QED BY <1>1, <2>1, <2>2 DEF Marks
<1> QED BY <1>1, <1>2, BellsKept DEF BoundsInv

LEMMA BoundsStart == ASSUME Init PROVE BoundsInv
<1>1. Tokens(token) = {} BY DEF Init, Tokens
<1>2. TokensBounded BY <1>1, FS_EmptySet, DispatchAssumption DEF TokensBounded
<1>3. \A h \in Handlers : Bounded(handler[h]) BY IdleBounded DEF Init
<1>4. listeners \in Nat /\ ringing \in 0 .. listeners BY DispatchAssumption DEF Init
<1> QED BY <1>2, <1>3, <1>4 DEF BoundsInv

\* Tokens never exceed their bound, however many occurrences there are, and a
\* callback makes at most MaxTries attempts for one of them.
THEOREM BoundsAreKept == Spec => []TypeOK
<1>1. Init => BoundsInv BY BoundsStart
<1>2. DispatchInv /\ BoundsInv /\ [Next]_vars => BoundsInv' BY BoundsStep
<1>3. DispatchInv /\ BoundsInv => TypeOK
  <2> SUFFICES ASSUME DispatchInv, BoundsInv PROVE TypeOK
    OBVIOUS
  <2>1. \A h \in Handlers : handler[h].pc \in {"idle", "next", "call", "wait"}
    BY DEF DispatchInv, DispatchTyped, HandlerStates
  <2> QED BY <2>1 DEF DispatchInv, DispatchTyped, BoundsInv, TokensBounded, Tokens, Bounded, TypeOK
<1> QED BY <1>1, <1>2, <1>3, DispatchInvariant, PTL DEF Spec
=============================================================================
