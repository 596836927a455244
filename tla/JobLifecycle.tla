---------------------------- MODULE JobLifecycle ----------------------------
(***************************************************************************)
(* What the job queue promises to its clients: a job is queued once, runs  *)
(* only while no other job runs, is retried only below its attempt cap,    *)
(* and keeps for ever the terminal state it reaches.  A crash may end the  *)
(* current attempt, but never with success.                                *)
(***************************************************************************)
EXTENDS Naturals

CONSTANTS Jobs, MaxAttempts

VARIABLES state, attempt

vars == <<state, attempt>>

Init ==
  /\ state = [j \in Jobs |-> "none"]
  /\ attempt = [j \in Jobs |-> 0]

Move(j, from, to) == state[j] = from /\ state' = [state EXCEPT ![j] = to]

Submit(j) == Move(j, "none", "queued") /\ UNCHANGED attempt

Start(j) ==
  /\ Move(j, "queued", "running")
  /\ \A k \in Jobs : state[k] # "running"
  /\ attempt[j] < MaxAttempts
  /\ attempt' = [attempt EXCEPT ![j] = @ + 1]

Retry(j) ==
  /\ Move(j, "running", "queued")
  /\ attempt[j] < MaxAttempts
  /\ UNCHANGED attempt

End(j) ==
  /\ \E s \in {"succeeded", "failed", "cancelled"} : Move(j, "running", s)
  /\ UNCHANGED attempt

\* One client withdraws a job, or all that wait.
Withdraw(js) ==
  /\ \A j \in js : state[j] = "queued"
  /\ state' = [j \in Jobs |-> IF j \in js THEN "cancelled" ELSE state[j]]
  /\ UNCHANGED attempt

Next ==
  \/ \E j \in Jobs : Submit(j) \/ Start(j) \/ Retry(j) \/ End(j)
  \/ \E js \in SUBSET Jobs : Withdraw(js)

Spec == Init /\ [][Next]_vars
=============================================================================
