-------------------------- MODULE SessionExecutor --------------------------
(***************************************************************************)
(* What the request manager promises its clients, without queues, slots or *)
(* coroutines: a request is executed at most 1 + MaxRetries times, two     *)
(* requests of one session are never executed at once, a request that      *)
(* succeeded, failed for good or was cancelled is never executed again.    *)
(***************************************************************************)
EXTENDS Naturals

CONSTANTS Requests, SessionOf, MaxRetries

VARIABLES
  phase,    \* how far each request is
  attempts  \* how often its execution was started

Phases == {"absent", "waiting", "running", "succeeded", "failed", "cancelled"}

Init ==
  /\ phase = [r \in Requests |-> "absent"]
  /\ attempts = [r \in Requests |-> 0]

Move(r, from, to) ==
  /\ phase[r] = from
  /\ phase' = [phase EXCEPT ![r] = to]

\* A request enters a queue.
Admit(r) == Move(r, "absent", "waiting") /\ UNCHANGED attempts

\* Its execution starts, alone in its session and within its budget.
Start(r) ==
  /\ \A q \in Requests : phase[q] = "running" => SessionOf[q] # SessionOf[r]
  /\ attempts[r] <= MaxRetries
  /\ Move(r, "waiting", "running")
  /\ attempts' = [attempts EXCEPT ![r] = @ + 1]

Succeed(r) == Move(r, "running", "succeeded") /\ UNCHANGED attempts

\* The execution failed: for good, or to be tried again.
Fail(r) == Move(r, "running", "failed") /\ UNCHANGED attempts

TryAgain(r) ==
  /\ attempts[r] <= MaxRetries
  /\ Move(r, "running", "waiting")
  /\ UNCHANGED attempts

Cancel(r) == Move(r, "waiting", "cancelled") /\ UNCHANGED attempts

\* The service keeps nothing across restarts.
Forget ==
  /\ phase' = [r \in Requests |-> "absent"]
  /\ attempts' = [r \in Requests |-> 0]

Next ==
  \/ \E r \in Requests :
       Admit(r) \/ Start(r) \/ Succeed(r) \/ Fail(r) \/ TryAgain(r) \/ Cancel(r)
  \/ Forget

Spec == Init /\ [][Next]_<<phase, attempts>>
=============================================================================
