---------------------------- MODULE JobLifecycle ----------------------------
(***************************************************************************)
(* What the durable queue promises about one job, with no workers, locks,  *)
(* clocks or crashes: it is submitted, tried at most MaxAttempts times,    *)
(* one try at a time, and ends done or given up, for good.  A try may also *)
(* never end (its worker died): no fairness is stated.                     *)
(***************************************************************************)
EXTENDS Naturals

CONSTANTS Jobs, MaxAttempts

VARIABLES
  phase,   \* where each job is in its life
  tries    \* how often each job has been started

Init ==
  /\ phase = [j \in Jobs |-> "unknown"]
  /\ tries = [j \in Jobs |-> 0]

Move(j, from, to) ==
  /\ phase[j] = from
  /\ phase' = [phase EXCEPT ![j] = to]

Submit(j) == Move(j, "unknown", "waiting") /\ UNCHANGED tries

Begin(j) ==
  /\ Move(j, "waiting", "working")
  /\ tries[j] < MaxAttempts
  /\ tries' = [tries EXCEPT ![j] = @ + 1]

Finish(j) == Move(j, "working", "done") /\ UNCHANGED tries

Retry(j) ==
  /\ Move(j, "working", "waiting")
  /\ tries[j] < MaxAttempts
  /\ UNCHANGED tries

GiveUp(j) ==
  /\ Move(j, "working", "given_up")
  /\ tries[j] = MaxAttempts
  /\ UNCHANGED tries

Next ==
  \E j \in Jobs : Submit(j) \/ Begin(j) \/ Finish(j) \/ Retry(j) \/ GiveUp(j)

Spec == Init /\ [][Next]_<<phase, tries>>
=============================================================================
