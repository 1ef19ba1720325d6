---------------------------- MODULE JobLifecycle ----------------------------
(***************************************************************************)
(* What a work pool promises about every job handed to it, with no word on *)
(* queues, workers or threads: a job is refused or queued; a queued job is *)
(* run by one worker at a time; a run ends the job, or puts it back in the *)
(* queue while it has attempts left; what has ended stays ended.           *)
(***************************************************************************)
EXTENDS Naturals

CONSTANTS Items,        \* the jobs
          MaxAttempts   \* how often a job may be run

VARIABLES jobState,     \* where each job is in its life
          attempts      \* how often it has been started

lifeVars == <<jobState, attempts>>

JobState == {"requested", "refused", "queued", "running", "completed",
             "failed"}

LifeInit ==
  /\ jobState = [i \in Items |-> "requested"]
  /\ attempts = [i \in Items |-> 0]

Becomes(i, from, to) ==
  /\ jobState[i] = from
  /\ jobState' = [jobState EXCEPT ![i] = to]

Accept(i) == Becomes(i, "requested", "queued") /\ UNCHANGED attempts

Refuse(i) == Becomes(i, "requested", "refused") /\ UNCHANGED attempts

Begin(i) ==
  /\ Becomes(i, "queued", "running")
  /\ attempts[i] < MaxAttempts
  /\ attempts' = [attempts EXCEPT ![i] = @ + 1]

Complete(i) == Becomes(i, "running", "completed") /\ UNCHANGED attempts

Retry(i) ==
  /\ Becomes(i, "running", "queued")
  /\ attempts[i] < MaxAttempts
  /\ UNCHANGED attempts

GiveUp(i) ==
  /\ Becomes(i, "running", "failed")
  /\ attempts[i] = MaxAttempts
  /\ UNCHANGED attempts

(* The job could not even be loaded.                                       *)
Discard(i) ==
  /\ Becomes(i, "queued", "failed")
  /\ attempts[i] = 0
  /\ UNCHANGED attempts

LifeNext ==
  \E i \in Items : \/ Accept(i) \/ Refuse(i) \/ Begin(i) \/ Complete(i)
                   \/ Retry(i) \/ GiveUp(i) \/ Discard(i)

LifeSpec == LifeInit /\ [][LifeNext]_lifeVars
=============================================================================
