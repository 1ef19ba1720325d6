------------------------------- MODULE Worker -------------------------------
(***************************************************************************)
(* A worker of a work pool (JobMan/WorkPools/Worker.cs): one thread that   *)
(* dequeues work items from the pool's pre-process buffer, runs them, and  *)
(* applies the retry policy of DefaultPolicyExecutor to those that throw.  *)
(*                                                                         *)
(* The actions are the steps of the worker's own thread.  Status and       *)
(* CurrentWorkItem are plain fields which the threads that stop or dispose *)
(* the worker read and write without a lock: the order in which the worker *)
(* and those threads touch them is what this module is about.  Two         *)
(* neighbouring accesses of the worker share an action only when no other  *)
(* thread can tell whether it ran between them.                            *)
(*                                                                         *)
(* Work items here are single runs over the in-memory storage.  Their      *)
(* Definition.Status is written all along and read by no thread, so it is  *)
(* left out; storage's UpdateStatus does nothing for them.  Filters of the *)
(* user are external and do nothing.                                       *)
(***************************************************************************)
EXTENDS Naturals, Sequences

CONSTANTS
  Items,              \* the work items enqueued during the run
  Workers,            \* the identities worker objects can have
  NoItem,             \* the null work item
  Failing,            \* the items whose Job.Execute may throw
  FailureRetryCount   \* ExecutionPolicy.FailureRetryCount

ASSUME WorkerAssumption ==
  /\ NoItem \notin Items
  /\ Failing \subseteq Items
  /\ FailureRetryCount \in Nat

VARIABLES
  poolStatus,   \* WorkPool.Status
  buffer,       \* WorkPool._preProcessBuffer
  retryCount,   \* Definition.RetryCount of each item
  outcome,      \* history: how the item's life ended
  wStatus,      \* Worker.Status
  current,      \* Worker.CurrentWorkItem
  wItem,        \* the local workItem of WorkerProcess
  wpc           \* where the worker's thread is

itemVars   == <<retryCount, outcome>>
threadVars == <<wStatus, current, wItem, wpc>>

PoolStatus   == {"Active", "WaitingStop", "Stopped"}
WorkerStatus == {"Idle", "Running", "WaitingStop", "Stopped", "Terminated"}
Outcome      == {"none", "completed", "failed"}

(* unborn: no such object yet; created: constructed, thread not started;   *)
(* loop: at the while of WorkerProcess; get: before TryDequeue; none: the  *)
(* buffer was found empty; got: holds an item, Execute not yet entered;    *)
(* run: inside Job.Execute; finally, setIdle: the test and the assignment  *)
(* of the finally block; delay: in the sleep before a retry.               *)
WorkerPC == {"unborn", "created", "loop", "get", "none", "got", "run",
             "finally", "setIdle", "delay", "exited"}

WorkerTypeOK ==
  /\ poolStatus \in PoolStatus
  /\ buffer \in Seq(Items)
  /\ retryCount \in [Items -> Nat]
  /\ outcome \in [Items -> Outcome]
  /\ wStatus \in [Workers -> WorkerStatus]
  /\ current \in [Workers -> Items \cup {NoItem}]
  /\ wItem \in [Workers -> Items \cup {NoItem}]
  /\ wpc \in [Workers -> WorkerPC]

WorkerInit ==
  /\ poolStatus = "Stopped"
  /\ buffer = <<>>
  /\ retryCount = [i \in Items |-> 0]
  /\ outcome = [i \in Items |-> "none"]
  /\ wStatus = [w \in Workers |-> "Stopped"]
  /\ current = [w \in Workers |-> NoItem]
  /\ wItem = [w \in Workers |-> NoItem]
  /\ wpc = [w \in Workers |-> "unborn"]

Goto(w, label) == wpc' = [wpc EXCEPT ![w] = label]

-----------------------------------------------------------------------------
(* WorkerProcess: the loop around Execute.                                 *)

LookForWork(w) ==
  /\ wpc[w] = "loop"
  /\ wStatus[w] = "Idle"
  /\ Goto(w, "get")
  /\ UNCHANGED <<poolStatus, buffer, itemVars, wStatus, current, wItem>>

Exit(w) ==
  /\ wpc[w] = "loop"
  /\ wStatus[w] = "Terminated"
  /\ Goto(w, "exited")
  /\ UNCHANGED <<poolStatus, buffer, itemVars, wStatus, current, wItem>>

Dequeued_Peeks(q) == q    \* mutant: TryPeek for TryDequeue
Dequeued(q) == Tail(q)

(* GetWorkItemOrWait.  Neither the status of the worker nor that of the    *)
(* pool is looked at before an item is taken.                              *)
TakeWorkItem(w) ==
  /\ wpc[w] = "get"
  /\ buffer # <<>>
  /\ wItem' = [wItem EXCEPT ![w] = Head(buffer)]
  /\ buffer' = Dequeued(buffer)
  /\ Goto(w, "got")
  /\ UNCHANGED <<poolStatus, itemVars, wStatus, current>>

NothingToTake(w) ==
  /\ wpc[w] = "get"
  /\ buffer = <<>>
  /\ Goto(w, "none")
  /\ UNCHANGED <<poolStatus, buffer, itemVars, wStatus, current, wItem>>

WaitOrGiveUp(w) ==
  /\ wpc[w] = "none"
  /\ Goto(w, IF poolStatus = "Active" THEN "get" ELSE "loop")
  /\ UNCHANGED <<poolStatus, buffer, itemVars, wStatus, current, wItem>>

-----------------------------------------------------------------------------
(* Execute.                                                                *)

(* From the entry of Execute to the call of Job.Execute.  Running is       *)
(* written over whatever the stopping thread may have put in Status.       *)
ExecuteStart(w) ==
  LET i == wItem[w] IN
  /\ wpc[w] = "got"
  /\ current' = [current EXCEPT ![w] = i]
  /\ wStatus' = [wStatus EXCEPT ![w] = "Running"]
  /\ retryCount' = [retryCount EXCEPT ![i] = @ + 1]
  /\ Goto(w, "run")
  /\ UNCHANGED <<poolStatus, buffer, outcome, wItem>>

(* Job.Execute returns.                                                    *)
ExecuteComplete(w) ==
  LET i == wItem[w] IN
  /\ wpc[w] = "run"
  /\ outcome' = [outcome EXCEPT ![i] = "completed"]
  /\ current' = [current EXCEPT ![w] = NoItem]
  /\ wItem' = [wItem EXCEPT ![w] = NoItem]
  /\ Goto(w, "finally")
  /\ UNCHANGED <<poolStatus, buffer, retryCount, wStatus>>

(* The finally block: the test, then the assignment, are two accesses.     *)
FinallyTest(w) ==
  /\ wpc[w] = "finally"
  /\ Goto(w, IF wStatus[w] # "WaitingStop" THEN "setIdle" ELSE "loop")
  /\ UNCHANGED <<poolStatus, buffer, itemVars, wStatus, current, wItem>>

FinallySetIdle(w) ==
  /\ wpc[w] = "setIdle"
  /\ wStatus' = [wStatus EXCEPT ![w] = "Idle"]
  /\ Goto(w, "loop")
  /\ UNCHANGED <<poolStatus, buffer, itemVars, current, wItem>>

ReTry_OnceTooOften(i) == retryCount[i] <= FailureRetryCount    \* mutant

(* DefaultPolicyExecutor.Failure: may this item be tried again?            *)
ReTry(i) == retryCount[i] < FailureRetryCount

StatusAfterFailure_NotReset == "Running"    \* mutant
StatusAfterFailure == "Idle"

(* Job.Execute throws: the catch blocks of Execute and of WorkerProcess,   *)
(* the failure filters and the policy up to its sleep.  The worker becomes *)
(* Idle whatever it was asked to do, and CurrentWorkItem stays set.        *)
ExecuteFail(w) ==
  LET i == wItem[w] IN
  /\ wpc[w] = "run"
  /\ i \in Failing
  /\ wStatus' = [wStatus EXCEPT ![w] = StatusAfterFailure]
  /\ \/ /\ ReTry(i)
        /\ Goto(w, "delay")
        /\ UNCHANGED <<outcome, wItem>>
     \/ /\ ~ReTry(i)
        /\ outcome' = [outcome EXCEPT ![i] = "failed"]
        /\ wItem' = [wItem EXCEPT ![w] = NoItem]
        /\ Goto(w, "loop")
  /\ UNCHANGED <<poolStatus, buffer, retryCount, current>>

\* mutant: the item is let go before it is put back
Requeue_LetsGo(w) ==
  /\ wpc[w] = "delay"
  /\ wItem' = [wItem EXCEPT ![w] = NoItem]
  /\ buffer' = Append(buffer, wItem'[w])
  /\ Goto(w, "loop")
  /\ UNCHANGED <<poolStatus, retryCount, outcome, wStatus, current>>

(* The sleep of ExecuteFailurePolicy ends: back into this pool's buffer,   *)
(* whatever its length and whether or not the pool still runs.             *)
Requeue(w) ==
  LET i == wItem[w] IN
  /\ wpc[w] = "delay"
  /\ buffer' = Append(buffer, i)
  /\ wItem' = [wItem EXCEPT ![w] = NoItem]
  /\ Goto(w, "loop")
  /\ UNCHANGED <<poolStatus, retryCount, outcome, wStatus, current>>

WorkerStep(w) ==
  \/ LookForWork(w)
  \/ Exit(w)
  \/ TakeWorkItem(w)
  \/ NothingToTake(w)
  \/ WaitOrGiveUp(w)
  \/ ExecuteStart(w)
  \/ ExecuteComplete(w)
  \/ FinallyTest(w)
  \/ FinallySetIdle(w)
  \/ ExecuteFail(w)
  \/ Requeue(w)

-----------------------------------------------------------------------------
(* What other threads do to a worker.                                      *)

(* Start: Status becomes Idle and the thread begins its loop.              *)
StartWorker(w) ==
  /\ wStatus' = [wStatus EXCEPT ![w] = "Idle"]
  /\ Goto(w, "loop")
  /\ UNCHANGED <<current, wItem>>

(* The first half of StopAsync.                                            *)
AskToStop(w) ==
  /\ wStatus' = [wStatus EXCEPT ![w] = "WaitingStop"]
  /\ UNCHANGED <<current, wItem, wpc>>

(* The end of StopAsync's wait, and what it does afterwards.  A worker     *)
(* that was on its way to an item may have begun it in between.            *)
AtRest(w) == current[w] = NoItem

MarkStopped(w) ==
  /\ wStatus' = [wStatus EXCEPT ![w] = "Stopped"]
  /\ UNCHANGED <<current, wItem, wpc>>

(* The end of DisposeAsync.                                                *)
MarkTerminated(w) ==
  /\ wStatus' = [wStatus EXCEPT ![w] = "Terminated"]
  /\ UNCHANGED <<current, wItem, wpc>>
=============================================================================
