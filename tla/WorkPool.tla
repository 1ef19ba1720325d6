------------------------------ MODULE WorkPool ------------------------------
(***************************************************************************)
(* A work pool over the in-memory storage (JobMan/WorkPools/WorkPool.cs    *)
(* with the single-run queue of InMemoryStorage.cs).                       *)
(*                                                                         *)
(* Four kinds of thread meet here:                                         *)
(*   - the calls of Enqueue, one per item (Set, CanEnqueueDirect);         *)
(*   - Manager, the pool's manager thread, which moves items from the      *)
(*     storage to the pre-process buffer and keeps the number of workers;  *)
(*   - Control, the thread that calls StartAsync and StopAsync of the      *)
(*     pool (WorkServer calls them one after the other);                   *)
(*   - the workers (module Worker).                                        *)
(* StartAsync and the manager thread both run CheckWorkers, unlocked.      *)
(***************************************************************************)
EXTENDS Worker, FiniteSets

CONSTANTS
  NoWorker,       \* the null worker
  ThreadCount,    \* WorkPoolOptions.ThreadCount
  BufferLength,   \* WorkPoolOptions.PreProcessBufferLenght
  Unloadable,     \* the items WorkItemFactory.Create may throw for
  MaxStarts,      \* bound: effective calls of StartAsync
  MaxStops        \* bound: calls of StopAsync

ASSUME PoolAssumption ==
  /\ NoWorker \notin Workers
  /\ IsFiniteSet(Workers)
  /\ ThreadCount \in Nat
  /\ BufferLength \in Nat
  /\ Unloadable \subseteq Items
  /\ MaxStarts \in Nat
  /\ MaxStops \in Nat

Threads == {"Control", "Manager"}

VARIABLES
  stored,       \* InMemoryStorage._workItems
  registered,   \* is the pool in _directEnqueueCheckRegisteredWps?
  epc,          \* where each item's call of Enqueue is
  workers,      \* WorkPool._workers
  disposing,    \* the workers with IsDisposing
  pc,           \* where Control and Manager are
  target,       \* the worker each of them is working on
  toStop,       \* rest of the EnabledWorkers array StopAsync walks over
  room,         \* how many items PeekOrWait may still take
  peeked,       \* rest of the array PeekOrWait returned
  starts, stops \* how often the pool was started and stopped

enqueueVars == <<stored, registered, epc>>
fleetVars   == <<workers, disposing>>
managerVars == <<room, peeked>>
countVars   == <<starts, stops>>
vars == <<poolStatus, buffer, itemVars, threadVars, enqueueVars, fleetVars,
          managerVars, countVars, pc, target, toStop>>

(* new: not called yet; taking: CanEnqueueDirect found room; storing: it   *)
(* did not; done: the item is accepted; rejected: Enqueue threw.           *)
EnqueuePC == {"new", "taking", "storing", "done", "rejected"}

ControlPC == {"idle", "drain", "each", "wait", "mark"}
ManagerPC == {"top", "check", "diff", "peek", "fill"}
FleetPC   == {"count", "add", "start", "excess", "pick", "dispose", "dwait",
              "dmark", "dterm", "remove"}

TypeOK ==
  /\ WorkerTypeOK
  /\ stored \in Seq(Items)
  /\ registered \in BOOLEAN
  /\ epc \in [Items -> EnqueuePC]
  /\ workers \subseteq Workers
  /\ disposing \subseteq Workers
  /\ pc \in [Threads -> ControlPC \cup ManagerPC \cup FleetPC]
  /\ pc["Control"] \notin ManagerPC
  /\ pc["Manager"] \notin ControlPC
  /\ target \in [Threads -> Workers \cup {NoWorker}]
  /\ toStop \subseteq Workers
  /\ room \in Nat
  /\ peeked \in Seq(Items)
  /\ starts \in Nat
  /\ stops \in Nat

Init ==
  /\ WorkerInit
  /\ stored = <<>>
  /\ registered = FALSE
  /\ epc = [i \in Items |-> "new"]
  /\ workers = {}
  /\ disposing = {}
  /\ pc = [t \in Threads |-> IF t = "Control" THEN "idle" ELSE "top"]
  /\ target = [t \in Threads |-> NoWorker]
  /\ toStop = {}
  /\ room = 0
  /\ peeked = <<>>
  /\ starts = 0
  /\ stops = 0

Jump(t, label) == pc' = [pc EXCEPT ![t] = label]
Aim(t, w) == target' = [target EXCEPT ![t] = w]
At(i, label) == epc' = [epc EXCEPT ![i] = label]

-----------------------------------------------------------------------------
(* Enqueue: InMemoryStorage.Set for an item of this pool.                  *)

BufferHasRoom == Len(buffer) < BufferLength

(* DoItemAddedToStorage and the test of CanEnqueueDirect.  A stopped pool  *)
(* stays registered and is not asked for its status.                       *)
EnqueueCheck(i) ==
  /\ epc[i] = "new"
  /\ IF registered /\ BufferHasRoom
       THEN At(i, "taking")
       ELSE At(i, "storing")
  /\ UNCHANGED <<poolStatus, buffer, itemVars, threadVars, stored,
                 registered, fleetVars, managerVars, countVars, pc, target,
                 toStop>>

(* Create, then EnqueueDirect.  The room seen by the test may be gone.     *)
EnqueueDirect(i) ==
  /\ epc[i] = "taking"
  /\ \/ i \in Unloadable /\ At(i, "rejected") /\ UNCHANGED buffer
     \/ At(i, "done") /\ buffer' = Append(buffer, i)
  /\ UNCHANGED <<poolStatus, itemVars, threadVars, stored, registered,
                 fleetVars, managerVars, countVars, pc, target, toStop>>

EnqueueStore(i) ==
  /\ epc[i] = "storing"
  /\ stored' = Append(stored, i)
  /\ At(i, "done")
  /\ UNCHANGED <<poolStatus, buffer, itemVars, threadVars, registered,
                 fleetVars, managerVars, countVars, pc, target, toStop>>

EnqueueStep(i) == EnqueueDirect(i) \/ EnqueueStore(i)

-----------------------------------------------------------------------------
(* CheckWorkers, run by Control inside StartAsync and by Manager.          *)

Return(t) == Jump(t, IF t = "Control" THEN "idle" ELSE "top")

TooFew_OneMore == Cardinality(workers) <= ThreadCount    \* mutant
TooFew == Cardinality(workers) < ThreadCount

CountWorkers(t) ==
  /\ pc[t] = "count"
  /\ Jump(t, IF TooFew THEN "add" ELSE "excess")
  /\ UNCHANGED <<poolStatus, buffer, itemVars, threadVars, enqueueVars,
                 fleetVars, managerVars, countVars, target, toStop>>

(* AddWorker: the constructor and TryAdd, then Start.  Which of the unused *)
(* identities the new object gets makes no difference.                     *)
AddWorker(t) ==
  /\ pc[t] = "add"
  /\ \E w \in Workers : wpc[w] = "unborn"
  /\ LET w == CHOOSE x \in Workers : wpc[x] = "unborn" IN
       /\ Goto(w, "created")
       /\ workers' = workers \cup {w}
       /\ Aim(t, w)
  /\ Jump(t, "start")
  /\ UNCHANGED <<poolStatus, buffer, itemVars, wStatus, current, wItem,
                 enqueueVars, disposing, managerVars, countVars, toStop>>

StartNewWorker(t) ==
  /\ pc[t] = "start"
  /\ StartWorker(target[t])
  /\ Aim(t, NoWorker)
  /\ Jump(t, "count")
  /\ UNCHANGED <<poolStatus, buffer, itemVars, enqueueVars, fleetVars,
                 managerVars, countVars, toStop>>

Enabled == {w \in workers : wStatus[w] # "Terminated" /\ w \notin disposing}

TooMany_Lenient == Cardinality(Enabled) > ThreadCount + 1    \* mutant
TooMany == Cardinality(Enabled) > ThreadCount

CheckExcess(t) ==
  /\ pc[t] = "excess"
  /\ IF TooMany THEN Jump(t, "pick") ELSE Return(t)
  /\ UNCHANGED <<poolStatus, buffer, itemVars, threadVars, enqueueVars,
                 fleetVars, managerVars, countVars, target, toStop>>

(* FirstOrDefault over a ConcurrentDictionary: any worker may be first.    *)
PickExcess(t) ==
  /\ pc[t] = "pick"
  /\ \/ \E w \in Enabled : Aim(t, w) /\ Jump(t, "dispose")
     \/ Enabled = {} /\ Return(t) /\ UNCHANGED target
  /\ UNCHANGED <<poolStatus, buffer, itemVars, threadVars, enqueueVars,
                 fleetVars, managerVars, countVars, toStop>>

(* RemoveWorker waits for DisposeAsync: ask, wait, mark, terminate, remove. *)
Dispose(t) ==
  /\ pc[t] = "dispose"
  /\ disposing' = disposing \cup {target[t]}
  /\ AskToStop(target[t])
  /\ Jump(t, "dwait")
  /\ UNCHANGED <<poolStatus, buffer, itemVars, enqueueVars, workers,
                 managerVars, countVars, target, toStop>>

DisposeWait(t) ==
  /\ pc[t] = "dwait"
  /\ AtRest(target[t])
  /\ Jump(t, "dmark")
  /\ UNCHANGED <<poolStatus, buffer, itemVars, threadVars, enqueueVars,
                 fleetVars, managerVars, countVars, target, toStop>>

DisposeMark(t) ==
  /\ pc[t] = "dmark"
  /\ MarkStopped(target[t])
  /\ Jump(t, "dterm")
  /\ UNCHANGED <<poolStatus, buffer, itemVars, enqueueVars, fleetVars,
                 managerVars, countVars, target, toStop>>

DisposeTerminate(t) ==
  /\ pc[t] = "dterm"
  /\ MarkTerminated(target[t])
  /\ disposing' = disposing \ {target[t]}
  /\ Jump(t, "remove")
  /\ UNCHANGED <<poolStatus, buffer, itemVars, enqueueVars, workers,
                 managerVars, countVars, target, toStop>>

RemoveWorker(t) ==
  /\ pc[t] = "remove"
  /\ workers' = workers \ {target[t]}
  /\ Aim(t, NoWorker)
  /\ Return(t)
  /\ UNCHANGED <<poolStatus, buffer, itemVars, threadVars, enqueueVars,
                 disposing, managerVars, countVars, toStop>>

CheckWorkers(t) ==
  \/ CountWorkers(t)
  \/ AddWorker(t)
  \/ StartNewWorker(t)
  \/ CheckExcess(t)
  \/ PickExcess(t)
  \/ Dispose(t)
  \/ DisposeWait(t)
  \/ DisposeMark(t)
  \/ DisposeTerminate(t)
  \/ RemoveWorker(t)

-----------------------------------------------------------------------------
(* StartAsync and StopAsync.                                               *)

(* StartAsync up to CheckWorkers; it does nothing for an active pool.      *)
Start ==
  /\ pc["Control"] = "idle"
  /\ poolStatus # "Active"
  /\ starts < MaxStarts
  /\ starts' = starts + 1
  /\ poolStatus' = "Active"
  /\ registered' = TRUE
  /\ Jump("Control", "count")
  /\ UNCHANGED <<buffer, itemVars, threadVars, stored, epc, fleetVars,
                 managerVars, stops, target, toStop>>

Stop ==
  /\ pc["Control"] = "idle"
  /\ stops < MaxStops
  /\ stops' = stops + 1
  /\ poolStatus' = "WaitingStop"
  /\ Jump("Control", "drain")
  /\ UNCHANGED <<buffer, itemVars, threadVars, enqueueVars, fleetVars,
                 managerVars, starts, target, toStop>>

(* One round of StopAsync begins when the buffer is seen empty.            *)
StopRound ==
  /\ pc["Control"] = "drain"
  /\ buffer = <<>>
  /\ toStop' = {w \in workers : wStatus[w] # "Terminated"}
  /\ Jump("Control", "each")
  /\ UNCHANGED <<poolStatus, buffer, itemVars, threadVars, enqueueVars,
                 fleetVars, managerVars, countVars, target>>

(* worker.StopAsync blocks: the workers are stopped one after the other.   *)
StopAsk ==
  /\ pc["Control"] = "each"
  /\ \E w \in toStop :
       /\ AskToStop(w)
       /\ Aim("Control", w)
       /\ toStop' = toStop \ {w}
  /\ Jump("Control", "wait")
  /\ UNCHANGED <<poolStatus, buffer, itemVars, enqueueVars, fleetVars,
                 managerVars, countVars>>

StopWait ==
  /\ pc["Control"] = "wait"
  /\ AtRest(target["Control"])
  /\ Jump("Control", "mark")
  /\ UNCHANGED <<poolStatus, buffer, itemVars, threadVars, enqueueVars,
                 fleetVars, managerVars, countVars, target, toStop>>

StopMark ==
  /\ pc["Control"] = "mark"
  /\ MarkStopped(target["Control"])
  /\ Aim("Control", NoWorker)
  /\ Jump("Control", "each")
  /\ UNCHANGED <<poolStatus, buffer, itemVars, enqueueVars, fleetVars,
                 managerVars, countVars, toStop>>

AllStopped_WantsIdle == \A w \in workers : wStatus[w] = "Idle"    \* mutant
AllStopped == \A w \in workers : wStatus[w] = "Stopped"

StopDecide ==
  /\ pc["Control"] = "each"
  /\ toStop = {}
  /\ IF AllStopped
       THEN poolStatus' = "Stopped" /\ Jump("Control", "idle")
       ELSE Jump("Control", "drain") /\ UNCHANGED poolStatus
  /\ UNCHANGED <<buffer, itemVars, threadVars, enqueueVars, fleetVars,
                 managerVars, countVars, target, toStop>>

ControlStep == StopRound \/ StopAsk \/ StopWait \/ StopMark \/ StopDecide
               \/ CheckWorkers("Control")

-----------------------------------------------------------------------------
(* ManagerThread with CheckPreProcessBuffer.                               *)

ManagerWakes ==
  /\ pc["Manager"] = "top"
  /\ poolStatus = "Active"
  /\ Jump("Manager", "check")
  /\ UNCHANGED <<poolStatus, buffer, itemVars, threadVars, enqueueVars,
                 fleetVars, managerVars, countVars, target, toStop>>

ManagerChecks ==
  /\ pc["Manager"] = "check"
  /\ Jump("Manager", IF BufferHasRoom THEN "diff" ELSE "count")
  /\ UNCHANGED <<poolStatus, buffer, itemVars, threadVars, enqueueVars,
                 fleetVars, managerVars, countVars, target, toStop>>

(* The items PeekOrWait takes for an argument count: its loop runs while   *)
(* index <= count, and a count of 0 or less is taken as 1.                 *)
Allowance(count) == count + 1

(* The length of the buffer is read a second time for the argument.        *)
ManagerAsks ==
  /\ pc["Manager"] = "diff"
  /\ room' = Allowance(IF BufferHasRoom THEN BufferLength - Len(buffer)
                                        ELSE 1)
  /\ Jump("Manager", "peek")
  /\ UNCHANGED <<poolStatus, buffer, itemVars, threadVars, enqueueVars,
                 fleetVars, peeked, countVars, target, toStop>>

AfterPeek(rest) == IF rest = <<>> THEN "count" ELSE "fill"

PeekItem ==
  /\ pc["Manager"] = "peek"
  /\ room > 0
  /\ stored # <<>>
  /\ peeked' = Append(peeked, Head(stored))
  /\ stored' = Tail(stored)
  /\ room' = room - 1
  /\ UNCHANGED <<poolStatus, buffer, retryCount, outcome, threadVars,
                 registered, epc, fleetVars, countVars, pc, target, toStop>>

PeekReturns ==
  /\ pc["Manager"] = "peek"
  /\ room = 0 \/ stored = <<>>
  /\ room' = 0
  /\ Jump("Manager", AfterPeek(peeked))
  /\ UNCHANGED <<poolStatus, buffer, itemVars, threadVars, enqueueVars,
                 fleetVars, peeked, countVars, target, toStop>>

(* Create and Enqueue, or DoFail when Create throws.                       *)
FillBuffer ==
  LET i == Head(peeked) IN
  /\ pc["Manager"] = "fill"
  /\ peeked # <<>>
  /\ peeked' = Tail(peeked)
  /\ Jump("Manager", AfterPeek(Tail(peeked)))
  /\ \/ /\ i \in Unloadable
        /\ outcome' = [outcome EXCEPT ![i] = "failed"]
        /\ UNCHANGED buffer
     \/ /\ buffer' = Append(buffer, i)
        /\ UNCHANGED outcome
  /\ UNCHANGED <<poolStatus, retryCount, threadVars, enqueueVars, fleetVars,
                 room, countVars, target, toStop>>

ManagerStep == ManagerWakes \/ ManagerChecks \/ ManagerAsks \/ PeekItem
               \/ PeekReturns \/ FillBuffer
               \/ CheckWorkers("Manager")

-----------------------------------------------------------------------------

poolVars == <<enqueueVars, fleetVars, managerVars, countVars, pc, target,
              toStop>>

WorkerRuns(w) == WorkerStep(w) /\ UNCHANGED poolVars

Next ==
  \/ \E i \in Items : EnqueueCheck(i) \/ EnqueueStep(i)
  \/ \E w \in Workers : WorkerRuns(w)
  \/ Start
  \/ Stop
  \/ ControlStep
  \/ ManagerStep

(* Every thread that is inside a call goes on; nobody is obliged to call   *)
(* Enqueue, StartAsync or StopAsync; jobs end.                             *)
Fairness ==
  /\ \A i \in Items : WF_vars(EnqueueStep(i))
  /\ \A w \in Workers : WF_vars(WorkerRuns(w))
  /\ WF_vars(ControlStep)
  /\ WF_vars(ManagerStep)

Spec == Init /\ [][Next]_vars

FairSpec == Spec /\ Fairness

-----------------------------------------------------------------------------
(* Properties.                                                             *)

InSeq(i, s) == \E k \in DOMAIN s : s[k] = i
NoCopies(s) == \A j, k \in DOMAIN s : s[j] = s[k] => j = k

NotAccepted(i) == epc[i] \in {"new", "taking", "storing"}
Ended(i) == outcome[i] # "none" \/ epc[i] = "rejected"

Places == {"caller", "stored", "peeked", "buffer", "worker", "ended"}

Whereabouts(i) ==
  {p \in Places :
     \/ p = "caller" /\ NotAccepted(i)
     \/ p = "stored" /\ InSeq(i, stored)
     \/ p = "peeked" /\ InSeq(i, peeked)
     \/ p = "buffer" /\ InSeq(i, buffer)
     \/ p = "worker" /\ \E w \in Workers : wItem[w] = i
     \/ p = "ended"  /\ Ended(i)}

(* No item is lost and none is duplicated: between the caller, the         *)
(* storage, the array PeekOrWait returned, the buffer, the workers and the *)
(* end of its life, an item is at every moment in exactly one place, once. *)
InOnePlace ==
  /\ \A i \in Items : \E p \in Places : Whereabouts(i) = {p}
  /\ NoCopies(stored) /\ NoCopies(peeked) /\ NoCopies(buffer)
  /\ \A v, w \in Workers : wItem[v] = wItem[w] /\ wItem[v] # NoItem => v = w

MaxAttempts == IF FailureRetryCount = 0 THEN 1 ELSE FailureRetryCount

(* The retry policy: a job is tried at most FailureRetryCount times (once  *)
(* if that is 0), and given up only when the tries are used up or when it  *)
(* could not be loaded, however its retries, their delays and the other    *)
(* workers interleave.                                                     *)
RetryPolicy ==
  \A i \in Items :
    /\ retryCount[i] <= MaxAttempts
    /\ outcome[i] = "failed"
         => \/ retryCount[i] = MaxAttempts
            \/ retryCount[i] = 0 /\ i \in Unloadable

(* Two threads add workers to the pool without a lock; between them they   *)
(* exceed ThreadCount by at most one.                                      *)
FleetBounded == Cardinality(workers) <= ThreadCount + 1

(* A job the pool has accepted ends, if the pool stays active: nothing     *)
(* remains in the storage, in the buffer or with a worker for good.        *)
JobsOfAnActivePoolEnd ==
  \A i \in Items :
    <>[](epc[i] = "done" /\ poolStatus = "Active") => <>Ended(i)

(* A thread waits for a worker whose job is over: it failed, and           *)
(* CurrentWorkItem still names it.                                         *)
WaitsForFailedJob(t) ==
  /\ pc[t] \in {"wait", "dwait"}
  /\ current[target[t]] # NoItem
  /\ wpc[target[t]] # "run"

(* The two threads that both add and remove workers come to an agreement:  *)
(* an active pool that nobody is stopping ends up with ThreadCount         *)
(* workers, all of them enabled, unless the manager waits for a failed job.*)
FleetSettles ==
  <>[](poolStatus = "Active" /\ pc["Control"] = "idle")
    => \/ <>[](Cardinality(Enabled) = ThreadCount /\ Enabled = workers)
       \/ <>[]WaitsForFailedJob("Manager")

(* The same with jobs that fail: retries end the job as well, unless a     *)
(* thread of the pool waits for a failed job.                              *)
JobsEndUnlessStuck ==
  \A i \in Items :
    <>[](epc[i] = "done" /\ poolStatus = "Active")
      => <>Ended(i) \/ <>[](\E t \in Threads : WaitsForFailedJob(t))

(* Will this worker's thread look into the buffer again, unless told so?   *)
Serves(w) ==
  /\ wpc[w] \notin {"unborn", "exited"}
  /\ wpc[w] = "loop" => wStatus[w] \in {"Idle", "Running"}

(* StopAsync waits for an empty buffer that no worker empties.             *)
BufferStranded ==
  pc["Control"] = "drain" /\ buffer # <<>> /\ \A w \in Workers : ~Serves(w)

(* StartAsync and StopAsync return, except for two reasons: they wait for  *)
(* a worker whose last job failed, or for the buffer after the last worker *)
(* has been stopped.                                                       *)
CallsReturnUnlessStuck ==
  <>[](pc["Control"] # "idle")
    => <>[](WaitsForFailedJob("Control") \/ BufferStranded)

-----------------------------------------------------------------------------
(* The pool implements JobLifecycle.                                       *)

Running(i) == \E w \in Workers : wItem[w] = i /\ wpc[w] = "run"

JobStateOf(i) ==
  IF epc[i] = "rejected" THEN "refused"
  ELSE IF NotAccepted(i) THEN "requested"
  ELSE IF outcome[i] # "none" THEN outcome[i]
  ELSE IF Running(i) THEN "running" ELSE "queued"

Jobs == INSTANCE JobLifecycle
          WITH jobState <- [i \in Items |-> JobStateOf(i)],
               attempts <- retryCount

(* Every job lives the life JobLifecycle describes: run by one worker at a *)
(* time, retried only after a failed run and within its attempts, never    *)
(* run again once it has completed or failed for good.                     *)
ImplementsJobLifecycle == Jobs!LifeSpec

-----------------------------------------------------------------------------
(* What the documentation says and the code does not do.                   *)

(* StopAsync returns ("The work server can stop and start at runtime").    *)
StopReturns == (pc["Control"] = "drain") ~> (pc["Control"] = "idle")
=============================================================================
