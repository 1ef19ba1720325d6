---------------------------- MODULE RecurrentJobs ----------------------------
(***************************************************************************)
(* The in-memory storage with the workers that run what it hands out:      *)
(* Worker.cs and DefaultPolicyExecutor.cs once more, seen from the status  *)
(* of a definition.  Every change of a job's state calls                   *)
(* InMemoryStorage.UpdateStatus, which for a recurrent job writes the      *)
(* shared definition several times while managers and other workers read   *)
(* it; and the job HelperJobContainer.Clean empties the storage it came    *)
(* from.  Starting and stopping workers is left to WorkPool.               *)
(***************************************************************************)
EXTENDS InMemoryStorage, SequencesExt

CONSTANTS
  Workers,            \* the workers of all pools
  PoolOf,             \* the pool each worker belongs to
  Failing,            \* definitions whose job may throw
  FailureRetryCount,  \* ExecutionPolicy.FailureRetryCount
  CleanJob            \* the schedule of HelperJobContainer.Clean, or NoDef

ASSUME WorkersAssumption ==
  /\ PoolOf \in [Workers -> Pools]
  /\ Failing \subseteq Definitions
  /\ FailureRetryCount \in Nat
  /\ CleanJob \in Recurrents \cup {NoDef}

VARIABLES
  wpc,         \* where each worker is
  wdef,        \* the definition of its work item
  wnext,       \* where UpdateStatus returns to
  wseen,       \* the status UpdateStatus has read
  retryCount,  \* Definition.RetryCount, up to FailureRetryCount
  ended,       \* history: the single runs whose life is over
  crashed      \* has an exception left a thread of the process?

itemVars   == <<retryCount, ended>>
workerVars == <<wpc, wdef, wnext, wseen>>
notStatus  == <<idVars, queue, schedules, registered, timeVars, buffer,
                callerVars, managerVars>>
vars == <<storageVars, workerVars, itemVars, crashed>>

(* got: before Execute's work; load, save, next, check, reset: inside      *)
(* UpdateStatus; run: inside Job.Execute; clean2, clean3: inside Clean;    *)
(* fail: the catch of WorkerProcess; filter: its call of the filters;      *)
(* policy, delay, requeue: the policy.                                     *)
Targets  == {"idle", "run", "fail", "filter", "policy", "delay", "requeue"}
WorkerPC == Targets \cup {"got", "load", "save", "next", "check", "reset",
                          "clean2", "clean3", "done"}

TypeOK ==
  /\ StorageTypeOK
  /\ wpc \in [Workers -> WorkerPC]
  /\ wdef \in [Workers -> Definitions \cup {NoDef}]
  /\ wnext \in [Workers -> Targets]
  /\ wseen \in [Workers -> Status]
  /\ retryCount \in [Definitions -> 0 .. FailureRetryCount]
  /\ ended \subseteq Singles
  /\ crashed \in BOOLEAN

Init ==
  /\ StorageInit
  /\ wpc = [w \in Workers |-> "idle"]
  /\ wdef = [w \in Workers |-> NoDef]
  /\ wnext = [w \in Workers |-> "idle"]
  /\ wseen = [w \in Workers |-> "WaitingProcess"]
  /\ retryCount = [d \in Definitions |-> 0]
  /\ ended = {}
  /\ crashed = FALSE

(* Go on at a label; at "idle" the worker has let go of its item.          *)
Goto(w, label) ==
  /\ wpc' = [wpc EXCEPT ![w] = label]
  /\ wdef' = IF label = "idle" THEN [wdef EXCEPT ![w] = NoDef] ELSE wdef

PlacesIn(d, s) == {k \in DOMAIN s : s[k] = d}

(* The references to d that are on their way to a run, or in one.          *)
Copies(d) ==
  {<<"queue", k>> : k \in PlacesIn(d, queue)}
  \cup (UNION {{<<"peeked", p, k>> : k \in PlacesIn(d, peeked[p])} : p \in Pools})
  \cup (UNION {{<<"buffer", p, k>> : k \in PlacesIn(d, buffer[p])} : p \in Pools})
  \cup {<<"manager", p>> : p \in {p \in Pools : found[p] = d}}
  \cup {<<"worker", w>> : w \in {w \in Workers : wdef[w] = d}}

SetStatus(d, s) == status' = [status EXCEPT ![d] = s]

(* Write a status and call UpdateStatus, which ignores single runs.        *)
Report(w, s, next) ==
  IF wdef[w] \in Recurrents
    THEN /\ SetStatus(wdef[w], s)
         /\ wnext' = [wnext EXCEPT ![w] = next]
         /\ Goto(w, "load")
    ELSE Goto(w, next) /\ UNCHANGED <<status, wnext>>

Return(w) ==
  /\ Goto(w, wnext[w])
  /\ wnext' = [wnext EXCEPT ![w] = "idle"]
  /\ wseen' = [wseen EXCEPT ![w] = "WaitingProcess"]

-----------------------------------------------------------------------------
(* UpdateStatus for a recurrent job.                                       *)

(* Get throws if the schedule has gone.  The catch blocks of Execute and   *)
(* of WorkerProcess call UpdateStatus again, so the exception leaves the   *)
(* thread, and that ends the process.                                      *)
UpdateLoad(w) ==
  /\ wpc[w] = "load"
  /\ IF wdef[w] \in schedules
       THEN /\ wseen' = [wseen EXCEPT ![w] = status[wdef[w]]]
            /\ Goto(w, "save")
            /\ UNCHANGED crashed
       ELSE crashed' = TRUE /\ UNCHANGED <<wseen, wpc, wdef>>
  /\ UNCHANGED <<storageVars, wnext, itemVars>>

(* The stored definition is the same object: its status is read above and  *)
(* written back here.                                                      *)
UpdateSave(w) ==
  /\ wpc[w] = "save"
  /\ SetStatus(wdef[w], wseen[w])
  /\ Goto(w, "next")
  /\ UNCHANGED <<notStatus, wnext, wseen, itemVars, crashed>>

NextRun_Forgotten(d) == due    \* mutant: no CalculateNextRun
NextRun(d) == [due EXCEPT ![d] = FALSE]

UpdateNext(w) ==
  /\ wpc[w] = "next"
  /\ due' = NextRun(wdef[w])
  /\ Goto(w, "check")
  /\ UNCHANGED <<idVars, queue, schedules, registered, status, owed,
                 overtaken, buffer, callerVars, managerVars, wnext, wseen,
                 itemVars, crashed>>

IsOver_Completed(s) == s = "Completed"    \* mutant
IsOver(s) == s \in {"Completed", "Fail"}

UpdateCheck(w) ==
  /\ wpc[w] = "check"
  /\ IF IsOver(status[wdef[w]])
       THEN Goto(w, "reset") /\ UNCHANGED <<wnext, wseen>>
       ELSE Return(w)
  /\ UNCHANGED <<storageVars, itemVars, crashed>>

UpdateReset(w) ==
  /\ wpc[w] = "reset"
  /\ SetStatus(wdef[w], "WaitingProcess")
  /\ Return(w)
  /\ UNCHANGED <<notStatus, itemVars, crashed>>

UpdateStatus(w) == UpdateLoad(w) \/ UpdateSave(w) \/ UpdateNext(w)
                   \/ UpdateCheck(w) \/ UpdateReset(w)

-----------------------------------------------------------------------------
(* A worker runs a job.                                                    *)

Dequeued_Peeks(q) == q    \* mutant: TryPeek for TryDequeue
Dequeued(q) == Tail(q)

TakeWorkItem(w) ==
  LET p == PoolOf[w] IN
  /\ wpc[w] = "idle"
  /\ buffer[p] # <<>>
  /\ buffer' = [buffer EXCEPT ![p] = Dequeued(@)]
  /\ wdef' = [wdef EXCEPT ![w] = Head(buffer[p])]
  /\ wpc' = [wpc EXCEPT ![w] = "got"]
  /\ UNCHANGED <<idVars, queue, schedules, registered, status, timeVars,
                 callerVars, managerVars, wnext, wseen, itemVars, crashed>>

(* RetryCount is never reset.  Only whether it is below FailureRetryCount  *)
(* matters, so it stops there.                                             *)
ExecuteStart(w) ==
  LET d == wdef[w] IN
  /\ wpc[w] = "got"
  /\ retryCount' = [retryCount EXCEPT
                      ![d] = IF @ < FailureRetryCount THEN @ + 1 ELSE @]
  /\ owed' = [e \in Recurrents |-> e # d /\ owed[e]]
  /\ Report(w, "Processing", "run")
  /\ UNCHANGED <<idVars, queue, schedules, registered, due, overtaken, buffer,
                 callerVars, managerVars, wseen, ended, crashed>>

(* HelperJobContainer.Clean: InMemoryStorage.Clean empties three           *)
(* collections, one after the other.  The life of a single run it finds    *)
(* in the queue is over.                                                   *)
CleanQueue(w) ==
  /\ wpc[w] = "run"
  /\ wdef[w] = CleanJob
  /\ queue' = <<>>
  /\ ended' = ended \cup {d \in Singles : Contains(queue, d)}
  /\ Goto(w, "clean2")
  /\ UNCHANGED <<idVars, schedules, registered, status, timeVars, buffer,
                 callerVars, managerVars, wnext, wseen, retryCount, crashed>>

CleanRegistered(w) ==
  /\ wpc[w] = "clean2"
  /\ registered' = {}
  /\ Goto(w, "clean3")
  /\ UNCHANGED <<idVars, queue, schedules, status, timeVars, buffer,
                 callerVars, managerVars, wnext, wseen, itemVars, crashed>>

Cleaned_SparesSchedules == schedules    \* mutant
Cleaned == {}

CleanSchedules(w) ==
  /\ wpc[w] = "clean3"
  /\ schedules' = Cleaned
  /\ Goto(w, "done")
  /\ UNCHANGED <<idVars, queue, registered, status, timeVars, buffer,
                 callerVars, managerVars, wnext, wseen, itemVars, crashed>>

ExecuteComplete(w) ==
  /\ \/ wpc[w] = "run" /\ wdef[w] # CleanJob
     \/ wpc[w] = "done"
  /\ Report(w, "Completed", "idle")
  /\ ended' = ended \cup ({wdef[w]} \cap Singles)
  /\ UNCHANGED <<notStatus, wseen, retryCount, crashed>>

(* Each of the updates that report Fail makes the failed job               *)
(* WaitingProcess.  CheckSchedules overtakes the failing worker when it    *)
(* enqueues the job before that worker's next write.                       *)
NoteSecondCopy(d) ==
  overtaken' = (overtaken
                  \/ (d \in Recurrents /\ \E x, y \in Copies(d) : x # y))

offHistory == <<idVars, queue, schedules, registered, due, owed, buffer,
                callerVars, managerVars>>

(* The catch of Execute, and then that of WorkerProcess.                   *)
ExecuteFail(w) ==
  /\ wpc[w] = "run"
  /\ wdef[w] \in Failing
  /\ Report(w, "Fail", "fail")
  /\ UNCHANGED <<notStatus, wseen, itemVars, crashed>>

FailAgain(w) ==
  /\ wpc[w] = "fail"
  /\ Report(w, "Fail", "filter")
  /\ NoteSecondCopy(wdef[w])
  /\ UNCHANGED <<offHistory, wseen, itemVars, crashed>>

(* The pool is itself a failure filter: it reports Fail a third time,      *)
(* before the policy, also for a job that is then given up.                *)
DoFail(w) ==
  /\ wpc[w] = "filter"
  /\ Report(w, "Fail", "policy")
  /\ NoteSecondCopy(wdef[w])
  /\ UNCHANGED <<offHistory, wseen, itemVars, crashed>>

ReTry(d) == retryCount[d] < FailureRetryCount

ApplyPolicy(w) ==
  LET d == wdef[w] IN
  /\ wpc[w] = "policy"
  /\ \/ /\ ReTry(d)
        /\ Report(w, "Enqueuing", "delay")
        /\ NoteSecondCopy(d)
        /\ UNCHANGED ended
     \/ /\ ~ReTry(d)
        /\ Goto(w, "idle")
        /\ ended' = ended \cup ({d} \cap Singles)
        /\ UNCHANGED <<status, wnext, overtaken>>
  /\ UNCHANGED <<offHistory, wseen, retryCount, crashed>>

EndDelay(w) ==
  /\ wpc[w] = "delay"
  /\ Report(w, "Enqueued", "requeue")
  /\ UNCHANGED <<notStatus, wseen, itemVars, crashed>>

Requeue(w) ==
  /\ wpc[w] = "requeue"
  /\ Buffered(PoolOf[w], wdef[w])
  /\ Goto(w, "idle")
  /\ UNCHANGED <<idVars, queue, schedules, registered, status, timeVars,
                 callerVars, managerVars, wnext, wseen, itemVars, crashed>>

WorkerStep(w) ==
  \/ TakeWorkItem(w) \/ ExecuteStart(w) \/ ExecuteComplete(w)
  \/ CleanQueue(w) \/ CleanRegistered(w) \/ CleanSchedules(w)
  \/ ExecuteFail(w) \/ FailAgain(w) \/ DoFail(w) \/ ApplyPolicy(w)
  \/ EndDelay(w) \/ Requeue(w) \/ UpdateStatus(w)

-----------------------------------------------------------------------------

jobVars == <<workerVars, itemVars, crashed>>

(* The time of a definition comes only once it has one.                    *)
TimePasses(d) ==
  /\ d \in Recurrents \cup Delayed
  /\ d \notin unset
  /\ ~due[d] \/ (d \in Recurrents /\ ~owed[d])
  /\ Occur(d)
  /\ UNCHANGED jobVars

CallerRuns(c) == SetStep(c) /\ UNCHANGED jobVars
ManagerRuns(p) == ManagerStep(p) /\ UNCHANGED jobVars

(* A thread that an exception leaves takes the process with it.            *)
Next ==
  /\ ~crashed
  /\ \/ \E d \in Definitions : TimePasses(d)
     \/ \E c \in Callers : (SetCall(c) /\ UNCHANGED jobVars) \/ CallerRuns(c)
     \/ \E p \in Pools : (Start(p) /\ UNCHANGED jobVars) \/ ManagerRuns(p)
     \/ \E w \in Workers : WorkerStep(w)

Spec == Init /\ [][Next]_vars

(* Threads inside a call go on, and time goes on.                          *)
FairSpec ==
  /\ Spec
  /\ \A c \in Callers : WF_vars(~crashed /\ CallerRuns(c))
  /\ \A p \in Pools : WF_vars(~crashed /\ ManagerRuns(p))
  /\ \A w \in Workers : WF_vars(~crashed /\ WorkerStep(w))
  /\ \A d \in Definitions : WF_vars(~crashed /\ TimePasses(d))

-----------------------------------------------------------------------------
(* Properties.                                                             *)

Runs(d) == {w \in Workers : wdef[w] = d /\ wpc[w] = "run"}

InSet(d) == \E c \in Callers : cdef[c] = d

(* A single run is never lost and never doubled, whichever of the pools    *)
(* that share the storage takes it: one copy until its life is over.       *)
SinglesInOnePlace ==
  \A d \in Singles :
    Cardinality(Copies(d)) =
      IF d \in unset \/ InSet(d) \/ d \in ended THEN 0 ELSE 1

(* A recurrent job is on its way at most once: while CheckSchedules, the   *)
(* dequeue and the updates of its status overlap, no second copy appears,  *)
(* unless CheckSchedules overtakes a job that it enqueued before.  A job   *)
(* that throws is left out: the reset after Fail makes it WaitingProcess   *)
(* before the policy has said that it goes back to the buffer, and if its  *)
(* next time comes in between, CheckSchedules adds a copy to the retry.    *)
OneCopy ==
  ~overtaken => \A d \in Recurrents \ Failing : Cardinality(Copies(d)) <= 1

(* With the same exceptions, a recurrent job is run only when a new        *)
(* occurrence has come since it was last begun: NextExecuteTime moves on   *)
(* before its status is reset.                                             *)
NoExtraRun ==
  [][\A w \in Workers :
       (wdef[w] \in Recurrents \ Failing /\ ExecuteStart(w) /\ ~overtaken)
         => owed[wdef[w]]]_vars

(* Unless overtaken, a schedule that CheckSchedules does not enqueue for   *)
(* its status is on its way: when its last copy goes, it waits again for   *)
(* its time, whether the job completed, failed for good or was retried.    *)
NeverForgotten ==
  ~overtaken =>
    \A d \in Recurrents :
      d \in schedules /\ status[d] # "WaitingProcess" => Copies(d) # {}

(* What Schedule was called for stays scheduled, if the calls of Set do    *)
(* not overlap, there are no more of them than an id has bits, and no job  *)
(* empties the storage.                                                    *)
NoScheduleDropped ==
  (\E c \in Callers : Callers = {c}) /\ CleanJob = NoDef
    /\ Cardinality(Definitions \ unset) <= IdBits
    => \A d \in Recurrents : d \in schedules \/ d \in unset \/ InSet(d)

(* As long as time goes on, a scheduled job is run again and again.        *)
SchedulesKeepRunning ==
  \A d \in Recurrents :
    <>[](d \in schedules /\ \E p \in Pools : ppc[p] # "off")
      => []<>(Runs(d) # {})

(* It is, if CheckSchedules never overtakes a job or the policy: failures, *)
(* retries and updates by several workers do not end a schedule.           *)
KeepRunningUnlessOvertaken == []~overtaken => SchedulesKeepRunning

(* The job that empties the in-memory storage removes its own schedule: it *)
(* always ends the process, not only when another job is unlucky.          *)
CleanEndsProcess == \A w \in Workers : wpc[w] = "clean3" ~> crashed
=============================================================================
