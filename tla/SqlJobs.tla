------------------------------- MODULE SqlJobs -------------------------------
(***************************************************************************)
(* Jobs over a SQL storage: the workers, who write every change of a job's *)
(* status into its row, and servers that go down and are started again.    *)
(*                                                                         *)
(* UpdateWorkItemExecutionState and ExecuteFailurePolicy first write       *)
(* Definition.Status and then call UpdateStatus, which sends whatever      *)
(* Status is by then: two steps, since the call of Enqueue may still be    *)
(* marking and inserting the job.  The branch of UpdateStatus for          *)
(* recurrent definitions is never taken: schedules make single runs.       *)
(***************************************************************************)
EXTENDS SqlStorage

CONSTANTS
  Workers, NoJob,
  PoolOf,             \* the pool of each worker
  Failing,            \* the jobs whose Job.Execute may throw
  FailureRetryCount,  \* ExecutionPolicy.FailureRetryCount
  MaxCrashes          \* bound on the times a server goes down

ASSUME JobsAssumption ==
  /\ NoJob \notin Jobs
  /\ PoolOf \in [Workers -> Pools]
  /\ Failing \subseteq Jobs
  /\ FailureRetryCount \in Nat
  /\ MaxCrashes \in Nat

VARIABLES
  wpc,        \* where each worker's thread is
  wJob,       \* the item it has
  crashes,    \* how often a server has gone down
  completed,  \* history: the jobs whose Execute has returned
  ended,      \* history: those that will not be run again in this process
  unreported, \* history: the jobs a command about which has thrown
  orphaned    \* history: those whose server has gone down while it had them

workerVars == <<wpc, wJob>>
historyVars == <<completed, ended, unreported, orphaned>>
vars == <<storageVars, workerVars, crashes, historyVars>>
(* What a worker's step leaves alone.                                      *)
workerRest == <<up, hasId, scheduleVars, cpc, direct, managerVars>>

(* Before the report of the status just written: caught and failed are the
   catch blocks of Execute and of WorkerProcess, filtered is the pool, which
   is itself a failure filter.                                             *)
Reporting == {"started", "completed", "caught", "failed", "filtered",
              "waiting", "resumed"}
WorkerPC == Reporting \cup {"off", "idle", "got", "run", "thrown", "filter",
                            "delay", "requeue"}

TypeOK ==
  /\ StorageTypeOK
  /\ wpc \in [Workers -> WorkerPC]
  /\ wJob \in [Workers -> Jobs \cup {NoJob}]
  /\ crashes \in Nat
  /\ completed \subseteq Jobs
  /\ ended \subseteq Jobs
  /\ unreported \subseteq Jobs
  /\ orphaned \subseteq Jobs

Init ==
  /\ StorageInit
  /\ wpc = [w \in Workers |-> "idle"]
  /\ wJob = [w \in Workers |-> NoJob]
  /\ crashes = 0
  /\ completed = {}
  /\ ended = {}
  /\ unreported = {}
  /\ orphaned = {}

Goto(w, label) == wpc' = [wpc EXCEPT ![w] = label]
Free(w) == wJob' = [wJob EXCEPT ![w] = NoJob]
Write(w, s, label) == Mark(wJob[w], s) /\ Goto(w, label)

-----------------------------------------------------------------------------
(* A server goes down, or is started again.                                *)

InBuffer(p, j) == \E k \in DOMAIN buffer[p] : buffer[p][k] = j
HeldOn(s, j) ==
  \/ \E p \in Pools : ServerOf[p] = s /\ (InBuffer(p, j) \/ j \in held[p])
  \/ \E w \in Workers : ServerOf[PoolOf[w]] = s /\ wJob[w] = j

(* All memory of server s is gone, and the calls in it never return.       *)
GoDown(s) ==
  /\ up' = up \ {s}
  /\ crashes' = crashes + 1
  /\ orphaned' = orphaned \cup {j \in Jobs : HeldOn(s, j)}
  /\ schedules' = {x \in schedules : HomeOf[x] # s}
  /\ due' = {d \in due : d \in Schedules => HomeOf[d] # s}
  /\ cpc' = [j \in Singles |->
               IF HomeOf[j] = s /\ cpc[j] \in {"take", "mark", "insert"}
                 THEN "lost" ELSE cpc[j]]
  /\ buffer' = [p \in Pools |-> IF ServerOf[p] = s THEN <<>> ELSE buffer[p]]
  /\ mpc' = [p \in Pools |-> IF ServerOf[p] = s THEN "off" ELSE mpc[p]]
  /\ room' = [p \in Pools |-> IF ServerOf[p] = s THEN 0 ELSE room[p]]
  /\ scan' = [p \in Pools |-> IF ServerOf[p] = s THEN {} ELSE scan[p]]
  /\ found' = [p \in Pools |->
                 IF ServerOf[p] = s THEN NoSchedule ELSE found[p]]
  /\ held' = [p \in Pools |-> IF ServerOf[p] = s THEN {} ELSE held[p]]
  /\ wpc' = [w \in Workers |->
               IF ServerOf[PoolOf[w]] = s THEN "off" ELSE wpc[w]]
  /\ wJob' = [w \in Workers |->
                IF ServerOf[PoolOf[w]] = s THEN NoJob ELSE wJob[w]]
  /\ UNCHANGED <<row, definitionVars, occurrences, contended, direct,
                 completed, ended>>

Crash(s) ==
  /\ s \in up
  /\ crashes < MaxCrashes
  /\ GoDown(s)
  /\ UNCHANGED <<faults, unreported>>

(* Nothing of what the table says is looked at.                            *)
Restart(s) ==
  /\ s \notin up
  /\ up' = up \cup {s}
  /\ mpc' = [p \in Pools |-> IF ServerOf[p] = s THEN "idle" ELSE mpc[p]]
  /\ wpc' = [w \in Workers |->
               IF ServerOf[PoolOf[w]] = s THEN "idle" ELSE wpc[w]]
  /\ UNCHANGED <<row, definitionVars, scheduleVars, cpc, direct, buffer,
                 room, scan, found, held, faults, wJob, crashes, historyVars>>

-----------------------------------------------------------------------------
(* The worker.                                                             *)

TakeWorkItem(w) ==
  LET p == PoolOf[w] IN
  /\ wpc[w] = "idle"
  /\ buffer[p] # <<>>
  /\ wJob' = [wJob EXCEPT ![w] = Head(buffer[p])]
  /\ buffer' = [buffer EXCEPT ![p] = Tail(@)]
  /\ Goto(w, "got")
  /\ UNCHANGED <<workerRest, row, status, retryCount, faults, crashes,
                 historyVars>>

ExecuteStart(w) ==
  /\ wpc[w] = "got"
  /\ retryCount' = [retryCount EXCEPT ![wJob[w]] = @ + 1]
  /\ Write(w, "Processing", "started")
  /\ UNCHANGED <<workerRest, row, buffer, faults, wJob, crashes, historyVars>>

ExecuteComplete(w) ==
  /\ wpc[w] = "run"
  /\ Write(w, "Completed", "completed")
  /\ completed' = completed \cup {wJob[w]}
  /\ UNCHANGED <<workerRest, row, retryCount, buffer, faults, wJob, crashes,
                 ended, unreported, orphaned>>

ExecuteFail(w) ==
  /\ wpc[w] = "run"
  /\ wJob[w] \in Failing
  /\ Write(w, "Fail", "caught")
  /\ UNCHANGED <<workerRest, row, retryCount, buffer, faults, wJob, crashes,
                 historyVars>>

(* The catch block of WorkerProcess.                                       *)
FailAgain(w) ==
  /\ wpc[w] = "thrown"
  /\ Write(w, "Fail", "failed")
  /\ UNCHANGED <<workerRest, row, retryCount, buffer, faults, wJob, crashes,
                 historyVars>>

(* WorkPool.Failure, called before the policy.                             *)
DoFail(w) ==
  /\ wpc[w] = "filter"
  /\ Write(w, "Fail", "filtered")
  /\ UNCHANGED <<workerRest, row, retryCount, buffer, faults, wJob, crashes,
                 historyVars>>

EndDelay(w) ==
  /\ wpc[w] = "delay"
  /\ Write(w, "Enqueued", "resumed")
  /\ UNCHANGED <<workerRest, row, retryCount, buffer, faults, wJob, crashes,
                 historyVars>>

Requeue(w) ==
  /\ wpc[w] = "requeue"
  /\ Buffered(PoolOf[w], wJob[w])
  /\ Free(w)
  /\ Goto(w, "idle")
  /\ UNCHANGED <<workerRest, row, status, retryCount, faults, crashes,
                 historyVars>>

ReTry(j) == retryCount[j] < FailureRetryCount

(* UpdateStatus: an update of the row with the id, if there is one; nobody *)
(* looks at the number of rows.                                            *)
Updated_NotFail(j) ==    \* mutant: failures are kept in memory only
  IF hasId[j] /\ row[j] # "deleted" /\ status[j] # "Fail"
    THEN [row EXCEPT ![j] = status[j]] ELSE row
Updated(j) ==
  IF hasId[j] /\ row[j] # "deleted"
    THEN [row EXCEPT ![j] = status[j]] ELSE row

(* Where the worker goes on when it returns.                               *)
Reported == [started |-> "run", caught |-> "thrown", failed |-> "filter",
             waiting |-> "delay", resumed |-> "requeue"]

UpdateStatus(w) ==
  /\ wpc[w] \in DOMAIN Reported
  /\ row' = Updated(wJob[w])
  /\ Goto(w, Reported[wpc[w]])
  /\ UNCHANGED <<workerRest, status, retryCount, buffer, faults, wJob, crashes,
                 historyVars>>

(* The policy grants another try.                                          *)
UpdateAndRetry(w) ==
  /\ wpc[w] = "filtered"
  /\ ReTry(wJob[w])
  /\ row' = Updated(wJob[w])
  /\ Write(w, "Enqueuing", "waiting")
  /\ UNCHANGED <<workerRest, retryCount, buffer, faults, wJob, crashes,
                 historyVars>>

LastUpdate(w) ==
  /\ wpc[w] = "completed" \/ (wpc[w] = "filtered" /\ ~ReTry(wJob[w]))
  /\ row' = Updated(wJob[w])
  /\ Goto(w, "idle")
  /\ Free(w)
  /\ ended' = ended \cup {wJob[w]}
  /\ UNCHANGED <<workerRest, status, retryCount, buffer, faults, crashes,
                 completed, unreported, orphaned>>

(* Inside Execute an exception is a failure of the job.                    *)
UpdateThrows(w) ==
  /\ wpc[w] \in {"started", "completed", "caught"}
  /\ Fault
  /\ IF wpc[w] = "caught" THEN Goto(w, "thrown") /\ UNCHANGED status
                          ELSE Write(w, "Fail", "caught")
  /\ unreported' = unreported \cup {wJob[w]}
  /\ UNCHANGED <<workerRest, row, retryCount, buffer, wJob, crashes,
                 completed, ended, orphaned>>

(* In the catch block, the filters and the policy it leaves the thread,    *)
(* and ends the process.                                                   *)
UpdateKills(w) ==
  /\ wpc[w] \in {"failed", "filtered", "waiting", "resumed"}
  /\ Fault
  /\ unreported' = unreported \cup {wJob[w]}
  /\ GoDown(ServerOf[PoolOf[w]])

WorkerStep(w) ==
  \/ TakeWorkItem(w) \/ ExecuteStart(w) \/ ExecuteComplete(w)
  \/ ExecuteFail(w) \/ FailAgain(w) \/ DoFail(w) \/ EndDelay(w) \/ Requeue(w)
  \/ UpdateStatus(w) \/ UpdateAndRetry(w) \/ LastUpdate(w)

(* Clean deletes the completed rows that are a day old.                    *)
Clean ==
  \E S \in SUBSET {j \in Jobs : row[j] = "Completed"} \ {{}} :
    /\ row' = [j \in Jobs |-> IF j \in S THEN "deleted" ELSE row[j]]
    /\ UNCHANGED <<up, definitionVars, scheduleVars, cpc, direct, buffer,
                   managerVars, faults, workerVars, crashes, historyVars>>

-----------------------------------------------------------------------------

jobVars == <<workerVars, crashes, historyVars>>

TimePasses(d) == Occur(d) /\ UNCHANGED jobVars
CallerRuns(j) == SetStep(j) /\ UNCHANGED jobVars
ManagerRuns(p) == ManagerStep(p) /\ UNCHANGED jobVars
CallerThrows(j) ==
  /\ SetThrows(j)
  /\ unreported' = unreported \cup {j}
  /\ UNCHANGED <<workerVars, crashes, completed, ended, orphaned>>

(* What a manager that dies had taken, and a row that could not even be    *)
(* marked, are in nobody's hands any more.                                 *)
ManagerDies(p) ==
  /\ ManagerThrows(p)
  /\ orphaned' = orphaned \cup held[p]
  /\ UNCHANGED <<workerVars, crashes, completed, ended, unreported>>

ManagerDrops(p, j) ==
  /\ MapThrows(p, j)
  /\ orphaned' = orphaned \cup {j}
  /\ UNCHANGED <<workerVars, crashes, completed, ended, unreported>>

Next ==
  \/ \E d \in Delayed \cup Schedules : TimePasses(d)
  \/ \E x \in Schedules : SetSchedule(x) /\ UNCHANGED jobVars
  \/ \E j \in Singles : (SetCheck(j) /\ UNCHANGED jobVars) \/ CallerRuns(j)
                        \/ CallerThrows(j)
  \/ \E p \in Pools : ManagerRuns(p) \/ ManagerDies(p)
                      \/ \E j \in Jobs : ManagerDrops(p, j)
  \/ \E w \in Workers : WorkerStep(w) \/ UpdateThrows(w) \/ UpdateKills(w)
  \/ \E s \in Servers : Crash(s) \/ Restart(s)
  \/ Clean

Spec == Init /\ [][Next]_vars

(* Threads go on, time goes on, and a server that is down is started again. *)
FairSpec ==
  /\ Spec
  /\ \A j \in Singles : WF_vars(CallerRuns(j))
  /\ \A p \in Pools : WF_vars(ManagerRuns(p))
  /\ \A w \in Workers : WF_vars(WorkerStep(w))
  /\ \A s \in Servers : WF_vars(Restart(s))
  /\ \A d \in Delayed \cup Schedules : WF_vars(TimePasses(d))

-----------------------------------------------------------------------------
(* Properties.                                                             *)

NoCopies(s) == \A k, l \in DOMAIN s : s[k] = s[l] => k = l

(* Those who have the job and will run it or pass it on.                   *)
Hands(j) ==
  {<<"buffer", p>> : p \in {p \in Pools : InBuffer(p, j)}}
  \cup {<<"manager", p>> : p \in {p \in Pools : j \in held[p]}}
  \cup {<<"worker", w>> : w \in {w \in Workers : wJob[w] = j}}
  \cup {<<"caller", i>> : i \in {i \in Singles : i = j /\ cpc[i] = "take"}}

(* However direct enqueue, the peeks of several servers, retries and       *)
(* crashes interleave, no job is in two hands, or in one of them twice.    *)
OneHand ==
  /\ \A j \in Jobs : \A a, b \in Hands(j) : a = b
  /\ \A p \in Pools : NoCopies(buffer[p])

(* A row that PeekOrWait would take belongs to a job that nobody has and   *)
(* that was never begun: also when a worker writes its status while        *)
(* Enqueue is still on its way to the insert.                              *)
WaitingUntouched ==
  \A j \in Jobs :
    row[j] = "WaitingProcess" => Hands(j) = {} /\ retryCount[j] = 0

(* A job whose Execute has returned runs again, in this process or in      *)
(* another, only when the update that should say so has thrown.            *)
NotRunAgain ==
  \A w \in Workers :
    wpc[w] = "run" /\ wJob[w] \in completed => wJob[w] \in unreported

(* When a job that was taken from the table, or comes from a schedule, is  *)
(* over, its row says how it ended, unless an update threw.                *)
OutcomeRecorded ==
  \A j \in ended \ (direct \cup unreported) :
    row[j] \in (IF j \in completed THEN {"Completed", "deleted"} ELSE {"Fail"})

(* A schedule is turned into no more jobs than its time has come, unless   *)
(* two managers found it due at once.                                      *)
ClonedOnce == ~contended => Cardinality(Clones \ Unused) <= occurrences

(* The manager that would take the job has ended.                          *)
ManagerDead(n) == \E p \in Pools : NameOf[p] = n /\ mpc[p] = "dead"

Over(j) == j \in ended \cup orphaned \/ row[j] = "Fail"

(* A job accepted by Enqueue ends, unless its server or manager went down  *)
(* while it had the job, or the manager that should take it is gone.       *)
AcceptedJobsEnd ==
  \A j \in Singles :
    cpc[j] = "returned" ~> (Over(j) \/ ManagerDead(PoolName[j]))

(* When the time of a schedule has come, it is enqueued and gets a new     *)
(* time, unless a manager has ended.                                       *)
OccurrencesAnswered ==
  \A x \in Schedules :
    x \in due ~> (x \notin due \/ \E p \in Pools : mpc[p] = "dead")

-----------------------------------------------------------------------------
(* What the documentation says and the code does not do.                   *)

(* An enqueued job is executed even after a restart.                       *)
ExecutedAfterRestart ==
  \A j \in Singles \ Failing : cpc[j] = "returned" ~> j \in completed
=============================================================================
