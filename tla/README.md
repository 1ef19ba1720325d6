# Jobman in TLA+

Specifications of Jobman, an embedded job server for .NET, with model checking
by TLC and proofs checked by TLAPS. Every definition is read off the C# source;
`PROJECT.json` maps each one to its lines.

## The system

A program hands Jobman *jobs* (static method calls). The server keeps named
*work pools*; each pool has a *storage* where jobs wait, a bounded
*pre-process buffer*, and *workers*, one thread each, that take jobs from the
buffer and run them.

| Component | State | Operations | Talks to |
|---|---|---|---|
| `WorkServer` | list of pools, status, management thread | Enqueue, Schedule, StartAsync (delayed), StopAsync | pools, storages |
| `WorkPool` | status, buffer (`ConcurrentQueue`), workers (`ConcurrentDictionary`), manager thread | CanEnqueueDirect, EnqueueDirect, StartAsync, StopAsync, CheckWorkers, CheckPreProcessBuffer | storage, workers, filters |
| `Worker` | status, current item, thread | Start, StopAsync, DisposeAsync, the loop of WorkerProcess | its pool, filters, retry policy |
| `DefaultPolicyExecutor` | none | decides on a retry, sleeps, puts the job back | pool |
| `InMemoryStorage` | queue of single runs, table of schedules, registered pools, id sequence | Set, PeekOrWait, UpdateStatus, Clean | pools (direct enqueue) |
| SQL Server and PostgreSQL storages | table `jm_jobs`, schedules in memory, registered pools | the same | database, pools |
| Filters (`JobFilterManager`, `SortedListWithSameKeys`) | sorted filters | Add, Remove, GetFilters | workers, pools |
| Metrics (`WorkPoolMetrics`, `WorkServerMetrics`) | a pool's samples per second; the newest of each pool, running totals | Add, GetLast, UpdateGlobalLive, CheckClear | pools, server |
| Dashboard (`Jobman.js`, `MetricsController`) | a window of rows, a chart, requests in flight | update, dataReceived, createWindow, updateChartFullData | metrics, through the browser |
| Definition factory, attributes | none | build a definition, choose its pool | server |

What is hard here: plain fields (`Worker.Status`, `Worker.CurrentWorkItem`)
that several threads test and set without a lock; CheckWorkers run by two
threads; calls that start and stop the server and cross; counters that several
threads read and write back; answers that overtake each other; tests of a
queue's length that are stale when acted on; waits without
a timeout; retries that come back later than anybody expects; restarts; rows in
a database that nobody takes up again after a crash. `PROJECT.json` lists the
hazards with their lines and the properties that cover them.

## Modules

| Module | Models | Notes |
|---|---|---|
| `Worker` | `Worker.cs`, `DefaultPolicyExecutor.cs` | actions of a worker's thread, and what other threads do to a worker |
| `WorkPool` | `WorkPool.cs`, the queue of `InMemoryStorage.cs` | extends `Worker`; all threads of a pool |
| `JobLifecycle` | abstract | what a pool promises about a job |
| `MCWorkPool` | instances | model values and symmetry |
| `InMemoryStorage` | `InMemoryStorage.cs`, its callers and the manager threads | Set with its ids, CheckSchedules, PeekOrWait |
| `RecurrentJobs` | the workers' side of it: UpdateStatus, retries, Clean | extends `InMemoryStorage` |
| `MCRecurrentJobs` | instances | one pool, or two that share the storage |
| `SqlStorage` | `SqlServerNativeStorage.cs`, `PostgreSqlNativeStorage.cs`, their commands, `StorageExtensions.cs` | Set, CheckSchedules, PeekOrWait over one table that several servers share |
| `SqlJobs` | the workers' side of it: UpdateStatus, retries; crashes and restarts | extends `SqlStorage` |
| `MCSqlJobs` | instances | two servers, or one with two pools |
| `WorkServer` | `WorkServer.cs`, StartAsync and StopAsync of its pools, their filters in `SortedListWithSameKeys.cs` | calls that overlap, the delay, the management thread |
| `MCWorkServer` | instances | two starts, two stops |
| `MetricsSource` | abstract | what somebody who polls the metrics may rely on |
| `ServerMetrics` | `WorkPoolMetrics.cs`, `WorkServerMetrics.cs`, UpdateMetrics | implements `MetricsSource` |
| `Dashboard` | `Jobman.js`, `MetricsController.cs` | extends `MetricsSource` |
| `MCServerMetrics`, `MCDashboard` | instances | one pool; two series, two time zones |
| `Ordering` | the order of keys and loops | numbers of a set from the smallest up, for the two above |
| `WorkPoolProofs` | proofs about `WorkPool` | see below |
| `RecurrentJobsProofs` | proofs about `RecurrentJobs` and the storage it extends | see below |
| `SqlJobsProofs`, `SqlHandsProofs` | proofs about `SqlJobs` | see below |
| `WorkServerProofs` | proofs about `WorkServer` | see below |
| `OrderingProofs` | what `InOrder` returns | for the next two |
| `ServerMetricsProofs` | proofs about `ServerMetrics` | see below |
| `DashboardProofs` | proofs about `Dashboard` | see below |

`WorkServer` and `WorkPool` meet at StartAsync and StopAsync of a pool: the
first takes them to return, the second says when they do. `Dashboard` is built
on `MetricsSource` alone, which `ServerMetrics` is shown to implement.

### How the model corresponds to the code

*Threads.* A worker's thread is at `wpc[w]`; the thread that calls StartAsync
and StopAsync of the pool (`Control`) and the manager thread (`Manager`) are at
`pc[t]`; each item's call of Enqueue is at `epc[i]`. There is one `Control`
because the server starts and stops a pool from one place.

*Steps.* Each access of one thread to something another thread may change is a
step of its own: the test of `Status` in WorkerProcess and the dequeue that
follows it, the test and the assignment in the `finally` of Execute, the two
reads of the buffer's length in CheckPreProcessBuffer, the count of the workers
and the creation of one, the announcement of a stop, the wait for it
(`StopWait`, `DisposeWait`) and the assignment of Stopped when the wait is over
(`StopMark`, `DisposeMark`): a worker that was past its test of Status may begin a
job, or fail one, between the last two, and Stopped is then written over that.
Neighbouring accesses share a step only when no other thread can tell.

*Data.* An item is a model value. Its `RetryCount` is kept; its `Status` is
not, since for a single run in memory it is written often and never read.
`outcome` is a history variable: how the item ended.

*Inputs.* `Failing` are the items whose job may throw each time it runs,
`Unloadable` those for which WorkItemFactory.Create may throw.

*Failures.* A job that throws is reported as Fail three times: in Execute
(`ExecuteFail`), in the catch block of WorkerProcess (`FailAgain`), and by the
pool, which is a failure filter itself (`DoFail`); the retry policy comes last.
Each is a write and an UpdateStatus of its own in `RecurrentJobs` and `SqlJobs`,
also for a job that is then given up; in `WorkPool` nobody reads the status. The
pool is taken to be in the list of filters once while its workers run: a job
that throws before StartAsync has called Add would be reported twice, and one in
a pool whose filter is in the list twice (overlapping starts, see `WorkServer`)
four times.

*Delays.* A sleep is a step that may take as long as it likes; 50 ms and 30 s
are alike. The delay before a retry is the program counter `delay`.

*The storage.* `WorkPool` has the storage of one pool and single runs, all it
needs to say what becomes of a job. `InMemoryStorage` and `RecurrentJobs` have
schedules, ids, several pools and UpdateStatus in steps, and a pool whose
workers are simply there. In them Status counts: CheckSchedules reads it, and
every copy of a reference writes it.

*Time.* Nothing but `NextExecuteTime <= now` is ever asked of a time, and
CalculateNextRun finds one after now. So `due[d]` stands for the comparison;
`Occur` makes it true, CalculateNextRun false. Time is unbounded this way, and
"again and again" can be said. The clock is not set back.

*The table.* `SqlStorage` keeps of a row its `Status`; a command is one step,
since it runs under `_locker` in its process and in one transaction for the
others. The definition object is apart from its row: `status` is written first
and sent later, with the call of Enqueue marking the same object in between. A
crash (`GoDown`) empties everything but the table; `Restart` starts the pools
again, and programs schedule again what they schedule. A command throws at most
`MaxFaults` times: inside Execute that is a failure of the job, in a catch
block or in the policy it ends the process (`UpdateKills`), in a manager thread
it ends that thread (`ManagerThrows`). One that throws has had no effect; a
reply lost after the commit is not modelled. `PostgreSql` tells the two
storages apart: its peek takes ten rows whatever it is asked for.

*The server.* A call of StartAsync or StopAsync is at `call[c]`. The test of a
status and its assignment are two steps (`StartAsync` and `SetActive`,
`StopAsync` and `SetWaiting`); each pool is started and stopped in
steps of its own. `Launch` is the task that starts the management thread: it
takes the token of the source that is in the field by then. The thread waits
and updates; what it updates is in `ServerMetrics`.

*Metrics.* A thread that counts an outcome holds the pool's lock (`Add`); if it
began a second, it hands the old sample over after the lock (`GetLast`,
`AddSample`), so another may overtake it. The loop of UpdateGlobalLive reads
and writes the totals in separate steps. Of the numbers in a sample `processed`
stands for all. `Tick` and `SetBack` move the local time.

*The page.* JavaScript runs a callback to its end, so a callback is a step:
`Update` is the timer, `DataReceived` an answer, `Fail` an error. Answers are a
sequence from which any may arrive next. `offset` is the browser's time zone,
which `ToJson` applies to the rows that createWindow pads. The server's side is
`MetricsSource`. `Answer` takes names, samples and total at one moment; the
controller writes the live collection out without the lock of
WorkServerMetrics, so a real answer may mix two moments, with a newer sample
beside an older total.

*Ids.* The sequence is a number of `IdBits` bits; only equality of ids matters,
so the sign is left out.

### Bounds

Each item is enqueued once (`Items`). `Workers` are the identities worker
objects can get; three are enough for one start with `ThreadCount` 1, since at
most two exist at a time and a removed one is replaced once: were they to run
out, AddWorker would block and the liveness runs would fail. `MaxStarts` and
`MaxStops` bound the calls. One worker and a buffer of one are the smallest
pool in which two threads create a worker too many, the buffer overflows, and
items queue in the storage; two items are the fewest that can be confused,
overtake each other, or block each other.

In the runs of the storage a definition is passed to Set once; recurrent jobs
then run without end. `RetryCount` of a recurrent job never goes down and is
only compared with `FailureRetryCount`, where it stops in the model. The queue
needs no bound: each call of PeekOrWait takes at least two items and a schedule
is enqueued once a call. Three jobs are the fewest that leave one in the queue,
and three calls of Set the fewest that are more than `IdBits`, which is 2 in
`storage_calm` where the code has 64.
The runs over the table: one crash or one exception decides who loses a job, so
`sql_jobs` has one of the two in a behaviour (`OneMishap`; an exception may end
its process) and leaves the combinations to the proofs, which have any number;
two servers or two managers are the fewest that compete, and two jobs the
fewest of which one waits in the table while the other fills the buffer.
`Clones` must be as many as occurrences times pools, or a manager would have to
wait for an identity; `SqlAssumption` says so. The number of tries stops at
`FailureRetryCount`; after a crash nobody takes a job up again.
`storage_live` has two workers: a job that is being retried and a second copy
of it need one each to update the status at the same time.
In `storage_shared` only one of the two pools has a worker; what the other
takes rests in its buffer, which is enough for the two managers to race.

`server_calls` has two starts, both delayed, and two stops, the fewest that make
each kind of call cross its own kind and the other; two pools are a first and a
last of the loop. `server_metrics` has one pool (a second one makes no thread
wait for another), a worker and a metrics thread that race for a second, two
updaters that race for the totals; three seconds and `Keep` 1 so that a sample
is overtaken and one is thrown away. `dashboard` keeps `Size` 2 rows where the
page has 100, of four seconds (`MaxTime`); answers are late by up to two
requests in flight, and a sample is at most `MaxLag` 2 seconds old when published,
a bound of that run only: the code has none, and `ServerMetrics` implements
`MetricsSource` with one that excludes nothing; one request may fail. The browser is
at UTC, where padding meets samples, or further from it than four seconds and a
window (`FarFromUtc`); the code's time zones are hours away.

### Fairness

`FairSpec` asks weak fairness of every thread that is inside a call: workers,
the manager, `Control` once StartAsync or StopAsync has been called, an Enqueue
that has begun. The operating system schedules threads fairly, and every wait
of the code polls. A job is assumed to end. Nobody is obliged to call Enqueue,
StartAsync or StopAsync. In `RecurrentJobs`, time goes on as well: the next
occurrence of each schedule comes. In `SqlJobs` a server that is down is started
again; nothing obliges it to crash, and no command to throw. In `WorkServer`
calls that have begun go on, as do the tasks and the management thread; nobody
has to call. In `ServerMetrics` time passes and the pools' threads go on. In
`Dashboard` the interval fires, the server answers, and an answer on its way
arrives or is lost.

## Runs

| Run | Shows |
|---|---|
| `pool_jobs` | two failing jobs with retries: `TypeOK`; no job lost or duplicated (`InOnePlace`); tries within the policy (`RetryPolicy`); at most one worker too many (`FleetBounded`) |
| `pool_active` | one job that may fail or not load, nobody stops the pool: the pool implements `JobLifecycle` (`ImplementsJobLifecycle`); the job ends (`JobsEndUnlessStuck`) and the number of workers settles (`FleetSettles`), unless a thread waits for a failed job |
| `pool_calls` | the same with a stop: StartAsync and StopAsync return, except when they wait for a worker whose last job failed, or for a buffer that no worker empties (`CallsReturnUnlessStuck`) |
| `storage_calm` | three recurrent jobs, one pool, two workers: `TypeOK`; at most one copy of a job (`OneCopy`) and no run without a new occurrence (`NoExtraRun`), unless CheckSchedules overtakes a job; no schedule dropped while one caller calls, the ids last and no job empties the storage (`NoScheduleDropped`) |
| `storage_live` | a schedule that fails and is retried, two workers: it is not stuck in a status (`NeverForgotten`) and is run again and again (`KeepRunningUnlessOvertaken`), unless CheckSchedules overtakes the job or the policy |
| `storage_shared` | two managers, the workers of one of them, a delayed job that may fail, and the cleaning job: no single run lost or doubled (`SinglesInOnePlace`), no recurrent one doubled unless overtaken (`OneCopy`); the cleaning job always ends the process (`CleanEndsProcess`) |
| `sql_jobs` | two servers, a crash, an exception, retries: no job in two hands (`OneHand`); a row that would be taken belongs to nobody (`WaitingUntouched`); no second run of a completed job unless its update threw (`NotRunAgain`); rows say how jobs from the table ended (`OutcomeRecorded`) |
| `sql_live` | two pools and a schedule, a delayed job, an exception anywhere: one job an occurrence unless both managers find it due (`ClonedOnce`); accepted jobs end unless an exception takes manager or process (`AcceptedJobsEnd`); due schedules are enqueued (`OccurrencesAnswered`) |
| `server_calls` | starts and stops that cross: `TypeOK`; once all is quiet the status is true (`StatusTells`); a stop returns or fails, except when the management thread runs on a token nobody cancels (`StopReturnsUnlessUncancelled`); a delayed start takes place (`DelayedStartHappens`) |
| `server_metrics` | a sample has the outcomes of its second, and the newest is shown (`SamplesRight`); the server implements `MetricsSource` until the time goes back or two updates overlap (`ImplementsSource`); a pool is listed without any job (`EachPoolAppears`) |
| `dashboard` | `TypeOK`; at most `Size` rows, of different seconds (`WindowBounded`); no line is cut short (`LinesComplete`); values stay at their second and series (`NeverInvents`); the total goes back only with an overtaken answer (`CountersAdvance`); far from UTC samples stay (`SamplesStay`); the page catches up (`CatchesUp`) |
| `sql_restart` | violated: an accepted job is executed even after a restart |

`ExecutedAfterRestart` is what the documentation says of persisted jobs; it is
a finding in `PROJECT.json`. Deadlock is not checked: a pool or a server that
nobody calls rests, and bounded clocks stop.

The models also follow the code where one would expect something else, without a
run of its own. StopAsync of a pool waits for ever for a worker whose last job
failed for good, since CurrentWorkItem is cleared only on success; a pool that
is stopped and started again keeps its stopped workers, counts them, and runs
nothing; a schedule may end in Processing and never run again after two copies
of it updated its status. `StopReturns`, `JobsOfAnActivePoolEnd` and
`SchedulesKeepRunning` are the statements without these exceptions; the runs
check them with the exceptions named. The buffer grows beyond `PreProcessBufferLenght` (PeekOrWait
takes one item more than it is asked for; retries are put in without a test). A
worker that has looked at its status before StopAsync wrote to it runs a job in
a stopped pool. The manager thread may wait for ever for a surplus worker whose
last job failed (`WaitsForFailedJob`), and the other jobs stay in the storage.
Pools that share a storage take each other's jobs. Two threads that call
Schedule at once may get one id, and after as many calls of Set as an id has
bits all ids are equal; TryAdd then drops schedules. `NoScheduleDropped` says
so: it holds for one caller, no more calls than bits and no job that empties the
storage, and `storage_calm` goes one call further.

Jobs enqueued with a delay are handed to a pool that has room at once, whatever
their time; in memory the queue does not look at it either, and only the peek
over the table does. The job that cleans the in-memory storage ends the process,
as `CleanEndsProcess` says. Over a table, a job that was enqueued directly may
end before its row is inserted: the row then says Enqueued for ever, which is
why `OutcomeRecorded` speaks of the others. What a manager that dies had peeked
or cloned stays Enqueuing or Enqueued.

*Overtaking.* A schedule in the queue is enqueued again by the next
CheckSchedules, since its status changes at the dequeue only. The history
variable `overtaken` says that CheckSchedules has begun while a schedule was in
the queue, or dequeued by another manager and not marked yet: with three jobs
due in one pool, or with two pools. The properties say that nothing else makes
a second copy; both things happen in `storage_calm` and `storage_shared`.

CheckSchedules may also overtake the retry policy. UpdateStatus makes a job that
has failed WaitingProcess, three times over, since Fail is reported three times,
and only the next write of the worker takes that back; when the job's next time
comes in between, a second copy is enqueued beside the worker's. `NoteSecondCopy`
counts this as overtaking when the worker then writes Fail once more or
Enqueuing for the retry, and `OneCopy` and `NoExtraRun` leave jobs that fail
out. Two copies on two workers can leave the status at Processing for ever.
`NeverForgotten` and `KeepRunningUnlessOvertaken` say nothing of behaviours with
overtaking: the races that follow it are in the model, where they go wrong as in
the code. `storage_live` shows that a schedule is lost in no other way.

*The server.* A stop that comes while a start waits for its delay throws, and
the start takes place. A stop that comes before the management thread was
launched throws at Join and leaves WaitingStop. When a start overlaps another
call a filter may be in the list twice, and a stop may wait for a thread that
runs on another source's token. A management thread is launched again after a
restart, which throws in its task; `StatusTells` therefore speaks of the thread
of an Active server only if it was started once.

*Metrics.* Totals are not a count of jobs: samples are replaced without being
added, added more than once, and lost when StartAsync or StopAsync updates
beside the management thread; what holds is that they do not go down until
then. DateTime.Now is local: when it is set back, an old sample is shown again
and Clear removes the new ones.

## Proofs

*The pool.* For any finite number of workers, any items, thread count, buffer length and
retry count (assumptions `WorkerAssumption`, `PoolAssumption`):

- `TypeCorrect`: `Spec => []TypeOK`. The inductive invariant `TypeInv` adds
  that a worker holds an item exactly at `got`, `run` and `delay`, and that a
  thread dealing with a worker has it as `target`.
- `FleetIsBounded`: `Spec => []FleetBounded`. A thread past its count adds at
  most one worker, and only while the count was below `ThreadCount`: the
  invariant bounds the workers by what each thread has already decided.
- `JobsStayInOnePlace`: `Spec => []InOnePlace`, by `OwnInv`, which makes the
  six places pairwise exclusive, with lemmas on queues without copies.
- `RetriesFollowPolicy`: `Spec => []RetryPolicy`, by `RetryInv`: an item has no
  try behind it in the storage, and one left wherever it waits.
- `PoolImplementsLifecycle`: `Spec => ImplementsJobLifecycle`, step by step
  under the refinement mapping `JobStateOf`, from the invariants above.

*Jobs in memory.* For any definitions, pools, workers and callers that share one
storage, any buffer length, width of an id and number of tries, and whichever
jobs throw (`StorageAssumption`, `WorkersAssumption`; `PowersAssumption` says of
the powers of two up to 2^`IdBits` that each is twice the one before and none
exceeds the last, since the provers know nothing of powers, and TLC evaluates it):

- `StorageTypeCorrect`: `Spec => []TypeOK`. `TypeInv` adds that whoever is at
  work has a definition in hand, and which labels are for recurrent jobs only.
- `SinglesAreInOnePlace`: `Spec => []SinglesInOnePlace`. `Stored` says of a
  definition in which one place outside the workers its reference is, `Held` the
  same with the workers, `Placed` adds the calls of Set and the end of its life.
  One lemma per action says how a reference moves, and `HeldCopies` that one
  reference is one element of `Copies`.
- `RecurrentsHaveOneCopy` and `RunsAnswerOccurrences`: `Spec => []OneCopy`,
  `Spec => NoExtraRun`. A second copy is kept away only by the status, and the
  status is written late; so `Fits` ties the place of the copy to the status,
  the scan of CheckSchedules (`ScanLocked`: one at a time), the times, and how
  far the worker is with its UpdateStatus, as long as nothing was overtaken.
- `SchedulesAreNotForgotten`: `Spec => []NeverForgotten`, for jobs that throw as
  well. Their status may be WaitingProcess while a worker has still to ask the
  policy (`Parked`); `Tracked` says that apart from such workers a job has one
  place, and that the status is WaitingProcess exactly when CheckSchedules has to
  see it. When the policy takes the job up again nobody else has it, or
  `NoteSecondCopy` has noted it.
- `SchedulesAreKept`: `Spec => []NoScheduleDropped`. The sequence is 2^n - 1 after
  n calls of Set, so the ids of different calls differ as long as n is at most
  `IdBits`. `IdsInOrder` finds n in the state, as the number of definitions whose
  Set is over, says how far the call under way is (`CallInOrder`) and what the
  dictionary has (`KeptSoFar`); no induction over the calls is needed.

*Jobs over a table.* For any jobs, schedules, servers, pools and workers, any
buffer length and retry count, any number of crashes and of commands that throw
(`SqlAssumption`, `JobsAssumption`):

- `SqlTypeCorrect`: `Spec => []TypeOK`, by `TypeInv`, which adds that a worker
  at work has a job.
- `NoJobInTwoHands` and `WaitingRowsAreUntouched`: `Spec => []OneHand`,
  `Spec => []WaitingUntouched`. The row alone does not say who has a job: an
  update may be late, or throw. `HandInv` therefore ties three things together
  for each job: the places that have it exclude each other (`Apart`); an object
  that is still WaitingProcess is in no place; a row that is WaitingProcess has
  an object that is. So whoever peeks a row finds nobody there.
- `CompletedIsNotRunAgain` and `OutcomesAreRecorded`: `Spec => []NotRunAgain`,
  `Spec => []OutcomeRecorded`. `OutcomeInv` adds that a completed job whose
  update did not throw is at most with the worker that reports it, that a job
  without an id came past the table, and that the object has the outcome the
  worker is about to send; `DownInv` that a server that is down has nothing.
- `EachOccurrenceClonedOnce`: `Spec => []ClonedOnce`. While no two managers have
  found the same schedule, the clones in use and the schedules that are due and
  not cloned yet are together no more than the occurrences (`CountInv`).

*The server.* For any calls and any number of pools (`ServerAssumption`):

- `ServerTypeCorrect`: `Spec => []TypeOK`.
- `StatusIsTrue`: `Spec => []StatusTells`. `LaunchInv` relates the status to
  sources, tasks and thread and holds always; `CalmInv` says, until calls have
  crossed, which pools a start or stop under way has dealt with already.

*The metrics.* For any finite sets of pools, workers and metrics threads, any
number of updaters and any `Keep` (`MetricsAssumption`):

- `MetricsTypeCorrect`: `Spec => []TypeInv`. Besides the types: a sample is filed
  under its second, a history that has begun never becomes empty, the keys of
  the server's dictionary differ, and an updater reads inside them.
- `SamplesAreRight`: `Spec => []SamplesRight`. `CountsOK` says that every sample
  anybody has, of a second before the one under way, has the outcomes of it;
  `NewestOK` that the newest sample of a pool either is shown or is with a
  thread, until one has been overtaken.
- `ServerImplementsSource`: `Spec => ImplementsSource`, step by step. What can
  change the totals is bounded by the updates made (`TotalsOK`), so they stay in
  the range of `MetricsSource`; how often an older sample replaces a newer one
  is bounded too, by the pairs of a thread and a second that is over
  (`LateBounded`): a thread hands each second over once. `Names` and `published`
  change as `Listed` and `Publish` say, since a key that is added comes last.

`OrderingProofs` has what both groups need of order: the ranks of the elements of
a set of n numbers are different and below n, so every number below n is one, and
`InOrder` is a sequence that has each element once, increasing, with a new
greatest element at its end. Counting takes the place of induction.

*The page.* For any series, window size, load, time zones, and number of requests
and failures (`SourceAssumption`, `DashboardAssumption`; `Missing` is no
sequence, as undefined is no array):

- `PageTypeCorrect`, `WindowStaysBounded`, `LinesAreComplete`, `NothingIsInvented`:
  `Spec => []TypeOK`, `[]WindowBounded`, `[]LinesComplete`, `[]NeverInvents`. The
  lemmas `AddSamplesIs`, `DropFirstIs`, `PadIs` and `CreateWindowIs` say what the
  loops of the page do to a window: rows stay true (`Rows`) and their seconds
  different, and padding adds at most what is lacking. `ChartOf` ties the chart
  to the rows it was drawn from, `AnswersGrow` orders the answers on their way,
  and `NothingMissed` says that a page on which no answer was overtaken knows
  less than any answer to come.
- `TotalsAdvance`: `Spec => CountersAdvance`, from `NothingMissed`.
- `SamplesAreKept`: `Spec => SamplesStay`. `FarFromUtc` says that the padding
  cannot meet a sample: the time zone differs from UTC by more than the whole
  run and a window. Then the window is full from its first answer on
  (`FullWindow`) and nothing is padded any more. Nearer to UTC padding does
  overwrite rows, as the code has it, if a sample is as much older than the
  first row as the time zone is off.

Every invariant the passing runs check is proved for all values of the constants,
and so are the action properties (`NoExtraRun`, `CountersAdvance`, `SamplesStay`)
and the refinements of `JobLifecycle` and `MetricsSource`.

*Only model-checked.* Liveness, since the prover has neither fairness nor
ENABLED: `JobsEndUnlessStuck`, `FleetSettles`, `CallsReturnUnlessStuck`,
`KeepRunningUnlessOvertaken`, `CleanEndsProcess`, `AcceptedJobsEnd`,
`OccurrencesAnswered`, `StopReturnsUnlessUncancelled`, `DelayedStartHappens`,
`EachPoolAppears` and `CatchesUp`.

## Not modelled

- Filters of a program that throw (`Worker.cs:90` then finds no stopwatch) and
  workers that iterate over the list of filters while a pool adds to it
  (`SortedListWithSameKeys.cs:13`): inside Execute both are a job that fails.
- The wait times of a retry, and their index, which is -1 when a filter throws
  before the first try: the program supplies both.
- A manager thread that waits inside PeekOrWait of a table does not reach
  CheckWorkers (`SqlServerNativeStorage.cs:250`): workers of `SqlJobs` are there
  from the start of their pool.
- The set of registered pools (`InMemoryStorage.cs:87`) walked over while a pool
  registers: the enumerator throws in the caller of Enqueue before anything is
  stored.
- `WorkPool.Dispose`, which nothing calls; the synchronized pool, which is for
  tests; the choice of a storage for each pool, done once before anything runs.
- Commands are steps: isolation levels below that, the creation of the tables,
  and two threads that open the connection at once.
- Colours and options of the chart, the button for a test load, the pages the
  server renders.
- Serialization, type resolution, SQL text and parameter formatting, the cron
  parser: they transform data and have no state that interacts.
- Samples, tests, and the vendored scripts of the sample.
