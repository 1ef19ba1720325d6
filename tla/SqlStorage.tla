----------------------------- MODULE SqlStorage -----------------------------
(***************************************************************************)
(* The storages that keep their jobs in the table jm_jobs                  *)
(* (JobMan.Storage.SqlServer and JobMan.Storage.PostgreSql), as the        *)
(* callers of Enqueue and the manager threads of the pools use them.       *)
(* UpdateStatus, crashes and restarts are in SqlJobs.                      *)
(*                                                                         *)
(* The table is shared by all servers (processes); the definitions, the    *)
(* schedules, the buffers and the threads die with their server.  A row    *)
(* has at most one definition object that anybody still uses, so status,   *)
(* hasId and retryCount of that object are functions of the job.           *)
(*                                                                         *)
(* A command runs under the _locker of the storage and is one transaction: *)
(* it is one step, and it either takes effect or throws.  Every command    *)
(* may throw, MaxFaults times in all; a deadlock of two servers over the   *)
(* locks of CreatePeek is one of the reasons.  The pools of a server run   *)
(* as long as it is up (WorkPool stops them).                              *)
(***************************************************************************)
EXTENDS Integers, Sequences, FiniteSets

CONSTANTS
  Singles,        \* jobs passed to Enqueue
  Delayed,        \* those of them with runAfter
  Clones,         \* identities for the jobs that schedules make
  Schedules,      \* definitions passed to Schedule
  NoSchedule,     \* the null definition
  Unloadable,     \* jobs for which WorkItemFactory.Create may throw
  Unreadable,     \* jobs whose row it may fail to map to a definition
  Servers, Pools,
  ServerOf,       \* the server of each pool
  NameOf,         \* its Name
  PoolName,       \* Definition.Pool of each job
  HomeOf,         \* the server whose program enqueues or schedules it
  BufferLength,   \* PreProcessBufferLenght of each pool
  PostgreSql,     \* TRUE: PostgreSqlNativeStorage, FALSE: SqlServer...
  MaxFaults,      \* bound on the commands that throw
  MaxOccurrences  \* bound on the times that come for schedules

Jobs == Singles \cup Clones

ASSUME SqlAssumption ==
  /\ Singles \cap Clones = {}
  /\ Schedules \cap Jobs = {}
  /\ NoSchedule \notin Schedules
  /\ Delayed \subseteq Singles
  /\ Unloadable \subseteq Singles
  /\ Unreadable \subseteq Singles
  /\ ServerOf \in [Pools -> Servers]
  /\ HomeOf \in [Singles \cup Schedules -> Servers]
  /\ \A p, q \in Pools : ServerOf[p] = ServerOf[q] /\ NameOf[p] = NameOf[q]
                           => p = q
  /\ BufferLength \in Nat
  /\ PostgreSql \in BOOLEAN
  /\ MaxFaults \in Nat
  /\ MaxOccurrences \in Nat
  /\ Cardinality(Clones) >= MaxOccurrences * Cardinality(Pools)

VARIABLES
  up,            \* the servers that run
  row,           \* column Status of each job's row, or that it has none
  status,        \* Definition.Status
  hasId,         \* Definition.Id is that of the row, not 0
  retryCount,    \* Definition.RetryCount
  schedules,     \* _schedules, of all servers
  due,           \* the definitions whose NextExecuteTime has come
  occurrences,   \* how often the time of a schedule has come
  cpc,           \* where the call of Enqueue for each single job is
  direct,        \* history: the jobs that went past the table
  buffer,        \* _preProcessBuffer of each pool
  mpc,           \* where each pool's manager thread is
  room,          \* the argument count of its PeekOrWait
  scan,          \* the schedules CheckSchedules has still to check
  found,         \* the schedule it is cloning
  held,          \* the definitions it has in its hands
  faults,        \* commands that have thrown
  contended      \* history: two managers found one schedule due

definitionVars == <<status, hasId, retryCount>>
scheduleVars == <<schedules, due, occurrences, contended>>
managerVars == <<mpc, room, scan, found, held>>
storageVars == <<up, row, definitionVars, scheduleVars, cpc, direct, buffer,
                 managerVars, faults>>
(* What calls of Enqueue, and what managers leave alone.                   *)
callerRest == <<up, retryCount, scheduleVars, managerVars>>
managerRest == <<up, schedules, occurrences, cpc, direct>>

Status == {"WaitingProcess", "Enqueuing", "Enqueued", "Processing",
           "Completed", "Fail"}

(* new: not called yet; take: the pool has room, the item is not in the    *)
(* buffer yet; mark: it is; insert: before the row is inserted; returned;  *)
(* threw: with an exception; lost: the server went down during the call.   *)
CallerPC == {"new", "take", "mark", "insert", "returned", "threw", "lost"}

(* off: the server is down; dead: an exception has ended ManagerThread.    *)
ManagerPC == {"off", "dead", "idle", "check", "scan", "clone", "next",
              "peek", "map", "fill"}

StorageTypeOK ==
  /\ up \subseteq Servers
  /\ row \in [Jobs -> Status \cup {"none", "deleted"}]
  /\ status \in [Jobs -> Status]
  /\ hasId \in [Jobs -> BOOLEAN]
  /\ retryCount \in [Jobs -> Nat]
  /\ schedules \subseteq Schedules
  /\ due \subseteq Singles \cup Schedules
  /\ occurrences \in 0 .. MaxOccurrences
  /\ cpc \in [Singles -> CallerPC]
  /\ direct \subseteq Singles
  /\ buffer \in [Pools -> Seq(Jobs)]
  /\ mpc \in [Pools -> ManagerPC]
  /\ room \in [Pools -> Nat]
  /\ scan \in [Pools -> SUBSET Schedules]
  /\ found \in [Pools -> Schedules \cup {NoSchedule}]
  /\ held \in [Pools -> SUBSET Jobs]
  /\ faults \in 0 .. MaxFaults
  /\ contended \in BOOLEAN

StorageInit ==
  /\ up = Servers
  /\ row = [j \in Jobs |-> "none"]
  /\ status = [j \in Jobs |-> "WaitingProcess"]
  /\ hasId = [j \in Jobs |-> FALSE]
  /\ retryCount = [j \in Jobs |-> 0]
  /\ schedules = {}
  /\ due = Singles \ Delayed
  /\ occurrences = 0
  /\ cpc = [j \in Singles |-> "new"]
  /\ direct = {}
  /\ buffer = [p \in Pools |-> <<>>]
  /\ mpc = [p \in Pools |-> "idle"]
  /\ room = [p \in Pools |-> 0]
  /\ scan = [p \in Pools |-> {}]
  /\ found = [p \in Pools |-> NoSchedule]
  /\ held = [p \in Pools |-> {}]
  /\ faults = 0
  /\ contended = FALSE

CallerTo(j, label) == cpc' = [cpc EXCEPT ![j] = label]
ManagerTo(p, label) == mpc' = [mpc EXCEPT ![p] = label]
Mark(j, s) == status' = [status EXCEPT ![j] = s]
Buffered(p, j) == buffer' = [buffer EXCEPT ![p] = Append(@, j)]
BufferHasRoom_Unasked(p) == TRUE    \* mutant
BufferHasRoom_ForTwo(p) == Len(buffer[p]) + 1 < BufferLength    \* mutant
BufferHasRoom(p) == Len(buffer[p]) < BufferLength

(* A command throws.                                                       *)
Fault == faults < MaxFaults /\ faults' = faults + 1

-----------------------------------------------------------------------------
(* Time passes, and programs call Schedule.                                *)

Occur(d) ==
  /\ d \in (Delayed \cup schedules) \ due
  /\ d \in Delayed => cpc[d] # "new"
  /\ d \in Schedules => occurrences < MaxOccurrences
  /\ due' = due \cup {d}
  /\ occurrences' = occurrences + (IF d \in Schedules THEN 1 ELSE 0)
  /\ UNCHANGED <<up, row, definitionVars, schedules, contended, cpc, direct,
                 buffer, managerVars, faults>>

(* Set of a recurrent definition: nothing goes into the table.  Its time   *)
(* is one to come.                                                         *)
SetSchedule(x) ==
  /\ x \notin schedules
  /\ HomeOf[x] \in up
  /\ schedules' = schedules \cup {x}
  /\ UNCHANGED <<up, row, definitionVars, due, occurrences, contended, cpc,
                 direct, buffer, managerVars, faults>>

-----------------------------------------------------------------------------
(* Set of a single run.                                                    *)

PoolFor(j) == {p \in Pools : ServerOf[p] = HomeOf[j] /\ NameOf[p] = PoolName[j]}

TakenStatus_Unchanged(j) == status[j]    \* mutant: nobody marks it
TakenStatus(j) == "Enqueued"

(* DoItemAddedToStorage: the test of CanEnqueueDirect, which then marks    *)
(* the item.                                                               *)
SetCheck(j) ==
  /\ cpc[j] = "new"
  /\ HomeOf[j] \in up
  /\ IF \E p \in PoolFor(j) : BufferHasRoom(p)
       THEN /\ Mark(j, TakenStatus(j))
            /\ \/ CallerTo(j, "take")
               \/ j \in Unloadable /\ CallerTo(j, "threw")
       ELSE /\ CallerTo(j, "insert")
            /\ UNCHANGED status
  /\ UNCHANGED <<callerRest, row, hasId, direct, buffer, faults>>

(* From here on a worker may run the job.                                  *)
SetTake(j) ==
  /\ cpc[j] = "take"
  /\ \E p \in PoolFor(j) : Buffered(p, j)
  /\ direct' = direct \cup {j}
  /\ CallerTo(j, "mark")
  /\ UNCHANGED <<callerRest, row, status, hasId, faults>>

(* Set marks the item as well, over whatever a worker may have written.    *)
SetMark(j) ==
  /\ cpc[j] = "mark"
  /\ Mark(j, TakenStatus(j))
  /\ CallerTo(j, "insert")
  /\ UNCHANGED <<callerRest, row, hasId, direct, buffer, faults>>

Insert(j) ==
  /\ row' = [row EXCEPT ![j] = status[j]]
  /\ hasId' = [hasId EXCEPT ![j] = TRUE]

SetInsert(j) ==
  /\ cpc[j] = "insert"
  /\ Insert(j)
  /\ CallerTo(j, "returned")
  /\ UNCHANGED <<callerRest, status, direct, buffer, faults>>

SetThrows(j) ==
  /\ cpc[j] = "insert"
  /\ Fault
  /\ CallerTo(j, "threw")
  /\ UNCHANGED <<callerRest, row, status, hasId, direct, buffer>>

SetStep(j) == SetTake(j) \/ SetMark(j) \/ SetInsert(j)

-----------------------------------------------------------------------------
(* The manager thread: CheckPreProcessBuffer and PeekOrWait.               *)

PeekCall(p) ==
  /\ mpc[p] = "idle"
  /\ BufferHasRoom(p)
  /\ room' = [room EXCEPT ![p] = BufferLength - Len(buffer[p])]
  /\ ManagerTo(p, "check")
  /\ UNCHANGED <<managerRest, row, definitionVars, due, contended, buffer,
                 scan, found, held, faults>>

(* CheckSchedules, without a lock, over a copy of the server's schedules.  *)
CheckSchedules(p) ==
  /\ mpc[p] = "check"
  /\ scan' = [scan EXCEPT ![p] = {x \in schedules : HomeOf[x] = ServerOf[p]}]
  /\ ManagerTo(p, "scan")
  /\ UNCHANGED <<managerRest, row, definitionVars, due, contended, buffer,
                 room, found, held, faults>>

(* Status of a schedule never changes here, only its time counts.          *)
CheckSchedule(p) ==
  /\ mpc[p] = "scan"
  /\ \E x \in scan[p] :
       /\ scan' = [scan EXCEPT ![p] = @ \ {x}]
       /\ IF x \in due
            THEN /\ found' = [found EXCEPT ![p] = x]
                 /\ ManagerTo(p, "clone")
                 /\ contended' = (contended \/ \E q \in Pools : found[q] = x)
            ELSE UNCHANGED <<found, mpc, contended>>
  /\ UNCHANGED <<managerRest, row, definitionVars, due, buffer, room, held,
                 faults>>

Unused == {k \in Clones : row[k] = "none"}

CloneStatus_Kept == "WaitingProcess"    \* mutant: that of the schedule
CloneStatus == "Enqueued"

(* Clone and Set: a new row that is enqueued from the start, so that only  *)
(* this manager has it.                                                    *)
CloneSchedule(p) ==
  LET k == CHOOSE k \in Unused : TRUE IN
  /\ mpc[p] = "clone"
  /\ Unused # {}
  /\ row' = [row EXCEPT ![k] = CloneStatus]
  /\ Mark(k, CloneStatus)
  /\ hasId' = [hasId EXCEPT ![k] = TRUE]
  /\ held' = [held EXCEPT ![p] = @ \cup {k}]
  /\ ManagerTo(p, "next")
  /\ UNCHANGED <<managerRest, retryCount, due, contended, buffer, room, scan,
                 found, faults>>

NextRun_Forgotten(x) == due    \* mutant
NextRun(x) == due \ {x}

CalculateNextRun(p) ==
  /\ mpc[p] = "next"
  /\ due' = NextRun(found[p])
  /\ found' = [found EXCEPT ![p] = NoSchedule]
  /\ ManagerTo(p, "scan")
  /\ UNCHANGED <<managerRest, row, definitionVars, contended, buffer, room,
                 scan, held, faults>>

SchedulesChecked(p) ==
  /\ mpc[p] = "scan"
  /\ scan[p] = {}
  /\ ManagerTo(p, "peek")
  /\ UNCHANGED <<managerRest, row, definitionVars, due, contended, buffer,
                 room, scan, found, held, faults>>

(* The parameter @tcount is not used in PostgreSql's command.              *)
Limit(p) == IF PostgreSql THEN 10 ELSE room[p]

HasCome(j) == j \in due \cup Clones
ForPool(p) == {j \in Jobs : PoolName[j] = NameOf[p] /\ HasCome(j)}

Peekable_Resumed(p) ==    \* mutant: what was begun is taken up again
  {j \in ForPool(p) : row[j] \in {"WaitingProcess", "Enqueued"}}
Peekable(p) == {j \in ForPool(p) : row[j] = "WaitingProcess"}

(* As many of them as fit, any of them if there are more.                  *)
Chosen(p) ==
  {S \in SUBSET Peekable(p) :
     \/ Cardinality(S) = Limit(p)
     \/ S = Peekable(p) /\ Cardinality(S) < Limit(p)}

PeekedRow_Unchanged == "WaitingProcess"    \* mutant: no update
PeekedRow == "Enqueuing"

(* CreatePeek: the rows found become Enqueuing and new definitions.        *)
Peek(p) ==
  /\ mpc[p] = "peek"
  /\ \E S \in Chosen(p) :
       /\ row' = [j \in Jobs |-> IF j \in S THEN PeekedRow ELSE row[j]]
       /\ status' = [j \in Jobs |-> IF j \in S THEN "Enqueuing" ELSE status[j]]
       /\ retryCount' = [j \in Jobs |-> IF j \in S THEN 0 ELSE retryCount[j]]
       /\ held' = [held EXCEPT ![p] = @ \cup S]
  /\ ManagerTo(p, "map")
  /\ UNCHANGED <<managerRest, hasId, due, contended, buffer, room, scan,
                 found, faults>>

(* MapToWorkItemDefinitions: a row that cannot be mapped is marked Fail.   *)
MapFails(p, j) ==
  /\ mpc[p] = "map"
  /\ j \in held[p] \cap Unreadable
  /\ row' = [row EXCEPT ![j] = "Fail"]
  /\ held' = [held EXCEPT ![p] = @ \ {j}]
  /\ UNCHANGED <<managerRest, definitionVars, due, contended, buffer, mpc,
                 room, scan, found, faults>>

(* MarkFail throws as well: the row stays as it is.                        *)
MapThrows(p, j) ==
  /\ mpc[p] = "map"
  /\ j \in held[p] \cap Unreadable
  /\ Fault
  /\ held' = [held EXCEPT ![p] = @ \ {j}]
  /\ UNCHANGED <<managerRest, row, definitionVars, due, contended, buffer, mpc,
                 room, scan, found>>

(* PeekOrWait returns when it has found something, and tries again for     *)
(* ever otherwise.                                                         *)
PeekReturns(p) ==
  /\ mpc[p] = "map"
  /\ ManagerTo(p, IF held[p] = {} THEN "check" ELSE "fill")
  /\ UNCHANGED <<managerRest, row, definitionVars, due, contended, buffer,
                 room, scan, found, held, faults>>

FillLoop(p, rest) ==
  /\ held' = [held EXCEPT ![p] = rest]
  /\ ManagerTo(p, IF rest = {} THEN "idle" ELSE "fill")

FillBuffer(p, j) ==
  /\ mpc[p] = "fill"
  /\ j \in held[p]
  /\ Buffered(p, j)
  /\ FillLoop(p, held[p] \ {j})
  /\ UNCHANGED <<managerRest, row, definitionVars, due, contended, room, scan,
                 found, faults>>

(* Create throws: DoFail.                                                  *)
FillFails(p, j) ==
  /\ mpc[p] = "fill"
  /\ j \in held[p] \cap Unloadable
  /\ Mark(j, "Fail")
  /\ row' = [row EXCEPT ![j] = "Fail"]
  /\ FillLoop(p, held[p] \ {j})
  /\ UNCHANGED <<managerRest, hasId, retryCount, due, contended, buffer, room,
                 scan, found, faults>>

(* An insert, a peek or the update of DoFail throws: ManagerThread ends,   *)
(* and drops what it has in its hands.  The rows stay as they are.         *)
ManagerThrows(p) ==
  /\ \/ mpc[p] \in {"clone", "peek"}
     \/ mpc[p] = "fill" /\ held[p] \cap Unloadable # {}
  /\ Fault
  /\ ManagerTo(p, "dead")
  /\ scan' = [scan EXCEPT ![p] = {}]
  /\ found' = [found EXCEPT ![p] = NoSchedule]
  /\ held' = [held EXCEPT ![p] = {}]
  /\ UNCHANGED <<managerRest, row, definitionVars, due, contended, buffer,
                 room>>

ManagerStep(p) ==
  \/ PeekCall(p) \/ CheckSchedules(p) \/ CheckSchedule(p)
  \/ CloneSchedule(p) \/ CalculateNextRun(p) \/ SchedulesChecked(p)
  \/ Peek(p) \/ PeekReturns(p)
  \/ \E j \in Jobs : MapFails(p, j) \/ FillBuffer(p, j) \/ FillFails(p, j)
=============================================================================
