--------------------------- MODULE SqlJobsProofs ---------------------------
(***************************************************************************)
(* Proofs about SqlJobs: for any jobs, servers, pools and workers, any     *)
(* number of crashes, of commands that throw and of tries.                 *)
(***************************************************************************)
EXTENDS SqlJobs, FiniteSetTheorems, TLAPS

(* A worker that is not between two jobs has one.                          *)
BusyOK == \A w \in Workers : wpc[w] \notin {"off", "idle"} => wJob[w] \in Jobs

TypeInv == TypeOK /\ BusyOK

-----------------------------------------------------------------------------
(* Types                                                                   *)

LEMMA InitTyped == Init => TypeInv
<1> SUFFICES ASSUME Init PROVE TypeInv
  OBVIOUS
<1> USE DEF Init, StorageInit
<1>1. /\ up \subseteq Servers
      /\ row \in [Jobs -> Status \cup {"none", "deleted"}]
      /\ status \in [Jobs -> Status]
      /\ hasId \in [Jobs -> BOOLEAN]
      /\ retryCount \in [Jobs -> Nat]
  BY DEF Status
<1>2. /\ schedules \subseteq Schedules
      /\ due \subseteq Singles \cup Schedules
      /\ contended \in BOOLEAN
  OBVIOUS
<1>3. /\ cpc \in [Singles -> CallerPC]
      /\ direct \subseteq Singles
      /\ buffer \in [Pools -> Seq(Jobs)]
  BY DEF CallerPC
<1>4. /\ mpc \in [Pools -> ManagerPC]
      /\ room \in [Pools -> Nat]
      /\ scan \in [Pools -> SUBSET Schedules]
      /\ found \in [Pools -> Schedules \cup {NoSchedule}]
      /\ held \in [Pools -> SUBSET Jobs]
  BY DEF ManagerPC
<1>5. /\ wpc \in [Workers -> WorkerPC]
      /\ wJob \in [Workers -> Jobs \cup {NoJob}]
      /\ crashes \in Nat
      /\ completed \subseteq Jobs
      /\ ended \subseteq Jobs
      /\ unreported \subseteq Jobs
      /\ orphaned \subseteq Jobs
  BY DEF WorkerPC
<1>6. BusyOK
  BY DEF BusyOK
<1>7. occurrences \in 0 .. MaxOccurrences /\ faults \in 0 .. MaxFaults
  BY SqlAssumption DEF Init, StorageInit
<1>8. QED
  BY <1>1, <1>2, <1>3, <1>4, <1>5, <1>6, <1>7 DEF TypeInv, TypeOK, StorageTypeOK

(* The calls of Enqueue and Schedule, and time.                            *)
LEMMA CallerTyped ==
  ASSUME TypeInv,
         \/ \E d \in Delayed \cup Schedules : TimePasses(d)
         \/ \E x \in Schedules : SetSchedule(x) /\ UNCHANGED jobVars
         \/ \E j \in Singles : \/ SetCheck(j) /\ UNCHANGED jobVars
                               \/ CallerRuns(j)
                               \/ CallerThrows(j)
  PROVE  TypeInv'
<1> USE DEF TypeInv, TypeOK, StorageTypeOK, BusyOK, jobVars, workerVars, historyVars,
            callerRest, managerVars, scheduleVars, definitionVars
<1>1. CASE \E d \in Delayed \cup Schedules : TimePasses(d)
  <2>1. PICK d \in Delayed \cup Schedules : TimePasses(d)
    BY <1>1
  <2>2. due' \subseteq Singles \cup Schedules
    BY <2>1, SqlAssumption DEF TimePasses, Occur
  <2>3. occurrences' \in 0 .. MaxOccurrences
    BY <2>1, SqlAssumption DEF TimePasses, Occur
  <2>4. QED
    BY <2>1, <2>2, <2>3 DEF TimePasses, Occur
<1>2. CASE \E x \in Schedules : SetSchedule(x) /\ UNCHANGED jobVars
  BY <1>2 DEF SetSchedule
<1>3. ASSUME NEW j \in Singles, SetCheck(j), UNCHANGED jobVars PROVE TypeInv'
  <2>1. status' \in [Jobs -> Status]
    BY <1>3 DEF SetCheck, Mark, TakenStatus, Status
  <2>2. cpc' \in [Singles -> CallerPC]
    BY <1>3 DEF SetCheck, CallerTo, CallerPC
  <2>3. QED
    BY <1>3, <2>1, <2>2 DEF SetCheck
<1>4. ASSUME NEW j \in Singles, SetTake(j), UNCHANGED jobVars PROVE TypeInv'
  <2>1. buffer' \in [Pools -> Seq(Jobs)]
    BY <1>4 DEF SetTake, Buffered, PoolFor, Jobs
  <2>2. cpc' \in [Singles -> CallerPC] /\ direct' \subseteq Singles
    BY <1>4 DEF SetTake, CallerTo, CallerPC
  <2>3. QED
    BY <1>4, <2>1, <2>2 DEF SetTake
<1>5. ASSUME NEW j \in Singles, SetMark(j), UNCHANGED jobVars PROVE TypeInv'
  <2>1. status' \in [Jobs -> Status]
    BY <1>5 DEF SetMark, Mark, TakenStatus, Status
  <2>2. cpc' \in [Singles -> CallerPC]
    BY <1>5 DEF SetMark, CallerTo, CallerPC
  <2>3. QED
    BY <1>5, <2>1, <2>2 DEF SetMark
<1>6. ASSUME NEW j \in Singles, SetInsert(j), UNCHANGED jobVars PROVE TypeInv'
  <2>1. j \in Jobs
    BY DEF Jobs
  <2>2. row' \in [Jobs -> Status \cup {"none", "deleted"}] /\ hasId' \in [Jobs -> BOOLEAN]
    BY <1>6, <2>1 DEF SetInsert, Insert
  <2>3. cpc' \in [Singles -> CallerPC]
    BY <1>6 DEF SetInsert, CallerTo, CallerPC
  <2>4. QED
    BY <1>6, <2>2, <2>3 DEF SetInsert
<1>7. ASSUME NEW j \in Singles, CallerThrows(j) PROVE TypeInv'
  <2>1. cpc' \in [Singles -> CallerPC]
    BY <1>7 DEF CallerThrows, SetThrows, CallerTo, CallerPC
  <2>2. faults' \in 0 .. MaxFaults
    BY <1>7, SqlAssumption DEF CallerThrows, SetThrows, Fault
  <2>3. unreported' \subseteq Jobs
    BY <1>7 DEF CallerThrows, Jobs
  <2>4. QED
    BY <1>7, <2>1, <2>2, <2>3 DEF CallerThrows, SetThrows
<1>8. QED
  BY <1>1, <1>2, <1>3, <1>4, <1>5, <1>6, <1>7 DEF CallerRuns, SetStep

LEMMA ManagerTyped ==
  ASSUME TypeInv, NEW p \in Pools,
         ManagerRuns(p) \/ ManagerDies(p) \/ \E j \in Jobs : ManagerDrops(p, j)
  PROVE  TypeInv'
<1> USE DEF TypeInv, TypeOK, StorageTypeOK, BusyOK, jobVars, workerVars, historyVars,
            managerRest, definitionVars
<1>0. \A label \in ManagerPC : [mpc EXCEPT ![p] = label] \in [Pools -> ManagerPC]
  OBVIOUS
<1>1. ASSUME PeekCall(p), UNCHANGED jobVars PROVE TypeInv'
  <2>1. room' \in [Pools -> Nat]
    BY <1>1, SqlAssumption DEF PeekCall, BufferHasRoom
  <2>2. mpc' \in [Pools -> ManagerPC]
    BY <1>0, <1>1 DEF PeekCall, ManagerTo, ManagerPC
  <2>3. QED
    BY <1>1, <2>1, <2>2 DEF PeekCall
<1>2. ASSUME CheckSchedules(p), UNCHANGED jobVars PROVE TypeInv'
  <2>1. scan' \in [Pools -> SUBSET Schedules]
    BY <1>2 DEF CheckSchedules
  <2>2. mpc' \in [Pools -> ManagerPC]
    BY <1>0, <1>2 DEF CheckSchedules, ManagerTo, ManagerPC
  <2>3. QED
    BY <1>2, <2>1, <2>2 DEF CheckSchedules
<1>3. ASSUME CheckSchedule(p), UNCHANGED jobVars PROVE TypeInv'
  <2>1. PICK x \in scan[p] :
          /\ scan' = [scan EXCEPT ![p] = @ \ {x}]
          /\ \/ /\ found' = [found EXCEPT ![p] = x]
                /\ ManagerTo(p, "clone")
                /\ contended' \in BOOLEAN
             \/ UNCHANGED <<found, mpc, contended>>
    BY <1>3 DEF CheckSchedule
  <2>2. x \in Schedules
    BY <2>1
  <2>3. scan' \in [Pools -> SUBSET Schedules]
    BY <2>1
  <2>4. found' \in [Pools -> Schedules \cup {NoSchedule}] /\ contended' \in BOOLEAN
    BY <2>1, <2>2
  <2>5. mpc' \in [Pools -> ManagerPC]
    BY <1>0, <2>1 DEF ManagerTo, ManagerPC
  <2>6. QED
    BY <1>3, <2>3, <2>4, <2>5 DEF CheckSchedule
<1>4. ASSUME CloneSchedule(p), UNCHANGED jobVars PROVE TypeInv'
  <2>1. PICK k \in Clones :
          /\ row' = [row EXCEPT ![k] = "Enqueued"]
          /\ status' = [status EXCEPT ![k] = "Enqueued"]
          /\ hasId' = [hasId EXCEPT ![k] = TRUE]
          /\ held' = [held EXCEPT ![p] = @ \cup {k}]
    BY <1>4 DEF CloneSchedule, Unused, Mark, CloneStatus
  <2>2. k \in Jobs
    BY DEF Jobs
  <2>3. /\ row' \in [Jobs -> Status \cup {"none", "deleted"}]
        /\ status' \in [Jobs -> Status]
        /\ hasId' \in [Jobs -> BOOLEAN]
    BY <2>1 DEF Status
  <2>4. held' \in [Pools -> SUBSET Jobs]
    BY <2>1, <2>2
  <2>5. mpc' \in [Pools -> ManagerPC]
    BY <1>0, <1>4 DEF CloneSchedule, ManagerTo, ManagerPC
  <2>6. QED
    BY <1>4, <2>3, <2>4, <2>5 DEF CloneSchedule
<1>5. ASSUME CalculateNextRun(p), UNCHANGED jobVars PROVE TypeInv'
  <2>1. due' \subseteq Singles \cup Schedules
    BY <1>5 DEF CalculateNextRun, NextRun
  <2>2. found' \in [Pools -> Schedules \cup {NoSchedule}]
    BY <1>5 DEF CalculateNextRun
  <2>3. mpc' \in [Pools -> ManagerPC]
    BY <1>0, <1>5 DEF CalculateNextRun, ManagerTo, ManagerPC
  <2>4. QED
    BY <1>5, <2>1, <2>2, <2>3 DEF CalculateNextRun
<1>6. ASSUME SchedulesChecked(p), UNCHANGED jobVars PROVE TypeInv'
  <2>1. mpc' \in [Pools -> ManagerPC]
    BY <1>0, <1>6 DEF SchedulesChecked, ManagerTo, ManagerPC
  <2>2. QED
    BY <1>6, <2>1 DEF SchedulesChecked
<1>7. ASSUME Peek(p), UNCHANGED jobVars PROVE TypeInv'
  <2>1. PICK S \in SUBSET Jobs :
          /\ row' = [j \in Jobs |-> IF j \in S THEN "Enqueuing" ELSE row[j]]
          /\ status' = [j \in Jobs |-> IF j \in S THEN "Enqueuing" ELSE status[j]]
          /\ retryCount' = [j \in Jobs |-> IF j \in S THEN 0 ELSE retryCount[j]]
          /\ held' = [held EXCEPT ![p] = @ \cup S]
    BY <1>7 DEF Peek, Chosen, Peekable, ForPool, PeekedRow
  <2>2. /\ row' \in [Jobs -> Status \cup {"none", "deleted"}]
        /\ status' \in [Jobs -> Status]
    BY <2>1 DEF Status
  <2>3. retryCount' \in [Jobs -> Nat]
    BY <2>1
  <2>4. held' \in [Pools -> SUBSET Jobs]
    BY <2>1
  <2>5. mpc' \in [Pools -> ManagerPC]
    BY <1>0, <1>7 DEF Peek, ManagerTo, ManagerPC
  <2>6. QED
    BY <1>7, <2>2, <2>3, <2>4, <2>5 DEF Peek
<1>8. ASSUME PeekReturns(p), UNCHANGED jobVars PROVE TypeInv'
  <2>1. mpc' \in [Pools -> ManagerPC]
    BY <1>0, <1>8 DEF PeekReturns, ManagerTo, ManagerPC
  <2>2. QED
    BY <1>8, <2>1 DEF PeekReturns
<1>9. ASSUME NEW j \in Jobs, MapFails(p, j), UNCHANGED jobVars PROVE TypeInv'
  <2>1. row' \in [Jobs -> Status \cup {"none", "deleted"}]
    BY <1>9 DEF MapFails, Status
  <2>2. held' \in [Pools -> SUBSET Jobs]
    BY <1>9 DEF MapFails
  <2>3. QED
    BY <1>9, <2>1, <2>2 DEF MapFails
<1>10. ASSUME NEW j \in Jobs, FillBuffer(p, j), UNCHANGED jobVars PROVE TypeInv'
  <2>1. buffer' \in [Pools -> Seq(Jobs)]
    BY <1>10 DEF FillBuffer, Buffered
  <2>2. held' \in [Pools -> SUBSET Jobs]
    BY <1>10 DEF FillBuffer, FillLoop
  <2>3. mpc' \in [Pools -> ManagerPC]
    BY <1>0, <1>10 DEF FillBuffer, FillLoop, ManagerTo, ManagerPC
  <2>4. QED
    BY <1>10, <2>1, <2>2, <2>3 DEF FillBuffer
<1>11. ASSUME NEW j \in Jobs, FillFails(p, j), UNCHANGED jobVars PROVE TypeInv'
  <2>1. /\ row' \in [Jobs -> Status \cup {"none", "deleted"}]
        /\ status' \in [Jobs -> Status]
    BY <1>11 DEF FillFails, Mark, Status
  <2>2. held' \in [Pools -> SUBSET Jobs]
    BY <1>11 DEF FillFails, FillLoop
  <2>3. mpc' \in [Pools -> ManagerPC]
    BY <1>0, <1>11 DEF FillFails, FillLoop, ManagerTo, ManagerPC
  <2>4. QED
    BY <1>11, <2>1, <2>2, <2>3 DEF FillFails
<1>12. CASE ManagerDies(p)
  <2>1. faults' \in 0 .. MaxFaults
    BY <1>12, SqlAssumption DEF ManagerDies, ManagerThrows, Fault
  <2>2. mpc' \in [Pools -> ManagerPC]
    BY <1>0, <1>12 DEF ManagerDies, ManagerThrows, ManagerTo, ManagerPC
  <2>3. /\ scan' \in [Pools -> SUBSET Schedules]
        /\ found' \in [Pools -> Schedules \cup {NoSchedule}]
        /\ held' \in [Pools -> SUBSET Jobs]
    BY <1>12 DEF ManagerDies, ManagerThrows
  <2>4. orphaned' \subseteq Jobs
    BY <1>12 DEF ManagerDies
  <2>5. QED
    BY <1>12, <2>1, <2>2, <2>3, <2>4 DEF ManagerDies, ManagerThrows
<1>13. ASSUME NEW j \in Jobs, ManagerDrops(p, j) PROVE TypeInv'
  <2>1. faults' \in 0 .. MaxFaults
    BY <1>13, SqlAssumption DEF ManagerDrops, MapThrows, Fault
  <2>2. held' \in [Pools -> SUBSET Jobs] /\ orphaned' \subseteq Jobs
    BY <1>13 DEF ManagerDrops, MapThrows
  <2>3. QED
    BY <1>13, <2>1, <2>2 DEF ManagerDrops, MapThrows
<1>14. QED
  BY <1>1, <1>2, <1>3, <1>4, <1>5, <1>6, <1>7, <1>8, <1>9, <1>10, <1>11, <1>12, <1>13
     DEF ManagerRuns, ManagerStep

(* Whatever server goes down, of what it had nothing is left.              *)
LEMMA GoDownTyped ==
  ASSUME TypeInv, NEW s \in Servers, GoDown(s),
         faults' \in 0 .. MaxFaults, unreported' \subseteq Jobs
  PROVE  TypeInv'
<1> USE DEF TypeInv, TypeOK, StorageTypeOK, BusyOK, definitionVars
<1>1. /\ up' \subseteq Servers
      /\ crashes' \in Nat
      /\ orphaned' \subseteq Jobs
      /\ schedules' \subseteq Schedules
      /\ due' \subseteq Singles \cup Schedules
  BY DEF GoDown
<1>2. cpc' \in [Singles -> CallerPC]
  BY DEF GoDown, CallerPC
<1>3. buffer' \in [Pools -> Seq(Jobs)]
  <2>1. <<>> \in Seq(Jobs)
    OBVIOUS
  <2>2. QED
    BY <2>1 DEF GoDown
<1>4. /\ mpc' \in [Pools -> ManagerPC]
      /\ room' \in [Pools -> Nat]
  BY DEF GoDown, ManagerPC
<1>5. /\ scan' \in [Pools -> SUBSET Schedules]
      /\ found' \in [Pools -> Schedules \cup {NoSchedule}]
      /\ held' \in [Pools -> SUBSET Jobs]
  BY DEF GoDown
<1>6. /\ wpc' \in [Workers -> WorkerPC]
      /\ wJob' \in [Workers -> Jobs \cup {NoJob}]
  BY DEF GoDown, WorkerPC
<1>7. BusyOK'
  BY DEF GoDown
<1>8. QED
  BY <1>1, <1>2, <1>3, <1>4, <1>5, <1>6, <1>7 DEF GoDown

LEMMA WriteTyped ==
  ASSUME TypeInv, NEW w \in Workers, NEW s \in Status, NEW label \in WorkerPC \ {"off", "idle"},
         Write(w, s, label)
  PROVE  /\ status' \in [Jobs -> Status]
         /\ wpc' \in [Workers -> WorkerPC]
         /\ wpc'[w] = label /\ \A v \in Workers \ {w} : wpc'[v] = wpc[v]
  BY DEF Write, Mark, Goto, TypeInv, TypeOK, StorageTypeOK

LEMMA UpdatedTyped ==
  ASSUME TypeInv, NEW j \in Jobs
  PROVE  Updated(j) \in [Jobs -> Status \cup {"none", "deleted"}]
  BY DEF Updated, TypeInv, TypeOK, StorageTypeOK

LEMMA WorkerTyped ==
  ASSUME TypeInv, NEW w \in Workers, WorkerStep(w) \/ UpdateThrows(w) \/ UpdateKills(w)
  PROVE  TypeInv'
<1> USE DEF TypeInv, TypeOK, StorageTypeOK, BusyOK, historyVars, workerRest, managerVars,
            scheduleVars
<1>0. /\ wpc[w] \notin {"off", "idle"} => wJob[w] \in Jobs
      /\ PoolOf[w] \in Pools
      /\ {"Processing", "Completed", "Fail", "Enqueued", "Enqueuing"} \subseteq Status
  BY JobsAssumption DEF Status
<1>1. CASE TakeWorkItem(w)
  <2> DEFINE p == PoolOf[w]
  <2>1. buffer[p] \in Seq(Jobs) /\ buffer[p] # <<>>
    BY <1>0, <1>1 DEF TakeWorkItem
  <2>2. Head(buffer[p]) \in Jobs /\ Tail(buffer[p]) \in Seq(Jobs)
    BY <2>1
  <2>3. buffer' \in [Pools -> Seq(Jobs)]
    BY <1>0, <1>1, <2>2 DEF TakeWorkItem
  <2>4. wJob' \in [Workers -> Jobs \cup {NoJob}] /\ wJob'[w] \in Jobs
        /\ \A v \in Workers \ {w} : wJob'[v] = wJob[v]
    BY <1>1, <2>2 DEF TakeWorkItem
  <2>5. wpc' \in [Workers -> WorkerPC] /\ \A v \in Workers \ {w} : wpc'[v] = wpc[v]
    BY <1>1 DEF TakeWorkItem, Goto, WorkerPC
  <2>6. QED
    BY <1>1, <2>3, <2>4, <2>5 DEF TakeWorkItem
<1>2. CASE ExecuteStart(w)
  <2>1. retryCount' \in [Jobs -> Nat]
    <3>1. retryCount[wJob[w]] + 1 \in Nat
      BY <1>0, <1>2 DEF ExecuteStart
    <3>2. QED
      BY <1>2, <3>1 DEF ExecuteStart
  <2>2. Write(w, "Processing", "started") /\ "started" \in WorkerPC \ {"off", "idle"}
    BY <1>2 DEF ExecuteStart, WorkerPC, Reporting
  <2>3. QED
    BY <1>0, <1>2, <2>1, <2>2, WriteTyped DEF ExecuteStart
<1>3. CASE ExecuteComplete(w)
  <2>1. completed' \subseteq Jobs
    BY <1>0, <1>3 DEF ExecuteComplete
  <2>2. Write(w, "Completed", "completed") /\ "completed" \in WorkerPC \ {"off", "idle"}
    BY <1>3 DEF ExecuteComplete, WorkerPC, Reporting
  <2>3. QED
    BY <1>0, <1>3, <2>1, <2>2, WriteTyped DEF ExecuteComplete
<1>4. CASE ExecuteFail(w)
  <2>1. Write(w, "Fail", "caught") /\ "caught" \in WorkerPC \ {"off", "idle"}
    BY <1>4 DEF ExecuteFail, WorkerPC, Reporting
  <2>2. QED
    BY <1>0, <1>4, <2>1, WriteTyped DEF ExecuteFail
<1>5. CASE FailAgain(w)
  <2>1. Write(w, "Fail", "failed") /\ "failed" \in WorkerPC \ {"off", "idle"}
    BY <1>5 DEF FailAgain, WorkerPC, Reporting
  <2>2. QED
    BY <1>0, <1>5, <2>1, WriteTyped DEF FailAgain
<1>5a. CASE DoFail(w)
  <2>1. Write(w, "Fail", "filtered") /\ "filtered" \in WorkerPC \ {"off", "idle"}
    BY <1>5a DEF DoFail, WorkerPC, Reporting
  <2>2. QED
    BY <1>0, <1>5a, <2>1, WriteTyped DEF DoFail
<1>6. CASE EndDelay(w)
  <2>1. Write(w, "Enqueued", "resumed") /\ "resumed" \in WorkerPC \ {"off", "idle"}
    BY <1>6 DEF EndDelay, WorkerPC, Reporting
  <2>2. QED
    BY <1>0, <1>6, <2>1, WriteTyped DEF EndDelay
<1>7. CASE Requeue(w)
  <2>1. buffer' \in [Pools -> Seq(Jobs)]
    BY <1>0, <1>7 DEF Requeue, Buffered
  <2>2. wpc' \in [Workers -> WorkerPC] /\ wpc'[w] = "idle"
        /\ \A v \in Workers \ {w} : wpc'[v] = wpc[v]
    BY <1>7 DEF Requeue, Goto, WorkerPC
  <2>3. wJob' \in [Workers -> Jobs \cup {NoJob}] /\ \A v \in Workers \ {w} : wJob'[v] = wJob[v]
    BY <1>7 DEF Requeue, Free
  <2>4. QED
    BY <1>7, <2>1, <2>2, <2>3 DEF Requeue
<1>8. CASE UpdateStatus(w)
  <2>1. wpc[w] \in {"started", "caught", "failed", "waiting", "resumed"}
    BY <1>8 DEF UpdateStatus, Reported
  <2>2. Reported[wpc[w]] \in WorkerPC \ {"off", "idle"}
    BY <2>1 DEF Reported, WorkerPC
  <2>3. wpc' \in [Workers -> WorkerPC] /\ \A v \in Workers \ {w} : wpc'[v] = wpc[v]
    BY <1>8, <2>2 DEF UpdateStatus, Goto
  <2>4. row' \in [Jobs -> Status \cup {"none", "deleted"}]
    BY <1>0, <1>8, <2>1, UpdatedTyped DEF UpdateStatus
  <2>5. wJob[w] \in Jobs
    BY <1>0, <2>1
  <2>6. QED
    BY <1>8, <2>3, <2>4, <2>5 DEF UpdateStatus
<1>9. CASE UpdateAndRetry(w)
  <2>1. Write(w, "Enqueuing", "waiting") /\ "waiting" \in WorkerPC \ {"off", "idle"}
    BY <1>9 DEF UpdateAndRetry, WorkerPC, Reporting
  <2>2. row' \in [Jobs -> Status \cup {"none", "deleted"}]
    BY <1>0, <1>9, UpdatedTyped DEF UpdateAndRetry
  <2>3. QED
    BY <1>0, <1>9, <2>1, <2>2, WriteTyped DEF UpdateAndRetry
<1>10. CASE LastUpdate(w)
  <2>1. wJob[w] \in Jobs
    BY <1>0, <1>10 DEF LastUpdate
  <2>2. row' \in [Jobs -> Status \cup {"none", "deleted"}] /\ ended' \subseteq Jobs
    BY <1>10, <2>1, UpdatedTyped DEF LastUpdate
  <2>3. wpc' \in [Workers -> WorkerPC] /\ wpc'[w] = "idle"
        /\ \A v \in Workers \ {w} : wpc'[v] = wpc[v]
    BY <1>10 DEF LastUpdate, Goto, WorkerPC
  <2>4. wJob' \in [Workers -> Jobs \cup {NoJob}] /\ \A v \in Workers \ {w} : wJob'[v] = wJob[v]
    BY <1>10 DEF LastUpdate, Free
  <2>5. QED
    BY <1>10, <2>2, <2>3, <2>4 DEF LastUpdate
<1>11. CASE UpdateThrows(w)
  <2>1. wJob[w] \in Jobs
    BY <1>0, <1>11 DEF UpdateThrows
  <2>2. unreported' \subseteq Jobs
    BY <1>11, <2>1 DEF UpdateThrows
  <2>3. faults' \in 0 .. MaxFaults
    BY <1>11, SqlAssumption DEF UpdateThrows, Fault
  <2>4. CASE wpc[w] = "caught"
    <3>1. wpc' = [wpc EXCEPT ![w] = "thrown"] /\ UNCHANGED status
      BY <1>11, <2>4 DEF UpdateThrows, Goto
    <3>2. wpc' \in [Workers -> WorkerPC] /\ \A v \in Workers \ {w} : wpc'[v] = wpc[v]
      BY <3>1 DEF WorkerPC
    <3>3. QED
      BY <1>11, <2>1, <2>2, <2>3, <3>1, <3>2 DEF UpdateThrows
  <2>5. CASE wpc[w] # "caught"
    <3>1. Write(w, "Fail", "caught") /\ "caught" \in WorkerPC \ {"off", "idle"}
      BY <1>11, <2>5 DEF UpdateThrows, WorkerPC, Reporting
    <3>2. QED
      BY <1>0, <1>11, <2>1, <2>2, <2>3, <3>1, WriteTyped DEF UpdateThrows
  <2>6. QED
    BY <2>4, <2>5
<1>12. CASE UpdateKills(w)
  <2>1. wJob[w] \in Jobs
    BY <1>0, <1>12 DEF UpdateKills
  <2>2. unreported' \subseteq Jobs
    BY <1>12, <2>1 DEF UpdateKills
  <2>3. faults' \in 0 .. MaxFaults
    BY <1>12, SqlAssumption DEF UpdateKills, Fault
  <2>4. ServerOf[PoolOf[w]] \in Servers /\ GoDown(ServerOf[PoolOf[w]])
    BY <1>0, <1>12, SqlAssumption DEF UpdateKills
  <2>5. QED
    BY <2>2, <2>3, <2>4, GoDownTyped
<1>13. QED
  BY <1>1, <1>2, <1>3, <1>4, <1>5, <1>5a, <1>6, <1>7, <1>8, <1>9, <1>10, <1>11, <1>12
     DEF WorkerStep

LEMMA ServerTyped ==
  ASSUME TypeInv, NEW s \in Servers, Crash(s) \/ Restart(s)
  PROVE  TypeInv'
<1>1. CASE Crash(s)
  <2>1. faults' \in 0 .. MaxFaults /\ unreported' \subseteq Jobs
    BY <1>1 DEF Crash, TypeInv, TypeOK, StorageTypeOK
  <2>2. QED
    BY <1>1, <2>1, GoDownTyped DEF Crash
<1>2. CASE Restart(s)
  <2> USE DEF TypeInv, TypeOK, StorageTypeOK, BusyOK, historyVars, scheduleVars, definitionVars
  <2>1. mpc' \in [Pools -> ManagerPC] /\ up' \subseteq Servers
    BY <1>2 DEF Restart, ManagerPC
  <2>2. wpc' \in [Workers -> WorkerPC]
    BY <1>2 DEF Restart, WorkerPC
  <2>3. BusyOK'
    BY <1>2 DEF Restart
  <2>4. QED
    BY <1>2, <2>1, <2>2, <2>3 DEF Restart
<1>3. QED
  BY <1>1, <1>2

LEMMA CleanTyped ==
  ASSUME TypeInv, Clean
  PROVE  TypeInv'
<1> USE DEF TypeInv, TypeOK, StorageTypeOK, BusyOK, historyVars, scheduleVars, definitionVars,
            managerVars, workerVars
<1>1. row' \in [Jobs -> Status \cup {"none", "deleted"}]
  BY DEF Clean
<1>2. QED
  BY <1>1 DEF Clean

LEMMA NextTyped == TypeInv /\ [Next]_vars => TypeInv'
<1> SUFFICES ASSUME TypeInv, [Next]_vars PROVE TypeInv'
  OBVIOUS
<1>1. CASE UNCHANGED vars
  BY <1>1 DEF vars, storageVars, workerVars, historyVars, scheduleVars, definitionVars,
              managerVars, TypeInv, TypeOK, StorageTypeOK, BusyOK
<1>2. QED
  BY <1>1, CallerTyped, ManagerTyped, WorkerTyped, ServerTyped, CleanTyped DEF Next

(* Every variable keeps its type, and a worker that deals with a job has   *)
(* one.                                                                    *)
THEOREM SqlTypeCorrect == Spec => []TypeOK
<1>1. TypeInv => TypeOK
  BY DEF TypeInv
<1>2. QED
  BY <1>1, InitTyped, NextTyped, PTL DEF Spec

-----------------------------------------------------------------------------
(* Jobs made from schedules: what has come due and has a job, or not yet.  *)

Used == Clones \ Unused

(* What has come due and has no job yet.                                   *)
Pending ==
  {x \in Schedules \cap due : \A p \in Pools : ~(mpc[p] = "next" /\ found[p] = x)}

FoundInv ==
  /\ \A p \in Pools : /\ found[p] # NoSchedule <=> mpc[p] \in {"clone", "next"}
                      /\ found[p] # NoSchedule => HomeOf[found[p]] = ServerOf[p]
                      /\ ServerOf[p] \notin up => mpc[p] = "off"
  /\ \A p \in Pools : \A x \in scan[p] : HomeOf[x] = ServerOf[p]
  /\ \A k \in Clones : hasId[k] => row[k] # "none"

CountInv ==
  /\ \A p, q \in Pools : found[p] = found[q] /\ found[p] # NoSchedule => p = q
  /\ \A p \in Pools : found[p] # NoSchedule => found[p] \in due
  /\ IsFiniteSet(Used) /\ IsFiniteSet(Pending)
  /\ Cardinality(Used) + Cardinality(Pending) <= occurrences

ClonesInv == FoundInv /\ (~contended => CountInv)

LEMMA InitClones == Init => ClonesInv
<1> SUFFICES ASSUME Init PROVE ClonesInv
  OBVIOUS
<1>1. FoundInv
  BY SqlAssumption DEF Init, StorageInit, FoundInv, Jobs
<1>2. Used = {} /\ Pending = {}
  BY SqlAssumption DEF Init, StorageInit, Used, Unused, Pending, Jobs
<1>3. IsFiniteSet({}) /\ Cardinality({}) = 0
  BY FS_EmptySet
<1>4. CountInv
  BY <1>2, <1>3 DEF Init, StorageInit, CountInv
<1>5. QED
  BY <1>1, <1>4 DEF ClonesInv

(* Fewer schedules are pending, and no clone is new.                       *)
LEMMA CountKept ==
  ASSUME CountInv, occurrences \in Nat, Used' = Used, Pending' \subseteq Pending,
         occurrences' = occurrences
  PROVE  /\ IsFiniteSet(Used') /\ IsFiniteSet(Pending')
         /\ Cardinality(Used') + Cardinality(Pending') <= occurrences'
<1>1. IsFiniteSet(Pending') /\ Cardinality(Pending') <= Cardinality(Pending)
  BY FS_Subset DEF CountInv
<1>2. Cardinality(Pending) \in Nat /\ Cardinality(Pending') \in Nat /\ Cardinality(Used) \in Nat
  BY <1>1, FS_CardinalityType DEF CountInv
<1>3. QED
  BY <1>1, <1>2 DEF CountInv

(* A step that has nothing to do with schedules.                           *)
LEMMA SchedulesAlone ==
  ASSUME TypeInv, ClonesInv,
         UNCHANGED <<up, due, occurrences, contended, found>>,
         \A p \in Pools : /\ mpc'[p] = mpc[p] \/ {mpc[p], mpc'[p]} \cap {"off", "clone", "next"} = {}
                          /\ \A x \in scan'[p] : HomeOf[x] = ServerOf[p],
         \A k \in Clones : /\ row'[k] = "none" <=> row[k] = "none"
                           /\ hasId'[k] = hasId[k]
  PROVE  ClonesInv'
<1>1. FoundInv'
  BY DEF ClonesInv, FoundInv
<1>2. Used' = Used /\ Pending' = Pending
  BY DEF Used, Unused, Pending
<1>3. ASSUME ~contended' PROVE CountInv'
  BY <1>2, <1>3, CountKept DEF ClonesInv, CountInv, TypeInv, TypeOK, StorageTypeOK
<1>4. QED
  BY <1>1, <1>3 DEF ClonesInv

LEMMA CallerClones ==
  ASSUME TypeInv, ClonesInv,
         \/ \E x \in Schedules : SetSchedule(x) /\ UNCHANGED jobVars
         \/ \E j \in Singles : \/ SetCheck(j) /\ UNCHANGED jobVars
                               \/ CallerRuns(j)
                               \/ CallerThrows(j)
         \/ Clean
         \/ UNCHANGED vars
  PROVE  ClonesInv'
<1> USE DEF jobVars, callerRest, managerVars, scheduleVars, definitionVars
<1>0. Clones \cap Singles = {} /\ \A p \in Pools : \A x \in scan[p] : HomeOf[x] = ServerOf[p]
  BY SqlAssumption DEF ClonesInv, FoundInv
<1>1. ASSUME NEW x \in Schedules, SetSchedule(x) PROVE ClonesInv'
  BY <1>0, <1>1, SchedulesAlone DEF SetSchedule
<1>2. ASSUME NEW j \in Singles, SetCheck(j) \/ SetTake(j) \/ SetMark(j) PROVE ClonesInv'
  <2>1. UNCHANGED <<up, due, occurrences, contended, found, mpc, scan, row, hasId>>
    BY <1>2 DEF SetCheck, SetTake, SetMark
  <2>2. QED
    BY <1>0, <2>1, SchedulesAlone
<1>3. ASSUME NEW j \in Singles, SetInsert(j) PROVE ClonesInv'
  <2>1. UNCHANGED <<up, due, occurrences, contended, found, mpc, scan>>
    BY <1>3 DEF SetInsert
  <2>2. \A k \in Clones : row'[k] = row[k] /\ hasId'[k] = hasId[k]
    BY <1>0, <1>3 DEF SetInsert, Insert, TypeInv, TypeOK, StorageTypeOK, Jobs
  <2>3. QED
    BY <1>0, <2>1, <2>2, SchedulesAlone
<1>4. ASSUME NEW j \in Singles, CallerThrows(j) PROVE ClonesInv'
  <2>1. UNCHANGED <<up, due, occurrences, contended, found, mpc, scan, row, hasId>>
    BY <1>4 DEF CallerThrows, SetThrows
  <2>2. QED
    BY <1>0, <2>1, SchedulesAlone
<1>5. CASE Clean
  <2>1. UNCHANGED <<up, due, occurrences, contended, found, mpc, scan, hasId>>
    BY <1>5 DEF Clean
  <2>2. \A k \in Clones : row'[k] = "none" <=> row[k] = "none"
    BY <1>5 DEF Clean, Jobs
  <2>3. QED
    BY <1>0, <2>1, <2>2, SchedulesAlone
<1>6. CASE UNCHANGED vars
  <2>1. UNCHANGED <<up, due, occurrences, contended, found, mpc, scan, row, hasId>>
    BY <1>6 DEF vars, storageVars
  <2>2. QED
    BY <1>0, <2>1, SchedulesAlone
<1>7. QED
  BY <1>1, <1>2, <1>3, <1>4, <1>5, <1>6 DEF CallerRuns, SetStep

(* The time of one schedule comes.                                         *)
LEMMA OccurClones ==
  ASSUME TypeInv, ClonesInv, NEW d \in Delayed \cup Schedules, TimePasses(d)
  PROVE  ClonesInv'
<1> USE DEF TimePasses, Occur, definitionVars, managerVars
<1>1. UNCHANGED <<up, row, hasId, contended, mpc, scan, found>> /\ due' = due \cup {d}
  OBVIOUS
<1>2. FoundInv'
  BY <1>1 DEF ClonesInv, FoundInv
<1>3. ASSUME ~contended' PROVE CountInv'
  <2>1. CountInv /\ Used' = Used /\ occurrences \in Nat
    BY <1>1, <1>3, SqlAssumption DEF ClonesInv, Used, Unused, TypeInv, TypeOK, StorageTypeOK
  <2>2. CASE d \in Schedules
    <3>1. Pending' \subseteq Pending \cup {d} /\ occurrences' = occurrences + 1
      BY <1>1, <2>2 DEF Pending
    <3>2. IsFiniteSet(Pending \cup {d}) /\ Cardinality(Pending \cup {d}) <= Cardinality(Pending) + 1
      <4>1. Cardinality(Pending) \in Nat
        BY <2>1, FS_CardinalityType DEF CountInv
      <4>2. /\ IsFiniteSet(Pending \cup {d})
            /\ Cardinality(Pending \cup {d}) =
                 IF d \in Pending THEN Cardinality(Pending) ELSE Cardinality(Pending) + 1
        BY <2>1, FS_AddElement DEF CountInv
      <4>3. QED
        BY <4>1, <4>2
    <3>3. IsFiniteSet(Pending') /\ Cardinality(Pending') <= Cardinality(Pending \cup {d})
      BY <3>1, <3>2, FS_Subset
    <3>4. /\ Cardinality(Pending) \in Nat /\ Cardinality(Pending') \in Nat
          /\ Cardinality(Used) \in Nat /\ Cardinality(Pending \cup {d}) \in Nat
      BY <2>1, <3>2, <3>3, FS_CardinalityType DEF CountInv
    <3>5. Cardinality(Used') + Cardinality(Pending') <= occurrences'
      BY <2>1, <3>1, <3>2, <3>3, <3>4 DEF CountInv
    <3>6. QED
      BY <1>1, <2>1, <3>3, <3>5 DEF CountInv
  <2>3. CASE d \notin Schedules
    <3>1. Pending' = Pending /\ occurrences' = occurrences
      BY <1>1, <2>1, <2>3 DEF Pending
    <3>2. QED
      BY <1>1, <2>1, <3>1 DEF CountInv
  <2>4. QED
    BY <2>2, <2>3
<1>4. QED
  BY <1>2, <1>3 DEF ClonesInv

LEMMA ManagerClones ==
  ASSUME TypeInv, ClonesInv, NEW p \in Pools,
         ManagerRuns(p) \/ ManagerDies(p) \/ \E j \in Jobs : ManagerDrops(p, j)
  PROVE  ClonesInv'
<1> USE DEF managerRest, definitionVars
<1>0. /\ Clones \cap Singles = {} /\ Unreadable \cup Unloadable \subseteq Singles
      /\ Clones \subseteq Jobs /\ NoSchedule \notin Schedules
      /\ \A q \in Pools : \A x \in scan[q] : HomeOf[x] = ServerOf[q]
      /\ row \in [Jobs -> Status \cup {"none", "deleted"}] /\ hasId \in [Jobs -> BOOLEAN]
      /\ mpc \in [Pools -> ManagerPC] /\ scan \in [Pools -> SUBSET Schedules]
      /\ found \in [Pools -> Schedules \cup {NoSchedule}]
      /\ occurrences \in Nat
  BY SqlAssumption DEF ClonesInv, FoundInv, Jobs, TypeInv, TypeOK, StorageTypeOK
<1>1. ASSUME PeekCall(p) \/ CheckSchedules(p) \/ SchedulesChecked(p) \/ PeekReturns(p)
      PROVE  ClonesInv'
  <2>1. UNCHANGED <<up, due, occurrences, contended, found, row, hasId>>
    BY <1>1 DEF PeekCall, CheckSchedules, SchedulesChecked, PeekReturns
  <2>2. \A q \in Pools : mpc'[q] = mpc[q] \/ {mpc[q], mpc'[q]} \cap {"off", "clone", "next"} = {}
    BY <1>0, <1>1 DEF PeekCall, CheckSchedules, SchedulesChecked, PeekReturns, ManagerTo
  <2>3. \A q \in Pools : \A x \in scan'[q] : HomeOf[x] = ServerOf[q]
    BY <1>0, <1>1 DEF PeekCall, CheckSchedules, SchedulesChecked, PeekReturns
  <2>4. QED
    BY <2>1, <2>2, <2>3, SchedulesAlone
<1>2. ASSUME Peek(p) PROVE ClonesInv'
  <2>1. UNCHANGED <<up, due, occurrences, contended, found, scan, hasId>>
    BY <1>2 DEF Peek
  <2>2. \A q \in Pools : mpc'[q] = mpc[q] \/ {mpc[q], mpc'[q]} \cap {"off", "clone", "next"} = {}
    BY <1>0, <1>2 DEF Peek, ManagerTo
  <2>3. \A k \in Clones : row'[k] = "none" <=> row[k] = "none"
    <3>1. PICK S \in SUBSET Peekable(p) :
            row' = [j \in Jobs |-> IF j \in S THEN "Enqueuing" ELSE row[j]]
      BY <1>2 DEF Peek, Chosen, PeekedRow
    <3>2. QED
      BY <1>0, <3>1 DEF Peekable
  <2>4. QED
    BY <1>0, <2>1, <2>2, <2>3, SchedulesAlone
<1>3. ASSUME NEW j \in Jobs, MapFails(p, j) \/ FillBuffer(p, j) \/ FillFails(p, j)
      PROVE  ClonesInv'
  <2>1. UNCHANGED <<up, due, occurrences, contended, found, scan, hasId>>
    BY <1>3 DEF MapFails, FillBuffer, FillFails
  <2>2. \A q \in Pools : mpc'[q] = mpc[q] \/ {mpc[q], mpc'[q]} \cap {"off", "clone", "next"} = {}
    BY <1>0, <1>3 DEF MapFails, FillBuffer, FillFails, FillLoop, ManagerTo
  <2>3. \A k \in Clones : row'[k] = row[k]
    BY <1>0, <1>3 DEF MapFails, FillBuffer, FillFails
  <2>4. QED
    BY <1>0, <2>1, <2>2, <2>3, SchedulesAlone
<1>4. ASSUME NEW j \in Jobs, ManagerDrops(p, j) PROVE ClonesInv'
  <2>1. UNCHANGED <<up, due, occurrences, contended, found, mpc, scan, row, hasId>>
    BY <1>4 DEF ManagerDrops, MapThrows
  <2>2. QED
    BY <1>0, <2>1, SchedulesAlone
<1>5. ASSUME CheckSchedule(p) PROVE ClonesInv'
  <2>1. UNCHANGED <<up, due, occurrences, row, hasId>> /\ mpc[p] = "scan"
    BY <1>5 DEF CheckSchedule
  <2>2. PICK x \in scan[p] :
          /\ scan' = [scan EXCEPT ![p] = @ \ {x}]
          /\ IF x \in due
               THEN /\ found' = [found EXCEPT ![p] = x]
                    /\ mpc' = [mpc EXCEPT ![p] = "clone"]
                    /\ contended' = (contended \/ \E q \in Pools : found[q] = x)
               ELSE UNCHANGED <<found, mpc, contended>>
    BY <1>5 DEF CheckSchedule, ManagerTo
  <2>3. \A q \in Pools : \A y \in scan'[q] : HomeOf[y] = ServerOf[q]
    BY <1>0, <2>2
  <2>4. CASE x \notin due
    BY <1>0, <2>1, <2>2, <2>3, <2>4, SchedulesAlone
  <2>5. CASE x \in due
    <3>1. /\ found' = [found EXCEPT ![p] = x] /\ mpc' = [mpc EXCEPT ![p] = "clone"]
          /\ x \in Schedules /\ HomeOf[x] = ServerOf[p]
          /\ contended' = (contended \/ \E q \in Pools : found[q] = x)
      BY <1>0, <2>2, <2>5
    <3>2. FoundInv'
      BY <1>0, <2>1, <2>3, <3>1 DEF ClonesInv, FoundInv
    <3>3. ASSUME ~contended' PROVE CountInv'
      <4>1. CountInv /\ \A q \in Pools : found[q] # x
        BY <3>1, <3>3 DEF ClonesInv
      <4>2. Used' = Used /\ Pending' \subseteq Pending
        BY <1>0, <2>1, <3>1 DEF Used, Unused, Pending
      <4>3. /\ \A q, r \in Pools : found'[q] = found'[r] /\ found'[q] # NoSchedule => q = r
            /\ \A q \in Pools : found'[q] # NoSchedule => found'[q] \in due'
        BY <1>0, <2>1, <2>5, <3>1, <4>1 DEF CountInv
      <4>4. QED
        BY <1>0, <2>1, <4>1, <4>2, <4>3, CountKept DEF CountInv
    <3>4. QED
      BY <3>2, <3>3 DEF ClonesInv
  <2>6. QED
    BY <2>4, <2>5
<1>6. ASSUME CloneSchedule(p) PROVE ClonesInv'
  <2>1. UNCHANGED <<up, due, occurrences, contended, scan, found>> /\ mpc[p] = "clone"
    BY <1>6 DEF CloneSchedule
  <2>2. PICK k \in Clones :
          /\ row[k] = "none"
          /\ row' = [row EXCEPT ![k] = "Enqueued"]
          /\ hasId' = [hasId EXCEPT ![k] = TRUE]
          /\ mpc' = [mpc EXCEPT ![p] = "next"]
    BY <1>6 DEF CloneSchedule, Unused, CloneStatus, ManagerTo
  <2>3. FoundInv'
    BY <1>0, <2>1, <2>2 DEF ClonesInv, FoundInv
  <2>4. ASSUME ~contended' PROVE CountInv'
    <3> DEFINE x == found[p]
    <3>1. CountInv
      BY <2>1, <2>4 DEF ClonesInv
    <3>2. x \in Schedules /\ x # NoSchedule
      BY <1>0, <2>1 DEF ClonesInv, FoundInv
    <3>3. x \in Pending
      BY <2>1, <3>1, <3>2 DEF CountInv, Pending
    <3>4. Pending' \subseteq Pending \ {x}
      BY <1>0, <2>1, <2>2 DEF Pending
    <3>5. Used' = Used \cup {k} /\ k \notin Used
      BY <1>0, <2>2 DEF Used, Unused
    <3>6. IsFiniteSet(Used') /\ Cardinality(Used') = Cardinality(Used) + 1
      BY <3>1, <3>5, FS_AddElement DEF CountInv
    <3>7. IsFiniteSet(Pending \ {x}) /\ Cardinality(Pending \ {x}) = Cardinality(Pending) - 1
      BY <3>1, <3>3, FS_RemoveElement DEF CountInv
    <3>8. IsFiniteSet(Pending') /\ Cardinality(Pending') <= Cardinality(Pending \ {x})
      BY <3>4, <3>7, FS_Subset
    <3>9. /\ Cardinality(Pending) \in Nat /\ Cardinality(Used) \in Nat
          /\ Cardinality(Pending') \in Nat
      BY <3>1, <3>8, FS_CardinalityType DEF CountInv
    <3>10. Cardinality(Used') + Cardinality(Pending') <= occurrences
      BY <1>0, <3>1, <3>6, <3>7, <3>8, <3>9 DEF CountInv
    <3>11. QED
      BY <2>1, <3>1, <3>6, <3>8, <3>10 DEF CountInv
  <2>5. QED
    BY <2>3, <2>4 DEF ClonesInv
<1>7. ASSUME CalculateNextRun(p) PROVE ClonesInv'
  <2>1. UNCHANGED <<up, occurrences, contended, scan, row, hasId>> /\ mpc[p] = "next"
    BY <1>7 DEF CalculateNextRun
  <2>2. /\ due' = due \ {found[p]} /\ found' = [found EXCEPT ![p] = NoSchedule]
        /\ mpc' = [mpc EXCEPT ![p] = "scan"]
    BY <1>7 DEF CalculateNextRun, NextRun, ManagerTo
  <2>3. FoundInv'
    BY <1>0, <2>1, <2>2 DEF ClonesInv, FoundInv
  <2>4. ASSUME ~contended' PROVE CountInv'
    <3>1. CountInv /\ Used' = Used
      BY <2>1, <2>4 DEF ClonesInv, Used, Unused
    <3>2. Pending' \subseteq Pending
      BY <1>0, <2>1, <2>2 DEF Pending
    <3>3. /\ \A q, r \in Pools : found'[q] = found'[r] /\ found'[q] # NoSchedule => q = r
          /\ \A q \in Pools : found'[q] # NoSchedule => found'[q] \in due'
      BY <1>0, <2>2, <3>1 DEF CountInv
    <3>4. QED
      BY <1>0, <2>1, <3>1, <3>2, <3>3, CountKept DEF CountInv
  <2>5. QED
    BY <2>3, <2>4 DEF ClonesInv
<1>8. ASSUME ManagerDies(p) PROVE ClonesInv'
  <2>1. UNCHANGED <<up, due, occurrences, contended, row, hasId>>
        /\ mpc[p] \notin {"off", "next"}
    BY <1>8 DEF ManagerDies, ManagerThrows
  <2>2. /\ found' = [found EXCEPT ![p] = NoSchedule] /\ scan' = [scan EXCEPT ![p] = {}]
        /\ mpc' = [mpc EXCEPT ![p] = "dead"]
    BY <1>8 DEF ManagerDies, ManagerThrows, ManagerTo
  <2>3. FoundInv'
    BY <1>0, <2>1, <2>2 DEF ClonesInv, FoundInv
  <2>4. ASSUME ~contended' PROVE CountInv'
    <3>1. CountInv /\ Used' = Used
      BY <2>1, <2>4 DEF ClonesInv, Used, Unused
    <3>2. Pending' \subseteq Pending
      BY <1>0, <2>1, <2>2 DEF Pending
    <3>3. /\ \A q, r \in Pools : found'[q] = found'[r] /\ found'[q] # NoSchedule => q = r
          /\ \A q \in Pools : found'[q] # NoSchedule => found'[q] \in due'
      BY <1>0, <2>1, <2>2, <3>1 DEF CountInv
    <3>4. QED
      BY <1>0, <2>1, <3>1, <3>2, <3>3, CountKept DEF CountInv
  <2>5. QED
    BY <2>3, <2>4 DEF ClonesInv
<1>9. QED
  BY <1>1, <1>2, <1>3, <1>4, <1>5, <1>6, <1>7, <1>8 DEF ManagerRuns, ManagerStep

LEMMA ServerClones ==
  ASSUME TypeInv, ClonesInv, NEW s \in Servers, GoDown(s) \/ Restart(s)
  PROVE  ClonesInv'
<1> USE DEF definitionVars, scheduleVars
<1>0. /\ occurrences \in Nat /\ up \subseteq Servers /\ NoSchedule \notin Schedules
      /\ \A q \in Pools : ServerOf[q] \in Servers
      /\ found \in [Pools -> Schedules \cup {NoSchedule}]
  BY SqlAssumption DEF TypeInv, TypeOK, StorageTypeOK
<1>1. CASE GoDown(s)
  <2>1. /\ UNCHANGED <<row, hasId, occurrences, contended>> /\ up' = up \ {s}
        /\ due' = {d \in due : d \in Schedules => HomeOf[d] # s}
        /\ \A q \in Pools :
             IF ServerOf[q] = s
               THEN mpc'[q] = "off" /\ found'[q] = NoSchedule /\ scan'[q] = {}
               ELSE mpc'[q] = mpc[q] /\ found'[q] = found[q] /\ scan'[q] = scan[q]
    BY <1>1 DEF GoDown
  <2>2. FoundInv'
    BY <2>1 DEF ClonesInv, FoundInv
  <2>3. ASSUME ~contended' PROVE CountInv'
    <3>1. CountInv /\ FoundInv /\ Used' = Used
      BY <2>1, <2>3 DEF ClonesInv, Used, Unused
    <3>2. ASSUME NEW x \in Pending' PROVE x \in Pending
      <4>1. x \in Schedules \cap due /\ HomeOf[x] # s
        BY <2>1 DEF Pending
      <4>2. ASSUME NEW q \in Pools, mpc[q] = "next", found[q] = x PROVE FALSE
        <5>1. ServerOf[q] # s
          BY <1>0, <3>1, <4>1, <4>2 DEF FoundInv
        <5>2. mpc'[q] = "next" /\ found'[q] = x
          BY <2>1, <4>2, <5>1
        <5>3. QED
          BY <5>2 DEF Pending
      <4>3. QED
        BY <4>1, <4>2 DEF Pending
    <3>3. \A q, r \in Pools : found'[q] = found'[r] /\ found'[q] # NoSchedule => q = r
      BY <2>1, <3>1 DEF CountInv
    <3>4. \A q \in Pools : found'[q] # NoSchedule => found'[q] \in due'
      BY <1>0, <2>1, <3>1 DEF CountInv, FoundInv
    <3>5. QED
      BY <1>0, <2>1, <3>1, <3>2, <3>3, <3>4, CountKept DEF CountInv
  <2>4. QED
    BY <2>2, <2>3 DEF ClonesInv
<1>2. CASE Restart(s)
  <2>1. /\ UNCHANGED <<row, hasId, occurrences, contended, due, found, scan>> /\ up' = up \cup {s}
        /\ s \notin up
        /\ \A q \in Pools : mpc'[q] = IF ServerOf[q] = s THEN "idle" ELSE mpc[q]
    BY <1>2 DEF Restart
  <2>2. \A q \in Pools : ServerOf[q] = s => mpc[q] = "off" /\ found[q] = NoSchedule
    BY <2>1 DEF ClonesInv, FoundInv
  <2>3. FoundInv'
    BY <2>1, <2>2 DEF ClonesInv, FoundInv
  <2>4. Used' = Used /\ Pending' = Pending
    BY <2>1, <2>2 DEF Used, Unused, Pending
  <2>5. ASSUME ~contended' PROVE CountInv'
    BY <2>1, <2>4, <2>5 DEF ClonesInv, CountInv
  <2>6. QED
    BY <2>3, <2>5 DEF ClonesInv
<1>3. QED
  BY <1>1, <1>2

LEMMA WorkerClones ==
  ASSUME TypeInv, ClonesInv, NEW w \in Workers, WorkerStep(w) \/ UpdateThrows(w) \/ UpdateKills(w)
  PROVE  ClonesInv'
<1> USE DEF workerRest, managerVars, scheduleVars, historyVars
<1>0. /\ PoolOf[w] \in Pools /\ ServerOf[PoolOf[w]] \in Servers
      /\ \A p \in Pools : \A x \in scan[p] : HomeOf[x] = ServerOf[p]
  BY SqlAssumption, JobsAssumption DEF ClonesInv, FoundInv
<1>1. CASE UpdateKills(w)
  BY <1>0, <1>1, ServerClones DEF UpdateKills
<1>2. ASSUME UNCHANGED <<up, hasId, scheduleVars, managerVars>>, row' = row \/ row' = Updated(wJob[w])
      PROVE  ClonesInv'
  <2>0. /\ row \in [Jobs -> Status \cup {"none", "deleted"}] /\ status \in [Jobs -> Status]
        /\ \A k \in Clones : k \in Jobs /\ (hasId[k] => row[k] # "none")
    BY DEF ClonesInv, FoundInv, Jobs, TypeInv, TypeOK, StorageTypeOK
  <2>1. ASSUME NEW k \in Clones PROVE row'[k] = "none" <=> row[k] = "none"
    <3>1. row'[k] = row[k] \/ (hasId[k] /\ row'[k] = status[k])
      BY <1>2, <2>0 DEF Updated
    <3>2. status[k] # "none"
      BY <2>0 DEF Status
    <3>3. QED
      BY <2>0, <3>1, <3>2
  <2>2. QED
    BY <1>0, <1>2, <2>1, SchedulesAlone
<1>3. CASE TakeWorkItem(w) \/ ExecuteStart(w) \/ ExecuteComplete(w) \/ ExecuteFail(w) \/ FailAgain(w)
  BY <1>2, <1>3 DEF TakeWorkItem, ExecuteStart, ExecuteComplete, ExecuteFail, FailAgain
<1>4. CASE \/ DoFail(w) \/ EndDelay(w) \/ Requeue(w) \/ UpdateAndRetry(w) \/ UpdateStatus(w)
           \/ LastUpdate(w)
  BY <1>2, <1>4 DEF DoFail, EndDelay, Requeue, UpdateAndRetry, UpdateStatus, LastUpdate
<1>5. CASE UpdateThrows(w)
  BY <1>2, <1>5 DEF UpdateThrows
<1>6. QED
  BY <1>1, <1>3, <1>4, <1>5 DEF WorkerStep

LEMMA NextClones == TypeInv /\ ClonesInv /\ [Next]_vars => ClonesInv'
<1> SUFFICES ASSUME TypeInv, ClonesInv, [Next]_vars PROVE ClonesInv'
  OBVIOUS
<1>1. QED
  BY CallerClones, OccurClones, ManagerClones, WorkerClones, ServerClones DEF Next, Crash

(* A schedule is turned into no more jobs than its time has come, unless   *)
(* two managers found it due at once.                                      *)
THEOREM EachOccurrenceClonedOnce == Spec => []ClonedOnce
<1>1. TypeInv /\ ClonesInv => ClonedOnce
  <2> SUFFICES ASSUME TypeInv, ClonesInv, ~contended PROVE Cardinality(Used) <= occurrences
    BY DEF ClonedOnce, Used
  <2>1. CountInv /\ occurrences \in Nat
    BY SqlAssumption DEF ClonesInv, TypeInv, TypeOK, StorageTypeOK
  <2>2. Cardinality(Used) \in Nat /\ Cardinality(Pending) \in Nat
    BY <2>1, FS_CardinalityType DEF CountInv
  <2>3. QED
    BY <2>1, <2>2 DEF CountInv
<1>2. QED
  BY <1>1, InitTyped, NextTyped, InitClones, NextClones, PTL DEF Spec
=============================================================================
