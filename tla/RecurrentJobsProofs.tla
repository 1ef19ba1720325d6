------------------------ MODULE RecurrentJobsProofs ------------------------
(***************************************************************************)
(* Proofs about RecurrentJobs: for any definitions, pools, workers and     *)
(* callers, any buffer length, width of an id and number of tries.         *)
(***************************************************************************)
EXTENDS RecurrentJobs, FiniteSetTheorems, TLAPS

(* Who is at work has something in hand; UpdateStatus and Clean are for    *)
(* recurrent jobs.                                                         *)
CallersOK ==
  \A c \in Callers : /\ cdef[c] # NoDef <=> cpc[c] # "idle"
                     /\ cpc[c] \in {"direct", "store"} => cdef[c] \in Singles

ManagersOK ==
  \A p \in Pools : /\ found[p] # NoDef <=> ppc[p] \in {"enqueue", "mark"}
                   /\ ppc[p] = "enqueue" => found[p] \in Recurrents
                   /\ ppc[p] = "mark" => room[p] > 0
                   /\ ppc[p] = "fill" => peeked[p] # <<>>

OnlyRecurrent == {"load", "save", "next", "check", "reset", "clean2", "clean3", "done"}

WorkersOK ==
  \A w \in Workers : /\ wdef[w] # NoDef <=> wpc[w] # "idle"
                     /\ wpc[w] \in OnlyRecurrent => wdef[w] \in Recurrents

TypeInv == TypeOK /\ CallersOK /\ ManagersOK /\ WorkersOK

-----------------------------------------------------------------------------
(* Types                                                                   *)

LEMMA WrapTyped ==
  ASSUME NEW n \in Nat
  PROVE  Wrap(n) \in 0 .. 2^IdBits - 1
  BY StorageAssumption, PowersAssumption DEF Wrap

LEMMA InitDue ==
  [d \in Definitions |-> d \in Singles \ Delayed] \in [Definitions -> BOOLEAN]
<1>1. ASSUME NEW d \in Definitions PROVE (d \in Singles \ Delayed) \in BOOLEAN
  <2>1. CASE (d \in Singles \ Delayed) = TRUE
    BY <2>1, Zenon
  <2>2. CASE (d \in Singles \ Delayed) = FALSE
    BY <2>2, Zenon
  <2>3. QED
    BY <2>1, <2>2, SMT
<1>2. QED
  BY <1>1, Zenon

LEMMA InitTyped == Init => TypeInv
<1> SUFFICES ASSUME Init PROVE TypeInv
  OBVIOUS
<1> USE DEF Init, StorageInit, Definitions
<1>1. /\ sequence \in 0 .. 2^IdBits - 1
      /\ ids \in [Definitions -> 0 .. 2^IdBits - 1]
      /\ cval \in [Callers -> 0 .. 2^IdBits - 1]
  BY PowersAssumption
<1>2. /\ queue \in Seq(Definitions)
      /\ schedules \subseteq Recurrents
      /\ registered \subseteq Pools
      /\ status \in [Recurrents -> Status]
  BY DEF Status
<1>3. /\ due \in [Definitions -> BOOLEAN]
      /\ owed \in [Recurrents -> BOOLEAN]
      /\ overtaken \in BOOLEAN
  BY InitDue
<1>8. /\ buffer \in [Pools -> Seq(Definitions)]
      /\ unset \subseteq Definitions
  OBVIOUS
<1>4. /\ cpc \in [Callers -> CallerPC]
      /\ cdef \in [Callers -> Definitions \cup {NoDef}]
      /\ ppc \in [Pools -> ManagerPC]
      /\ scan \in [Pools -> SUBSET Recurrents]
      /\ found \in [Pools -> Definitions \cup {NoDef}]
      /\ room \in [Pools -> Nat]
      /\ peeked \in [Pools -> Seq(Definitions)]
  BY DEF CallerPC, ManagerPC
<1>5. /\ wpc \in [Workers -> WorkerPC]
      /\ wdef \in [Workers -> Definitions \cup {NoDef}]
      /\ wnext \in [Workers -> Targets]
      /\ wseen \in [Workers -> Status]
      /\ ended \subseteq Singles
      /\ crashed \in BOOLEAN
  BY DEF WorkerPC, Targets, Status
<1>9. retryCount \in [Definitions -> 0 .. FailureRetryCount]
  BY WorkersAssumption
<1>6. CallersOK /\ ManagersOK /\ WorkersOK
  BY DEF CallersOK, ManagersOK, WorkersOK, OnlyRecurrent
<1>7. QED
  BY <1>1, <1>2, <1>3, <1>4, <1>5, <1>6, <1>8, <1>9 DEF TypeInv, TypeOK, StorageTypeOK

(* The last step of Set.                                                   *)
LEMMA SetReturnsTyped ==
  ASSUME TypeInv, NEW c \in Callers, SetReturns(c)
  PROVE  /\ cpc' \in [Callers -> CallerPC]
         /\ cdef' \in [Callers -> Definitions \cup {NoDef}]
         /\ cval' \in [Callers -> 0 .. 2^IdBits - 1]
         /\ unset' \subseteq Definitions
         /\ CallersOK'
<1> USE DEF TypeInv, TypeOK, StorageTypeOK, SetReturns, CallerTo
<1>1. 0 \in 0 .. 2^IdBits - 1
  BY PowersAssumption
<1>2. cval' \in [Callers -> 0 .. 2^IdBits - 1]
  BY <1>1
<1>3. /\ cpc' \in [Callers -> CallerPC]
      /\ cdef' \in [Callers -> Definitions \cup {NoDef}]
      /\ unset' \subseteq Definitions
  BY DEF CallerPC
<1>4. CallersOK'
  BY DEF CallersOK
<1>5. QED
  BY <1>2, <1>3, <1>4

(* The calls of Enqueue and Schedule, and time.                            *)
LEMMA CallerTyped ==
  ASSUME TypeInv,
         \/ \E d \in Definitions : TimePasses(d)
         \/ \E c \in Callers : (SetCall(c) /\ UNCHANGED jobVars) \/ CallerRuns(c)
  PROVE  TypeInv'
<1> USE DEF TypeInv, TypeOK, StorageTypeOK, CallersOK, Definitions, jobVars, workerVars, itemVars,
            idVars, timeVars, callerVars, managerVars, poolSide, CallerTo
<1>1. ASSUME NEW d \in Definitions, TimePasses(d) PROVE TypeOK' /\ CallersOK'
  BY <1>1 DEF TimePasses, Occur
<1>2. ASSUME NEW c \in Callers, SetCall(c), UNCHANGED jobVars PROVE TypeOK' /\ CallersOK'
  <2>1. PICK d \in unset : cdef' = [cdef EXCEPT ![c] = d] /\ unset' = unset \ {d}
    BY <1>2 DEF SetCall
  <2>2. d \in Definitions /\ d # NoDef
    BY <2>1, StorageAssumption
  <2>3. cval' \in [Callers -> 0 .. 2^IdBits - 1]
    BY <1>2 DEF SetCall
  <2>4. /\ cpc' \in [Callers -> CallerPC]
        /\ cdef' \in [Callers -> Definitions \cup {NoDef}]
        /\ unset' \subseteq Definitions
    BY <1>2, <2>1, <2>2 DEF SetCall, CallerPC
  <2>5. CallersOK'
    BY <1>2, <2>1, <2>2 DEF SetCall
  <2>6. QED
    BY <1>2, <2>3, <2>4, <2>5 DEF SetCall
<1>3. ASSUME NEW c \in Callers, SetBump(c), UNCHANGED jobVars PROVE TypeOK' /\ CallersOK'
  <2> cval[c] + 1 \in Nat
    BY PowersAssumption
  <2>1. Wrap(cval[c] + 1) \in 0 .. 2^IdBits - 1
    BY WrapTyped
  <2>2. QED
    BY <1>3, <2>1 DEF SetBump, CallerPC
<1>4. ASSUME NEW c \in Callers, SetAdd(c), UNCHANGED jobVars PROVE TypeOK' /\ CallersOK'
  <2> sequence + cval[c] \in Nat
    BY PowersAssumption
  <2>1. Wrap(sequence + cval[c]) \in 0 .. 2^IdBits - 1
    BY WrapTyped
  <2>2. QED
    BY <1>4, <2>1 DEF SetAdd, CallerPC
<1>5. ASSUME NEW c \in Callers, SetTake(c), UNCHANGED jobVars PROVE TypeOK' /\ CallersOK'
  BY <1>5 DEF SetTake, CallerPC
<1>6. ASSUME NEW c \in Callers, SetSchedule(c), UNCHANGED jobVars PROVE TypeOK' /\ CallersOK'
  <2>1. schedules' \subseteq Recurrents
    BY <1>6 DEF SetSchedule
  <2>2. SetReturns(c)
    BY <1>6 DEF SetSchedule
  <2>3. QED
    BY <1>6, <2>1, <2>2, SetReturnsTyped DEF SetSchedule
<1>7. ASSUME NEW c \in Callers, SetCheck(c), UNCHANGED jobVars PROVE TypeOK' /\ CallersOK'
  BY <1>7 DEF SetCheck, CallerPC
<1>8. ASSUME NEW c \in Callers, SetDirect(c), UNCHANGED jobVars PROVE TypeOK' /\ CallersOK'
  <2>1. cdef[c] \in Definitions /\ PoolName[cdef[c]] \in Pools
    BY <1>8, StorageAssumption DEF SetDirect
  <2>2. buffer' \in [Pools -> Seq(Definitions)]
    BY <1>8, <2>1 DEF SetDirect, Buffered
  <2>3. SetReturns(c)
    BY <1>8 DEF SetDirect
  <2>4. QED
    BY <1>8, <2>2, <2>3, SetReturnsTyped DEF SetDirect
<1>9. ASSUME NEW c \in Callers, SetStore(c), UNCHANGED jobVars PROVE TypeOK' /\ CallersOK'
  <2>1. queue' \in Seq(Definitions)
    BY <1>9 DEF SetStore
  <2>2. SetReturns(c)
    BY <1>9 DEF SetStore
  <2>3. QED
    BY <1>9, <2>1, <2>2, SetReturnsTyped DEF SetStore
<1>10. TypeOK' /\ CallersOK'
  BY <1>1, <1>2, <1>3, <1>4, <1>5, <1>6, <1>7, <1>8, <1>9 DEF CallerRuns, SetStep
<1>11. UNCHANGED <<managerVars, workerVars>>
  BY DEF TimePasses, Occur, CallerRuns, SetCall, SetStep, SetBump, SetAdd, SetTake, SetSchedule,
         SetCheck, SetDirect, SetStore
<1>12. QED
  BY <1>10, <1>11 DEF ManagersOK, WorkersOK

(* A pool starts; its manager thread.                                      *)
LEMMA ManagerTyped ==
  ASSUME TypeInv, NEW p \in Pools, (Start(p) /\ UNCHANGED jobVars) \/ ManagerRuns(p)
  PROVE  TypeInv'
<1> USE DEF TypeInv, TypeOK, StorageTypeOK, ManagersOK, Definitions, jobVars, workerVars, itemVars,
            idVars, timeVars, callerVars, managerVars, callerSide, ManagerTo
<1>1. ASSUME Start(p), UNCHANGED jobVars PROVE TypeOK' /\ ManagersOK'
  BY <1>1 DEF Start, ManagerPC
<1>2. ASSUME PeekCall(p), UNCHANGED jobVars PROVE TypeOK' /\ ManagersOK'
  <2>1. BufferLength - Len(buffer[p]) + 1 \in Nat
    BY <1>2, StorageAssumption DEF PeekCall, BufferHasRoom
  <2>2. QED
    BY <1>2, <2>1 DEF PeekCall, ManagerPC
<1>3. ASSUME LockSchedules(p), UNCHANGED jobVars PROVE TypeOK' /\ ManagersOK'
  BY <1>3 DEF LockSchedules, ManagerPC
<1>4. ASSUME CheckSchedule(p), UNCHANGED jobVars PROVE TypeOK' /\ ManagersOK'
  <2> PICK d \in scan[p] : /\ scan' = [scan EXCEPT ![p] = @ \ {d}]
                           /\ IF IsDue(d)
                                THEN /\ found' = [found EXCEPT ![p] = d]
                                     /\ ppc' = [ppc EXCEPT ![p] = "enqueue"]
                                ELSE UNCHANGED <<found, ppc>>
    BY <1>4 DEF CheckSchedule
  <2>1. scan' \in [Pools -> SUBSET Recurrents] /\ d \in Recurrents /\ d # NoDef
    BY StorageAssumption
  <2>2. CASE IsDue(d)
    <3>1. /\ found' = [found EXCEPT ![p] = d]
          /\ ppc' = [ppc EXCEPT ![p] = "enqueue"]
      BY <2>2
    <3>2. found' \in [Pools -> Definitions \cup {NoDef}] /\ ppc' \in [Pools -> ManagerPC]
      BY <2>1, <3>1 DEF ManagerPC
    <3>3. ManagersOK'
      BY <1>4, <2>1, <3>1 DEF CheckSchedule
    <3>4. QED
      BY <1>4, <2>1, <3>2, <3>3 DEF CheckSchedule
  <2>3. CASE ~IsDue(d)
    BY <1>4, <2>1, <2>3 DEF CheckSchedule, ManagerPC
  <2>4. QED
    BY <2>2, <2>3
<1>5. ASSUME EnqueueSchedule(p), UNCHANGED jobVars PROVE TypeOK' /\ ManagersOK'
  <2>1. queue' \in Seq(Definitions)
    BY <1>5 DEF EnqueueSchedule
  <2>2. QED
    BY <1>5, <2>1 DEF EnqueueSchedule, ManagerPC
<1>6. ASSUME UnlockSchedules(p), UNCHANGED jobVars PROVE TypeOK' /\ ManagersOK'
  BY <1>6 DEF UnlockSchedules, ManagerPC
<1>7. ASSUME PeekItem(p), UNCHANGED jobVars PROVE TypeOK' /\ ManagersOK'
  <2>1. Head(queue) \in Definitions /\ Tail(queue) \in Seq(Definitions)
    BY <1>7 DEF PeekItem
  <2>2. QED
    BY <1>7, <2>1, StorageAssumption DEF PeekItem, ManagerPC
<1>8. ASSUME MarkEnqueued(p), UNCHANGED jobVars PROVE TypeOK' /\ ManagersOK'
  <2>1. found[p] \in Definitions
    BY <1>8 DEF MarkEnqueued
  <2>2. peeked' \in [Pools -> Seq(Definitions)]
    BY <1>8, <2>1 DEF MarkEnqueued
  <2>3. status' \in [Recurrents -> Status]
    BY <1>8 DEF MarkEnqueued, Status
  <2>5. room' \in [Pools -> Nat]
    BY <1>8 DEF MarkEnqueued
  <2>4. QED
    BY <1>8, <2>2, <2>3, <2>5 DEF MarkEnqueued, ManagerPC
<1>9. ASSUME PeekReturns(p), UNCHANGED jobVars PROVE TypeOK' /\ ManagersOK'
  BY <1>9 DEF PeekReturns, AfterPeek, ManagerPC
<1>10. ASSUME FillBuffer(p), UNCHANGED jobVars PROVE TypeOK' /\ ManagersOK'
  <2>1. Head(peeked[p]) \in Definitions /\ Tail(peeked[p]) \in Seq(Definitions)
    BY <1>10 DEF FillBuffer
  <2>2. buffer' \in [Pools -> Seq(Definitions)] /\ peeked' \in [Pools -> Seq(Definitions)]
    BY <1>10, <2>1 DEF FillBuffer, Buffered
  <2>3. QED
    BY <1>10, <2>2 DEF FillBuffer, AfterPeek, ManagerPC
<1>11. TypeOK' /\ ManagersOK'
  BY <1>1, <1>2, <1>3, <1>4, <1>5, <1>6, <1>7, <1>8, <1>9, <1>10 DEF ManagerRuns, ManagerStep
<1>12. UNCHANGED <<callerVars, workerVars>>
  BY DEF ManagerRuns, ManagerStep, Start, PeekCall, LockSchedules, CheckSchedule, EnqueueSchedule,
         UnlockSchedules, PeekItem, MarkEnqueued, PeekReturns, FillBuffer
<1>13. QED
  BY <1>11, <1>12 DEF CallersOK, WorkersOK

LEMMA HasDefinition ==
  ASSUME TypeInv, NEW w \in Workers, wpc[w] # "idle"
  PROVE  wdef[w] \in Definitions
  BY DEF TypeInv, TypeOK, WorkersOK

LEMMA GotoTyped ==
  ASSUME TypeInv, NEW w \in Workers, wpc[w] # "idle", NEW label \in WorkerPC, Goto(w, label),
         label \in OnlyRecurrent => wdef[w] \in Recurrents
  PROVE  /\ wpc' \in [Workers -> WorkerPC]
         /\ wdef' \in [Workers -> Definitions \cup {NoDef}]
         /\ WorkersOK'
<1>1. CASE label = "idle"
  BY <1>1 DEF TypeInv, TypeOK, WorkersOK, Goto, OnlyRecurrent
<1>2. CASE label # "idle"
  BY <1>2 DEF TypeInv, TypeOK, WorkersOK, Goto, OnlyRecurrent
<1>3. QED
  BY <1>1, <1>2

LEMMA TargetsPC == Targets \subseteq WorkerPC /\ Targets \cap OnlyRecurrent = {}
  BY DEF Targets, WorkerPC, OnlyRecurrent

LEMMA ReportTyped ==
  ASSUME TypeInv, NEW w \in Workers, wpc[w] # "idle", NEW s \in Status,
         NEW next \in Targets, Report(w, s, next)
  PROVE  /\ status' \in [Recurrents -> Status]
         /\ wpc' \in [Workers -> WorkerPC]
         /\ wdef' \in [Workers -> Definitions \cup {NoDef}]
         /\ wnext' \in [Workers -> Targets]
         /\ WorkersOK'
<1>1. CASE wdef[w] \in Recurrents
  <2>1. Goto(w, "load") /\ "load" \in WorkerPC
    BY <1>1 DEF Report, WorkerPC
  <2>2. status' \in [Recurrents -> Status] /\ wnext' \in [Workers -> Targets]
    BY <1>1 DEF Report, SetStatus, TypeInv, TypeOK, StorageTypeOK
  <2>3. QED
    BY <1>1, <2>1, <2>2, GotoTyped
<1>2. CASE wdef[w] \notin Recurrents
  <2>1. Goto(w, next) /\ UNCHANGED <<status, wnext>>
    BY <1>2 DEF Report
  <2>2. QED
    BY <2>1, GotoTyped, TargetsPC DEF TypeInv, TypeOK, StorageTypeOK
<1>3. QED
  BY <1>1, <1>2

LEMMA ReturnTyped ==
  ASSUME TypeInv, NEW w \in Workers, wpc[w] # "idle", Return(w)
  PROVE  /\ wpc' \in [Workers -> WorkerPC]
         /\ wdef' \in [Workers -> Definitions \cup {NoDef}]
         /\ wnext' \in [Workers -> Targets]
         /\ wseen' \in [Workers -> Status]
         /\ WorkersOK'
<1>1. Goto(w, wnext[w]) /\ wnext[w] \in Targets
  BY DEF Return, TypeInv, TypeOK
<1>2. wnext' \in [Workers -> Targets] /\ wseen' \in [Workers -> Status]
  BY DEF Return, TypeInv, TypeOK, Targets, Status
<1>3. QED
  BY <1>1, <1>2, GotoTyped, TargetsPC

(* A worker.                                                               *)
LEMMA WorkerTyped ==
  ASSUME TypeInv, NEW w \in Workers, WorkerStep(w)
  PROVE  TypeInv'
<1> USE DEF TypeOK, StorageTypeOK, workerVars, itemVars, idVars, timeVars,
            callerVars, managerVars, notStatus, offHistory, storageVars
<1> TypeOK
  BY DEF TypeInv
<1> DEFINE Wanted == TypeOK' /\ WorkersOK'
<1>1. ASSUME TakeWorkItem(w) PROVE Wanted
  <2>1. PoolOf[w] \in Pools /\ NoDef \notin Definitions
    BY WorkersAssumption, StorageAssumption DEF Definitions
  <2>2. buffer[PoolOf[w]] \in Seq(Definitions) /\ buffer[PoolOf[w]] # <<>>
    BY <1>1, <2>1 DEF TakeWorkItem
  <2>3. Head(buffer[PoolOf[w]]) \in Definitions /\ Tail(buffer[PoolOf[w]]) \in Seq(Definitions)
    BY <2>2
  <2>4. buffer' \in [Pools -> Seq(Definitions)]
    BY <1>1, <2>1, <2>3 DEF TakeWorkItem, Dequeued
  <2>5. WorkersOK'
    BY <1>1, <2>1, <2>3 DEF TakeWorkItem, TypeInv, WorkersOK, OnlyRecurrent
  <2>6. QED
    BY <1>1, <2>3, <2>4, <2>5 DEF TakeWorkItem, WorkerPC
<1>2. ASSUME ExecuteStart(w) PROVE Wanted
  <2>1. retryCount' \in [Definitions -> 0 .. FailureRetryCount]
    BY <1>2, HasDefinition, WorkersAssumption DEF ExecuteStart
  <2>2. owed' \in [Recurrents -> BOOLEAN]
    <3>1. owed' = [e \in Recurrents |-> e # wdef[w] /\ owed[e]]
      BY <1>2 DEF ExecuteStart
    <3>2. \A e \in Recurrents : (e # wdef[w] /\ owed[e]) \in BOOLEAN
      BY Zenon
    <3>3. QED
      BY <3>1, <3>2
  <2>3. "Processing" \in Status /\ "run" \in Targets
    BY DEF Status, Targets
  <2>4. QED
    BY <1>2, <2>1, <2>2, <2>3, ReportTyped DEF ExecuteStart
<1>3. ASSUME ExecuteComplete(w) PROVE Wanted
  <2>1. wpc[w] # "idle" /\ ended' \subseteq Singles
    BY <1>3 DEF ExecuteComplete
  <2>2. "Completed" \in Status /\ "idle" \in Targets
    BY DEF Status, Targets
  <2>3. QED
    BY <1>3, <2>1, <2>2, ReportTyped DEF ExecuteComplete
<1>4. ASSUME CleanQueue(w) PROVE Wanted
  <2>1. wpc[w] # "idle" /\ wdef[w] \in Recurrents
    BY <1>4, WorkersAssumption, HasDefinition, StorageAssumption DEF CleanQueue
  <2>2. queue' \in Seq(Definitions) /\ ended' \subseteq Singles
    BY <1>4 DEF CleanQueue
  <2>3. Goto(w, "clean2") /\ "clean2" \in WorkerPC
    BY <1>4 DEF CleanQueue, WorkerPC
  <2>4. QED
    BY <1>4, <2>1, <2>2, <2>3, GotoTyped DEF CleanQueue
<1>5. ASSUME CleanRegistered(w) PROVE Wanted
  <2>1. wpc[w] # "idle" /\ wdef[w] \in Recurrents
    BY <1>5 DEF CleanRegistered, TypeInv, WorkersOK, OnlyRecurrent
  <2>2. Goto(w, "clean3") /\ "clean3" \in WorkerPC
    BY <1>5 DEF CleanRegistered, WorkerPC
  <2>3. QED
    BY <1>5, <2>1, <2>2, GotoTyped DEF CleanRegistered
<1>6. ASSUME CleanSchedules(w) PROVE Wanted
  <2>1. wpc[w] # "idle" /\ wdef[w] \in Recurrents
    BY <1>6 DEF CleanSchedules, TypeInv, WorkersOK, OnlyRecurrent
  <2>2. Goto(w, "done") /\ "done" \in WorkerPC
    BY <1>6 DEF CleanSchedules, WorkerPC
  <2>3. QED
    BY <1>6, <2>1, <2>2, GotoTyped DEF CleanSchedules, Cleaned
<1>7. ASSUME ExecuteFail(w) PROVE Wanted
  <2>1. "Fail" \in Status /\ "fail" \in Targets
    BY DEF Status, Targets
  <2>2. QED
    BY <1>7, <2>1, ReportTyped DEF ExecuteFail
<1>8. ASSUME FailAgain(w) PROVE Wanted
  <2>1. "Fail" \in Status /\ "filter" \in Targets
    BY DEF Status, Targets
  <2>2. overtaken' \in BOOLEAN
    BY <1>8, Zenon DEF FailAgain, NoteSecondCopy
  <2>3. QED
    BY <1>8, <2>1, <2>2, ReportTyped DEF FailAgain
<1>8a. ASSUME DoFail(w) PROVE Wanted
  <2>1. "Fail" \in Status /\ "policy" \in Targets
    BY DEF Status, Targets
  <2>2. overtaken' \in BOOLEAN
    BY <1>8a, Zenon DEF DoFail, NoteSecondCopy
  <2>3. QED
    BY <1>8a, <2>1, <2>2, ReportTyped DEF DoFail
<1>9. ASSUME ApplyPolicy(w) PROVE Wanted
  <2>1. "Enqueuing" \in Status /\ "delay" \in Targets
    BY DEF Status, Targets
  <2>2. CASE Report(w, "Enqueuing", "delay") /\ NoteSecondCopy(wdef[w]) /\ UNCHANGED ended
    <3>1. overtaken' \in BOOLEAN
      BY <2>2, Zenon DEF NoteSecondCopy
    <3>2. QED
      BY <1>9, <2>1, <2>2, <3>1, ReportTyped DEF ApplyPolicy
  <2>3. CASE /\ Goto(w, "idle")
             /\ ended' = ended \cup ({wdef[w]} \cap Singles)
             /\ UNCHANGED <<status, wnext, overtaken>>
    <3>1. "idle" \in WorkerPC \ OnlyRecurrent
      BY DEF WorkerPC, Targets, OnlyRecurrent
    <3>2. QED
      BY <1>9, <2>3, <3>1, GotoTyped DEF ApplyPolicy
  <2>4. QED
    BY <1>9, <2>2, <2>3 DEF ApplyPolicy
<1>10. ASSUME EndDelay(w) PROVE Wanted
  <2>1. "Enqueued" \in Status /\ "requeue" \in Targets
    BY DEF Status, Targets
  <2>2. QED
    BY <1>10, <2>1, ReportTyped DEF EndDelay
<1>11. ASSUME Requeue(w) PROVE Wanted
  <2>1. wdef[w] \in Definitions /\ PoolOf[w] \in Pools
    BY <1>11, HasDefinition, WorkersAssumption DEF Requeue
  <2>2. buffer' \in [Pools -> Seq(Definitions)]
    BY <1>11, <2>1 DEF Requeue, Buffered
  <2>3. "idle" \in WorkerPC \ OnlyRecurrent
    BY DEF WorkerPC, Targets, OnlyRecurrent
  <2>4. QED
    BY <1>11, <2>2, <2>3, GotoTyped DEF Requeue
<1>12. ASSUME UpdateLoad(w) PROVE Wanted
  <2>1. wpc[w] # "idle" /\ wdef[w] \in Recurrents
    BY <1>12 DEF UpdateLoad, TypeInv, WorkersOK, OnlyRecurrent
  <2>2. CASE wdef[w] \in schedules
    <3>1. Goto(w, "save") /\ "save" \in WorkerPC
      BY <1>12, <2>2 DEF UpdateLoad, WorkerPC
    <3>2. wseen' \in [Workers -> Status] /\ crashed' = crashed
      BY <1>12, <2>1, <2>2 DEF UpdateLoad
    <3>3. QED
      BY <1>12, <2>1, <3>1, <3>2, GotoTyped DEF UpdateLoad
  <2>3. CASE wdef[w] \notin schedules
    <3>1. crashed' = TRUE /\ UNCHANGED <<wseen, wpc, wdef>>
      BY <1>12, <2>3 DEF UpdateLoad
    <3>2. WorkersOK'
      BY <3>1 DEF TypeInv, WorkersOK
    <3>3. QED
      BY <1>12, <3>1, <3>2 DEF UpdateLoad
  <2>4. QED
    BY <2>2, <2>3
<1>13. ASSUME UpdateSave(w) PROVE Wanted
  <2>1. wpc[w] # "idle" /\ wdef[w] \in Recurrents
    BY <1>13 DEF UpdateSave, TypeInv, WorkersOK, OnlyRecurrent
  <2>2. Goto(w, "next") /\ "next" \in WorkerPC
    BY <1>13 DEF UpdateSave, WorkerPC
  <2>3. status' \in [Recurrents -> Status]
    BY <1>13, <2>1 DEF UpdateSave, SetStatus
  <2>4. QED
    BY <1>13, <2>1, <2>2, <2>3, GotoTyped DEF UpdateSave
<1>14. ASSUME UpdateNext(w) PROVE Wanted
  <2>1. wpc[w] # "idle" /\ wdef[w] \in Recurrents
    BY <1>14 DEF UpdateNext, TypeInv, WorkersOK, OnlyRecurrent
  <2>2. Goto(w, "check") /\ "check" \in WorkerPC
    BY <1>14 DEF UpdateNext, WorkerPC
  <2>3. due' \in [Definitions -> BOOLEAN]
    BY <1>14 DEF UpdateNext, NextRun
  <2>4. QED
    BY <1>14, <2>1, <2>2, <2>3, GotoTyped DEF UpdateNext
<1>15. ASSUME UpdateCheck(w) PROVE Wanted
  <2>1. wpc[w] # "idle" /\ wdef[w] \in Recurrents
    BY <1>15 DEF UpdateCheck, TypeInv, WorkersOK, OnlyRecurrent
  <2>2. CASE IsOver(status[wdef[w]])
    <3>1. Goto(w, "reset") /\ "reset" \in WorkerPC /\ UNCHANGED <<wnext, wseen>>
      BY <1>15, <2>2 DEF UpdateCheck, WorkerPC
    <3>2. QED
      BY <1>15, <2>1, <3>1, GotoTyped DEF UpdateCheck
  <2>3. CASE ~IsOver(status[wdef[w]])
    BY <1>15, <2>1, <2>3, ReturnTyped DEF UpdateCheck
  <2>4. QED
    BY <2>2, <2>3
<1>16. ASSUME UpdateReset(w) PROVE Wanted
  <2>1. wpc[w] # "idle" /\ Return(w)
    BY <1>16 DEF UpdateReset
  <2>2. status' \in [Recurrents -> Status]
    BY <1>16 DEF UpdateReset, SetStatus, Status
  <2>3. QED
    BY <1>16, <2>1, <2>2, ReturnTyped DEF UpdateReset
<1>17. Wanted
  BY <1>1, <1>2, <1>3, <1>4, <1>5, <1>6, <1>7, <1>8, <1>8a, <1>9, <1>10, <1>11, <1>12, <1>13, <1>14,
     <1>15, <1>16 DEF WorkerStep, UpdateStatus
<1>18. UNCHANGED <<callerVars, managerVars>>
  BY DEF WorkerStep, UpdateStatus, TakeWorkItem, ExecuteStart, ExecuteComplete, CleanQueue,
         CleanRegistered, CleanSchedules, ExecuteFail, FailAgain, DoFail, ApplyPolicy, EndDelay, Requeue,
         UpdateLoad, UpdateSave, UpdateNext, UpdateCheck, UpdateReset
<1>19. QED
  BY <1>17, <1>18 DEF TypeInv, CallersOK, ManagersOK

LEMMA NextTyped == TypeInv /\ [Next]_vars => TypeInv'
<1> SUFFICES ASSUME TypeInv, [Next]_vars PROVE TypeInv'
  OBVIOUS
<1>1. CASE UNCHANGED vars
  BY <1>1 DEF vars, storageVars, workerVars, itemVars, idVars, timeVars, callerVars, managerVars,
              TypeInv, TypeOK, StorageTypeOK, CallersOK, ManagersOK, WorkersOK
<1>2. QED
  BY <1>1, CallerTyped, ManagerTyped, WorkerTyped DEF Next

(* Every variable keeps its type: the sequence its width, the tries their  *)
(* bound, and nothing but definitions is in queues and hands.              *)
THEOREM StorageTypeCorrect == Spec => []TypeOK
<1>1. TypeInv => TypeOK
  BY DEF TypeInv
<1>2. QED
  BY <1>1, InitTyped, NextTyped, PTL DEF Spec
-----------------------------------------------------------------------------
(* Where a definition is.                                                  *)

Has(s, d) == \E k \in DOMAIN s : s[k] = d
Once(s, d) == \A j, k \in DOMAIN s : s[j] = d /\ s[k] = d => j = k

Owners == {NoDef} \cup Callers \cup Pools \cup Workers

(* The references to d outside workers are one, in a place of this kind,   *)
(* with this owner; none at all if the kind is not one of the four.        *)
Stored(d, kind, o) ==
  /\ Has(queue, d) <=> kind = "queue"
  /\ Once(queue, d)
  /\ \A p \in Pools : /\ Has(peeked[p], d) <=> (kind = "peeked" /\ o = p)
                      /\ Has(buffer[p], d) <=> (kind = "buffer" /\ o = p)
                      /\ found[p] = d <=> (kind = "manager" /\ o = p)
                      /\ Once(peeked[p], d) /\ Once(buffer[p], d)
  /\ kind \in {"peeked", "buffer", "manager"} => o \in Pools

(* So are all its copies.                                                  *)
Held(d, kind, o) ==
  /\ Stored(d, kind, o)
  /\ \A w \in Workers : wdef[w] = d <=> (kind = "worker" /\ o = w)
  /\ kind = "worker" => o \in Workers

Carriers == {"queue", "peeked", "buffer", "manager", "worker"}

(* A single run is nowhere before Set is called and when its life is over. *)
Placed(d, kind, o) ==
  /\ Held(d, kind, o)
  /\ d \in unset <=> kind = "unset"
  /\ \A c \in Callers : cdef[c] = d <=> (kind = "caller" /\ o = c)
  /\ d \in ended <=> kind = "ended"
  /\ kind = "caller" => o \in Callers

SinglesPlaced ==
  \A d \in Singles : \E kind \in Carriers \cup {"unset", "caller", "ended"}, o \in Owners :
    Placed(d, kind, o)

(* One manager at a time walks over the schedules.                         *)
Scanning(p) == ppc[p] \in {"scan", "enqueue"}
ScanLocked ==
  \A p \in Pools : /\ scan[p] # {} => Scanning(p)
                   /\ \A q \in Pools : Scanning(p) /\ Scanning(q) => p = q

(* The worker that has d, as far as it is with its UpdateStatus.           *)
Updating(d, w) ==
  /\ wpc[w] \in {"got", "run"} \cup OnlyRecurrent
  /\ wpc[w] = "got" => owed[d]
  /\ wpc[w] \in {"load", "save", "next", "check"} =>
       \/ status[d] = "Processing" /\ wnext[w] = "run"
       \/ status[d] = "Completed" /\ wnext[w] = "idle"
  /\ wpc[w] = "save" => wseen[w] = status[d]
  /\ wpc[w] = "reset" => wnext[w] = "idle"
  /\ wpc[w] \in {"check", "reset"} /\ due[d] => owed[d]

(* What the status and the times of a recurrent job say of its copy.       *)
Fits(d, kind, o) ==
  /\ kind \in {"queue", "manager"} => \A p \in Pools : d \notin scan[p]
  /\ kind \in {"peeked", "buffer", "worker"} => status[d] # "WaitingProcess"
  /\ kind = "worker" => Updating(d, o)
  /\ kind \in {"queue", "manager", "peeked", "buffer"} => owed[d]
  /\ kind = "none" /\ due[d] => owed[d]

RecurrentsPlaced ==
  ~overtaken =>
    \A d \in Recurrents \ Failing : \E kind \in Carriers \cup {"none"}, o \in Owners :
      Held(d, kind, o) /\ Fits(d, kind, o)

LEMMA AppendPlaces ==
  ASSUME NEW s \in Seq(Definitions), NEW e \in Definitions, NEW d
  PROVE  /\ Has(Append(s, e), d) <=> Has(s, d) \/ d = e
         /\ Once(s, d) /\ (d = e => ~Has(s, d)) => Once(Append(s, e), d)
<1>1. /\ DOMAIN s = 1 .. Len(s) /\ DOMAIN Append(s, e) = 1 .. Len(s) + 1
      /\ Append(s, e)[Len(s) + 1] = e
      /\ \A k \in 1 .. Len(s) : Append(s, e)[k] = s[k]
      /\ Len(s) \in Nat
  OBVIOUS
<1>2. Has(Append(s, e), d) <=> Has(s, d) \/ d = e
  <2>1. ASSUME Has(Append(s, e), d) PROVE Has(s, d) \/ d = e
    BY <1>1, <2>1 DEF Has
  <2>2. ASSUME Has(s, d) \/ d = e PROVE Has(Append(s, e), d)
    BY <1>1, <2>2 DEF Has
  <2>3. QED
    BY <2>1, <2>2
<1>3. ASSUME Once(s, d), d = e => ~Has(s, d) PROVE Once(Append(s, e), d)
  BY <1>1, <1>3 DEF Has, Once
<1>4. QED
  BY <1>2, <1>3

LEMMA TailPlaces ==
  ASSUME NEW s \in Seq(Definitions), s # <<>>, NEW d, Once(s, d)
  PROVE  /\ Has(s, Head(s))
         /\ Has(Tail(s), d) <=> Has(s, d) /\ d # Head(s)
         /\ Once(Tail(s), d)
<1>1. /\ Len(s) \in Nat \ {0} /\ Head(s) = s[1]
      /\ DOMAIN s = 1 .. Len(s) /\ DOMAIN Tail(s) = 1 .. Len(s) - 1
      /\ \A k \in 1 .. Len(s) - 1 : Tail(s)[k] = s[k + 1]
  OBVIOUS
<1>2. Has(s, Head(s))
  BY <1>1 DEF Has
<1>3. ASSUME Has(Tail(s), d) PROVE Has(s, d) /\ d # Head(s)
  <2>1. PICK k \in 1 .. Len(s) - 1 : Tail(s)[k] = d
    BY <1>1, <1>3 DEF Has
  <2>2. k + 1 \in DOMAIN s /\ 1 \in DOMAIN s /\ s[k + 1] = d /\ k + 1 # 1
    BY <1>1, <2>1
  <2>3. QED
    BY <1>1, <2>2 DEF Has, Once
<1>4. ASSUME Has(s, d), d # Head(s) PROVE Has(Tail(s), d)
  <2>1. PICK k \in 1 .. Len(s) : s[k] = d /\ k # 1
    BY <1>1, <1>4 DEF Has
  <2>2. k - 1 \in 1 .. Len(s) - 1 /\ Tail(s)[k - 1] = d
    BY <1>1, <2>1
  <2>3. QED
    BY <1>1, <2>2 DEF Has
<1>5. Once(Tail(s), d)
  <2> SUFFICES ASSUME NEW j \in 1 .. Len(s) - 1, NEW k \in 1 .. Len(s) - 1,
                      Tail(s)[j] = d, Tail(s)[k] = d
               PROVE  j = k
    BY <1>1 DEF Once
  <2>1. j + 1 \in DOMAIN s /\ k + 1 \in DOMAIN s /\ s[j + 1] = d /\ s[k + 1] = d
    BY <1>1
  <2>2. j + 1 = k + 1
    BY <2>1 DEF Once
  <2>3. QED
    BY <2>2
<1>6. QED
  BY <1>2, <1>3, <1>4, <1>5

-----------------------------------------------------------------------------
(* How a reference moves.                                                  *)

LEMMA HeldUnmoved ==
  ASSUME NEW d, NEW kind, NEW o, Held(d, kind, o), UNCHANGED <<queue, peeked, buffer, found, wdef>>
  PROVE  Held(d, kind, o)'
  BY DEF Held, Stored

LEMMA StoredBySetDirect ==
  ASSUME TypeInv, NEW c \in Callers, SetDirect(c), UNCHANGED jobVars, NEW d, NEW kind, NEW o,
         Stored(d, kind, o), d = cdef[c] => kind \notin Carriers
  PROVE  IF d = cdef[c] THEN Stored(d, "buffer", PoolName[d])' ELSE Stored(d, kind, o)'
<1> DEFINE p == PoolName[cdef[c]]
<1>1. cdef[c] \in Definitions /\ p \in Pools
  BY StorageAssumption DEF SetDirect, TypeInv, TypeOK, StorageTypeOK, CallersOK
<1>2. /\ buffer[p] \in Seq(Definitions)
      /\ buffer' = [buffer EXCEPT ![p] = Append(buffer[p], cdef[c])]
      /\ buffer \in [Pools -> Seq(Definitions)]
      /\ UNCHANGED <<queue, peeked, found, wdef>>
  BY <1>1 DEF SetDirect, Buffered, TypeInv, TypeOK, StorageTypeOK, managerVars, jobVars, workerVars
<1>3. CASE d = cdef[c]
  <2>1. ~Has(queue, d) /\ \A q \in Pools : ~Has(peeked[q], d) /\ ~Has(buffer[q], d) /\ found[q] # d
    BY <1>3 DEF Stored, Carriers
  <2>2. Has(buffer'[p], d) /\ Once(buffer'[p], d)
    BY <1>1, <1>2, <1>3, <2>1, AppendPlaces DEF Stored
  <2>3. \A q \in Pools \ {p} : buffer'[q] = buffer[q]
    BY <1>2
  <2>4. QED
    BY <1>1, <1>2, <1>3, <2>1, <2>2, <2>3 DEF Stored
<1>4. CASE d # cdef[c]
  <2>1. /\ Has(buffer'[p], d) <=> Has(buffer[p], d)
        /\ Once(buffer'[p], d)
    BY <1>1, <1>2, <1>4, AppendPlaces DEF Stored
  <2>2. \A q \in Pools \ {p} : buffer'[q] = buffer[q]
    BY <1>2
  <2>3. QED
    BY <1>2, <1>4, <2>1, <2>2 DEF Stored
<1>5. QED
  BY <1>3, <1>4

LEMMA HeldBySetDirect ==
  ASSUME TypeInv, NEW c \in Callers, SetDirect(c), UNCHANGED jobVars, NEW d, NEW kind, NEW o,
         Held(d, kind, o), d = cdef[c] => kind \notin Carriers
  PROVE  IF d = cdef[c] THEN Held(d, "buffer", PoolName[d])' ELSE Held(d, kind, o)'
<1>1. wdef' = wdef
  BY DEF SetDirect, jobVars, workerVars
<1>2. QED
  BY <1>1, StoredBySetDirect DEF Held, Carriers

LEMMA StoredBySetStore ==
  ASSUME TypeInv, NEW c \in Callers, SetStore(c), UNCHANGED jobVars, NEW d, NEW kind, NEW o,
         Stored(d, kind, o), d = cdef[c] => kind \notin Carriers
  PROVE  IF d = cdef[c] THEN Stored(d, "queue", NoDef)' ELSE Stored(d, kind, o)'
<1>1. cdef[c] \in Definitions /\ queue \in Seq(Definitions)
  BY DEF SetStore, TypeInv, TypeOK, StorageTypeOK, CallersOK
<1>2. queue' = Append(queue, cdef[c]) /\ UNCHANGED <<buffer, peeked, found, wdef>>
  BY DEF SetStore, managerVars, jobVars, workerVars
<1>3. /\ Has(queue', d) <=> Has(queue, d) \/ d = cdef[c]
      /\ Once(queue', d)
  BY <1>1, <1>2, AppendPlaces DEF Stored, Carriers
<1>4. QED
  BY <1>2, <1>3 DEF Stored, Carriers

LEMMA HeldBySetStore ==
  ASSUME TypeInv, NEW c \in Callers, SetStore(c), UNCHANGED jobVars, NEW d, NEW kind, NEW o,
         Held(d, kind, o), d = cdef[c] => kind \notin Carriers
  PROVE  IF d = cdef[c] THEN Held(d, "queue", NoDef)' ELSE Held(d, kind, o)'
<1>1. wdef' = wdef
  BY DEF SetStore, jobVars, workerVars
<1>2. QED
  BY <1>1, StoredBySetStore DEF Held, Carriers

LEMMA StoredByCheckSchedule ==
  ASSUME TypeInv, NEW p \in Pools, ppc[p] = "scan", NEW m \in Recurrents,
         found' = [found EXCEPT ![p] = m], UNCHANGED <<queue, peeked, buffer, wdef>>,
         NEW d, NEW kind, NEW o, Stored(d, kind, o), d = m => kind \notin Carriers, d # NoDef
  PROVE  IF d = m THEN Stored(d, "manager", p)' ELSE Stored(d, kind, o)'
<1>1. found[p] = NoDef /\ DOMAIN found = Pools
  BY DEF TypeInv, TypeOK, StorageTypeOK, ManagersOK
<1>2. \A q \in Pools : found'[q] = d <=> IF q = p THEN d = m ELSE found[q] = d
  BY <1>1
<1>3. QED
  BY <1>1, <1>2 DEF Stored, Carriers

LEMMA HeldByCheckSchedule ==
  ASSUME TypeInv, NEW p \in Pools, ppc[p] = "scan", NEW m \in Recurrents,
         found' = [found EXCEPT ![p] = m], UNCHANGED <<queue, peeked, buffer, wdef>>,
         NEW d, NEW kind, NEW o, Held(d, kind, o), d = m => kind \notin Carriers, d # NoDef
  PROVE  IF d = m THEN Held(d, "manager", p)' ELSE Held(d, kind, o)'
  BY StoredByCheckSchedule DEF Held, Carriers

LEMMA StoredByEnqueueSchedule ==
  ASSUME TypeInv, NEW p \in Pools, EnqueueSchedule(p), UNCHANGED jobVars,
         NEW d, NEW kind, NEW o, Stored(d, kind, o), d # NoDef
  PROVE  IF d = found[p] THEN kind = "manager" /\ o = p /\ Stored(d, "queue", NoDef)'
                         ELSE Stored(d, kind, o)'
<1>1. found[p] \in Definitions /\ queue \in Seq(Definitions) /\ DOMAIN found = Pools
  BY DEF EnqueueSchedule, TypeInv, TypeOK, StorageTypeOK, ManagersOK
<1>2. /\ queue' = Append(queue, found[p]) /\ found' = [found EXCEPT ![p] = NoDef]
      /\ UNCHANGED <<buffer, peeked, wdef>>
  BY DEF EnqueueSchedule, jobVars, workerVars
<1>3. d = found[p] => kind = "manager" /\ o = p
  BY DEF Stored
<1>4. /\ Has(queue', d) <=> Has(queue, d) \/ d = found[p]
      /\ Once(queue', d)
  BY <1>1, <1>2, <1>3, AppendPlaces DEF Stored
<1>5. \A q \in Pools : found'[q] = d <=> q # p /\ found[q] = d
  BY <1>1, <1>2
<1>6. QED
  BY <1>2, <1>3, <1>4, <1>5 DEF Stored

LEMMA HeldByEnqueueSchedule ==
  ASSUME TypeInv, NEW p \in Pools, EnqueueSchedule(p), UNCHANGED jobVars,
         NEW d, NEW kind, NEW o, Held(d, kind, o), d # NoDef
  PROVE  IF d = found[p] THEN kind = "manager" /\ o = p /\ Held(d, "queue", NoDef)'
                         ELSE Held(d, kind, o)'
<1>1. wdef' = wdef
  BY DEF EnqueueSchedule, jobVars, workerVars
<1>2. QED
  BY <1>1, StoredByEnqueueSchedule DEF Held, Carriers

LEMMA StoredByPeekItem ==
  ASSUME TypeInv, NEW p \in Pools, PeekItem(p), UNCHANGED jobVars,
         NEW d, NEW kind, NEW o, Stored(d, kind, o), d # NoDef
  PROVE  /\ found'[p] = Head(queue)
         /\ IF d = Head(queue) THEN kind = "queue" /\ Stored(d, "manager", p)'
                               ELSE Stored(d, kind, o)'
<1>1. /\ queue \in Seq(Definitions) /\ queue # <<>> /\ DOMAIN found = Pools
      /\ found[p] = NoDef
  BY DEF PeekItem, TypeInv, TypeOK, StorageTypeOK, ManagersOK
<1>2. /\ queue' = Tail(queue) /\ found' = [found EXCEPT ![p] = Head(queue)]
      /\ UNCHANGED <<buffer, peeked, wdef>>
  BY DEF PeekItem, jobVars, workerVars
<1>3. /\ Has(queue, Head(queue))
      /\ Has(queue', d) <=> Has(queue, d) /\ d # Head(queue)
      /\ Once(queue', d)
  BY <1>1, <1>2, TailPlaces DEF Stored
<1>4. \A q \in Pools : found'[q] = d <=> IF q = p THEN d = Head(queue) ELSE found[q] = d
  BY <1>1, <1>2
<1>5. QED
  BY <1>1, <1>2, <1>3, <1>4 DEF Stored

LEMMA HeldByPeekItem ==
  ASSUME TypeInv, NEW p \in Pools, PeekItem(p), UNCHANGED jobVars,
         NEW d, NEW kind, NEW o, Held(d, kind, o), d # NoDef
  PROVE  /\ found'[p] = Head(queue)
         /\ IF d = Head(queue) THEN kind = "queue" /\ Held(d, "manager", p)'
                               ELSE Held(d, kind, o)'
<1>1. wdef' = wdef
  BY DEF PeekItem, jobVars, workerVars
<1>2. QED
  BY <1>1, StoredByPeekItem DEF Held, Carriers

LEMMA StoredByMarkEnqueued ==
  ASSUME TypeInv, NEW p \in Pools, MarkEnqueued(p), UNCHANGED jobVars,
         NEW d, NEW kind, NEW o, Stored(d, kind, o), d # NoDef
  PROVE  IF d = found[p] THEN kind = "manager" /\ o = p /\ Stored(d, "peeked", p)'
                         ELSE Stored(d, kind, o)'
<1>1. /\ found[p] \in Definitions /\ peeked[p] \in Seq(Definitions) /\ DOMAIN found = Pools
      /\ DOMAIN peeked = Pools
  BY DEF MarkEnqueued, TypeInv, TypeOK, StorageTypeOK, ManagersOK
<1>2. /\ peeked' = [peeked EXCEPT ![p] = Append(@, found[p])]
      /\ found' = [found EXCEPT ![p] = NoDef]
      /\ UNCHANGED <<buffer, queue, wdef>>
  BY DEF MarkEnqueued, jobVars, workerVars
<1>3. d = found[p] => kind = "manager" /\ o = p
  BY DEF Stored
<1>4. /\ Has(peeked'[p], d) <=> Has(peeked[p], d) \/ d = found[p]
      /\ Once(peeked'[p], d)
  BY <1>1, <1>2, <1>3, AppendPlaces DEF Stored
<1>5. \A q \in Pools : /\ found'[q] = d <=> q # p /\ found[q] = d
                       /\ q # p => peeked'[q] = peeked[q]
  BY <1>1, <1>2
<1>6. QED
  BY <1>2, <1>3, <1>4, <1>5 DEF Stored

LEMMA HeldByMarkEnqueued ==
  ASSUME TypeInv, NEW p \in Pools, MarkEnqueued(p), UNCHANGED jobVars,
         NEW d, NEW kind, NEW o, Held(d, kind, o), d # NoDef
  PROVE  IF d = found[p] THEN kind = "manager" /\ o = p /\ Held(d, "peeked", p)'
                         ELSE Held(d, kind, o)'
<1>1. wdef' = wdef
  BY DEF MarkEnqueued, jobVars, workerVars
<1>2. QED
  BY <1>1, StoredByMarkEnqueued DEF Held, Carriers

LEMMA StoredByFillBuffer ==
  ASSUME TypeInv, NEW p \in Pools, FillBuffer(p), UNCHANGED jobVars,
         NEW d, NEW kind, NEW o, Stored(d, kind, o)
  PROVE  IF d = Head(peeked[p]) THEN kind = "peeked" /\ o = p /\ Stored(d, "buffer", p)'
                                ELSE Stored(d, kind, o)'
<1> PICK m : m = Head(peeked[p])
  OBVIOUS
<1>1. /\ peeked[p] \in Seq(Definitions) /\ peeked[p] # <<>> /\ DOMAIN peeked = Pools
      /\ buffer[p] \in Seq(Definitions) /\ DOMAIN buffer = Pools
  BY DEF FillBuffer, TypeInv, TypeOK, StorageTypeOK, ManagersOK
<1>2. /\ peeked' = [peeked EXCEPT ![p] = Tail(@)]
      /\ buffer' = [buffer EXCEPT ![p] = Append(@, m)]
      /\ UNCHANGED <<found, queue, wdef>>
  BY DEF FillBuffer, Buffered, jobVars, workerVars
<1>3. /\ Has(peeked[p], m)
      /\ Has(peeked'[p], d) <=> Has(peeked[p], d) /\ d # m
      /\ Once(peeked'[p], d)
  BY <1>1, <1>2, TailPlaces DEF Stored
<1>4. d = m => kind = "peeked" /\ o = p
  BY <1>3 DEF Stored
<1>5. m \in Definitions
  BY <1>1
<1>6. /\ Has(buffer'[p], d) <=> Has(buffer[p], d) \/ d = m
      /\ Once(buffer'[p], d)
  BY <1>1, <1>2, <1>4, <1>5, AppendPlaces DEF Stored
<1>7. /\ \A q \in Pools \ {p} : buffer'[q] = buffer[q] /\ peeked'[q] = peeked[q]
      /\ UNCHANGED <<found, queue, wdef>>
  BY <1>1, <1>2
<1>8. CASE d = m
  BY <1>3, <1>4, <1>6, <1>7, <1>8 DEF Stored
<1>9. CASE d # m
  BY <1>3, <1>6, <1>7, <1>9 DEF Stored
<1>10. QED
  BY <1>4, <1>8, <1>9

LEMMA HeldByFillBuffer ==
  ASSUME TypeInv, NEW p \in Pools, FillBuffer(p), UNCHANGED jobVars,
         NEW d, NEW kind, NEW o, Held(d, kind, o)
  PROVE  IF d = Head(peeked[p]) THEN kind = "peeked" /\ o = p /\ Held(d, "buffer", p)'
                                ELSE Held(d, kind, o)'
<1>1. wdef' = wdef
  BY DEF FillBuffer, jobVars, workerVars
<1>2. QED
  BY <1>1, StoredByFillBuffer DEF Held, Carriers

LEMMA StoredByTakeWorkItem ==
  ASSUME TypeInv, NEW w \in Workers, TakeWorkItem(w), NEW d, NEW kind, NEW o, Stored(d, kind, o)
  PROVE  IF d = Head(buffer[PoolOf[w]])
           THEN kind = "buffer" /\ o = PoolOf[w] /\ Stored(d, "worker", w)'
           ELSE Stored(d, kind, o)'
<1> PICK p \in Pools : p = PoolOf[w]
  BY WorkersAssumption
<1> PICK m : m = Head(buffer[p])
  OBVIOUS
<1>1. /\ buffer[p] \in Seq(Definitions) /\ buffer[p] # <<>> /\ DOMAIN buffer = Pools
      /\ buffer' = [buffer EXCEPT ![p] = Tail(@)]
  BY DEF TakeWorkItem, Dequeued, TypeInv, TypeOK, StorageTypeOK
<1>2. /\ Has(buffer[p], m)
      /\ Has(buffer'[p], d) <=> Has(buffer[p], d) /\ d # m
      /\ Once(buffer'[p], d)
  BY <1>1, TailPlaces DEF Stored
<1>3. /\ \A q \in Pools \ {p} : buffer'[q] = buffer[q]
      /\ UNCHANGED <<found, queue, peeked>>
  BY <1>1 DEF TakeWorkItem, managerVars
<1>4. d = m => kind = "buffer" /\ o = p
  BY <1>2 DEF Stored
<1>5. ASSUME d = m PROVE Stored(d, "worker", w)'
  BY <1>2, <1>3, <1>4, <1>5 DEF Stored
<1>6. ASSUME d # m PROVE Stored(d, kind, o)'
  <2>1. \A q \in Pools : /\ Has(buffer'[q], d) <=> Has(buffer[q], d)
                         /\ Once(buffer'[q], d)
    BY <1>2, <1>3, <1>6 DEF Stored
  <2>2. QED
    BY <1>3, <1>6, <2>1 DEF Stored
<1>7. QED
  BY <1>4, <1>5, <1>6

LEMMA HeldByTakeWorkItem ==
  ASSUME TypeInv, NEW w \in Workers, TakeWorkItem(w),
         NEW d, NEW kind, NEW o, Held(d, kind, o), d # NoDef
  PROVE  IF d = Head(buffer[PoolOf[w]])
           THEN kind = "buffer" /\ o = PoolOf[w] /\ Held(d, "worker", w)'
           ELSE Held(d, kind, o)'
<1> PICK m : m = Head(buffer[PoolOf[w]])
  OBVIOUS
<1>1. wdef[w] = NoDef /\ DOMAIN wdef = Workers /\ wdef' = [wdef EXCEPT ![w] = m]
  BY DEF TakeWorkItem, TypeInv, TypeOK, WorkersOK
<1>2. wdef[w] # d /\ \A v \in Workers : wdef'[v] = d <=> IF v = w THEN d = m ELSE wdef[v] = d
  BY <1>1
<1>3. Stored(d, kind, o)
  BY DEF Held
<1>4. IF d = m THEN kind = "buffer" /\ o = PoolOf[w] /\ Stored(d, "worker", w)'
               ELSE Stored(d, kind, o)'
  BY <1>3, StoredByTakeWorkItem
<1>5. QED
  BY <1>2, <1>4 DEF Held

LEMMA StoredByRequeue ==
  ASSUME TypeInv, NEW w \in Workers, Requeue(w),
         NEW d, NEW kind, NEW o, Stored(d, kind, o), d = wdef[w] => kind = "worker"
  PROVE  IF d = wdef[w] THEN Stored(d, "buffer", PoolOf[w])' ELSE Stored(d, kind, o)'
<1> PICK p \in Pools : p = PoolOf[w]
  BY WorkersAssumption
<1>1. /\ buffer[p] \in Seq(Definitions) /\ DOMAIN buffer = Pools /\ wdef[w] \in Definitions
      /\ buffer' = [buffer EXCEPT ![p] = Append(@, wdef[w])]
  BY DEF Requeue, Buffered, TypeInv, TypeOK, StorageTypeOK, WorkersOK
<1>2. /\ Has(buffer'[p], d) <=> Has(buffer[p], d) \/ d = wdef[w]
      /\ Once(buffer'[p], d)
  BY <1>1, AppendPlaces DEF Stored
<1>3. /\ \A q \in Pools \ {p} : buffer'[q] = buffer[q]
      /\ UNCHANGED <<found, queue, peeked>>
  BY <1>1 DEF Requeue, managerVars
<1>4. CASE d = wdef[w]
  BY <1>2, <1>3, <1>4 DEF Stored
<1>5. CASE d # wdef[w]
  BY <1>2, <1>3, <1>5 DEF Stored
<1>6. QED
  BY <1>4, <1>5

LEMMA HeldByRequeue ==
  ASSUME TypeInv, NEW w \in Workers, Requeue(w),
         NEW d, NEW kind, NEW o, Held(d, kind, o), d # NoDef
  PROVE  IF d = wdef[w] THEN kind = "worker" /\ o = w /\ Held(d, "buffer", PoolOf[w])'
                        ELSE Held(d, kind, o)'
<1>1. Stored(d, kind, o) /\ (d = wdef[w] => kind = "worker" /\ o = w)
  BY DEF Held
<1>2. IF d = wdef[w] THEN Stored(d, "buffer", PoolOf[w])' ELSE Stored(d, kind, o)'
  BY <1>1, StoredByRequeue
<1>3. DOMAIN wdef = Workers /\ wdef' = [wdef EXCEPT ![w] = NoDef]
  BY DEF Requeue, Goto, TypeInv, TypeOK
<1>4. \A v \in Workers : wdef'[v] = d <=> v # w /\ wdef[v] = d
  BY <1>3
<1>5. QED
  BY <1>1, <1>2, <1>4 DEF Held

(* A worker goes on, or lets go of its item.                               *)
LEMMA HeldByGoto ==
  ASSUME TypeInv, NEW w \in Workers, NEW label, Goto(w, label),
         UNCHANGED <<queue, peeked, buffer, found>>,
         NEW d, NEW kind, NEW o, Held(d, kind, o), d # NoDef, NEW none, none \notin Carriers
  PROVE  IF label = "idle" /\ d = wdef[w] THEN kind = "worker" /\ o = w /\ Held(d, none, o)'
                                          ELSE Held(d, kind, o)'
<1>1. DOMAIN wdef = Workers
  BY DEF TypeInv, TypeOK
<1>2. CASE label = "idle"
  <2>1. \A v \in Workers : wdef'[v] = d <=> v # w /\ wdef[v] = d
    BY <1>1, <1>2 DEF Goto
  <2>2. d = wdef[w] => kind = "worker" /\ o = w
    BY DEF Held
  <2>3. QED
    BY <1>2, <2>1, <2>2 DEF Held, Stored, Carriers
<1>3. CASE label # "idle"
  BY <1>3 DEF Goto, Held, Stored
<1>4. QED
  BY <1>2, <1>3

LEMMA StoredByCleanQueue ==
  ASSUME TypeInv, NEW w \in Workers, CleanQueue(w),
         NEW d, NEW kind, NEW o, Stored(d, kind, o), NEW none, none \notin Carriers
  PROVE  /\ kind = "queue" <=> Contains(queue, d)
         /\ IF kind = "queue" THEN Stored(d, none, o)' ELSE Stored(d, kind, o)'
<1>1. Has(queue, d) <=> Contains(queue, d)
  <2>1. DOMAIN queue = 1 .. Len(queue)
    BY DEF TypeInv, TypeOK, StorageTypeOK
  <2>2. QED
    BY <2>1 DEF Has, Contains
<1>2. /\ queue' = <<>> /\ UNCHANGED <<buffer, found, peeked, wdef>>
  BY DEF CleanQueue, Goto, managerVars
<1>3. ~Has(queue', d) /\ Once(queue', d)
  BY <1>2 DEF Has, Once
<1>4. QED
  BY <1>1, <1>2, <1>3 DEF Stored, Carriers

LEMMA HeldByCleanQueue ==
  ASSUME TypeInv, NEW w \in Workers, CleanQueue(w),
         NEW d, NEW kind, NEW o, Held(d, kind, o), NEW none, none \notin Carriers
  PROVE  /\ kind = "queue" <=> Contains(queue, d)
         /\ IF kind = "queue" THEN Held(d, none, o)' ELSE Held(d, kind, o)'
<1>1. wdef' = wdef
  BY DEF CleanQueue, Goto
<1>2. QED
  BY <1>1, StoredByCleanQueue DEF Held, Carriers

-----------------------------------------------------------------------------
(* Single runs: each is always in exactly one place.                       *)

SinglePlaces == Carriers \cup {"unset", "caller", "ended"}
PlacedSomewhere(d) == \E kind \in SinglePlaces, o \in Owners : Placed(d, kind, o)

LEMMA SinglesInit == Init => SinglesPlaced
<1> SUFFICES ASSUME Init, NEW d \in Singles PROVE PlacedSomewhere(d)
  BY DEF SinglesPlaced, PlacedSomewhere, SinglePlaces
<1>1. d \in Definitions /\ d # NoDef
  BY StorageAssumption DEF Definitions
<1>2. ~Has(<<>>, d) /\ Once(<<>>, d)
  BY DEF Has, Once
<1>3. Placed(d, "unset", NoDef)
  BY <1>1, <1>2 DEF Placed, Held, Stored, Init, StorageInit
<1>4. QED
  BY <1>3 DEF PlacedSomewhere, SinglePlaces, Owners

LEMMA PlacedStays ==
  ASSUME NEW d, NEW kind, NEW o, Placed(d, kind, o), Held(d, kind, o)',
         UNCHANGED <<unset, cdef>>, d \in ended' <=> d \in ended
  PROVE  Placed(d, kind, o)'
  BY DEF Placed

LEMMA PlacedMoves ==
  ASSUME NEW d, NEW kind \in Carriers, NEW o, Placed(d, kind, o),
         NEW there \in Carriers, NEW q, Held(d, there, q)',
         UNCHANGED <<unset, cdef>>, d \in ended' <=> d \in ended
  PROVE  Placed(d, there, q)'
  BY DEF Placed, Carriers

LEMMA SingleByCaller ==
  ASSUME TypeInv, NEW d \in Singles, NEW kind \in SinglePlaces, NEW o \in Owners,
         Placed(d, kind, o),
         \/ \E e \in Definitions : TimePasses(e)
         \/ \E c \in Callers : (SetCall(c) /\ UNCHANGED jobVars) \/ CallerRuns(c)
  PROVE  PlacedSomewhere(d)'
<1> USE DEF jobVars, workerVars, itemVars, idVars, timeVars, callerVars, managerVars, poolSide
<1>1. Held(d, kind, o) /\ d \in Definitions /\ d # NoDef
  BY StorageAssumption DEF Placed, Definitions
<1>2. ASSUME NEW e \in Definitions, TimePasses(e) PROVE Placed(d, kind, o)'
  <2>1. UNCHANGED <<queue, peeked, buffer, found, wdef, unset, cdef, ended>>
    BY <1>2 DEF TimePasses, Occur
  <2>2. QED
    BY <1>1, <2>1, HeldUnmoved, PlacedStays
<1>3. ASSUME NEW c \in Callers, SetCall(c), UNCHANGED jobVars PROVE PlacedSomewhere(d)'
  <2>1. UNCHANGED <<queue, peeked, buffer, found, wdef, ended>>
    BY <1>3 DEF SetCall
  <2>2. PICK m \in unset : cdef' = [cdef EXCEPT ![c] = m] /\ unset' = unset \ {m}
    BY <1>3 DEF SetCall
  <2>3. cdef[c] = NoDef /\ DOMAIN cdef = Callers
    BY <1>3 DEF SetCall, TypeInv, TypeOK, StorageTypeOK, CallersOK
  <2>4. CASE d = m
    <3>1. kind = "unset"
      BY <2>4 DEF Placed
    <3>2. Held(d, "caller", c)'
      BY <1>1, <2>1, <3>1 DEF Held, Stored
    <3>3. Placed(d, "caller", c)'
      BY <1>1, <2>1, <2>2, <2>3, <2>4, <3>1, <3>2 DEF Placed
    <3>4. QED
      BY <3>3 DEF PlacedSomewhere, SinglePlaces, Owners
  <2>5. CASE d # m
    <3>1. Held(d, kind, o)'
      BY <1>1, <2>1, HeldUnmoved
    <3>2. \A b \in Callers : cdef'[b] = d <=> cdef[b] = d
      BY <1>1, <2>2, <2>3, <2>5
    <3>3. Placed(d, kind, o)'
      BY <2>1, <2>2, <2>5, <3>1, <3>2 DEF Placed
    <3>4. QED
      BY <3>3 DEF PlacedSomewhere, Owners
  <2>6. QED
    BY <2>4, <2>5
<1>4. ASSUME NEW c \in Callers, SetBump(c) \/ SetAdd(c) \/ SetTake(c) \/ SetCheck(c),
             UNCHANGED jobVars
      PROVE  Placed(d, kind, o)'
  <2>1. UNCHANGED <<queue, peeked, buffer, found, wdef, unset, cdef, ended>>
    BY <1>4 DEF SetBump, SetAdd, SetTake, SetCheck
  <2>2. QED
    BY <1>1, <2>1, HeldUnmoved, PlacedStays
<1>5. ASSUME NEW c \in Callers, SetReturns(c), d # cdef[c], Held(d, kind, o)', ended' = ended
      PROVE  Placed(d, kind, o)'
  <2>1. DOMAIN cdef = Callers
    BY DEF TypeInv, TypeOK, StorageTypeOK
  <2>2. \A b \in Callers : cdef'[b] = d <=> cdef[b] = d
    BY <1>1, <1>5, <2>1 DEF SetReturns
  <2>3. QED
    BY <1>5, <2>2 DEF Placed, SetReturns
<1>6. ASSUME NEW c \in Callers, SetReturns(c), d = cdef[c], NEW there \in Carriers, NEW q,
             Held(d, there, q)', ended' = ended
      PROVE  Placed(d, there, q)'
  <2>1. DOMAIN cdef = Callers /\ kind = "caller" /\ o = c
    BY <1>6 DEF TypeInv, TypeOK, StorageTypeOK, Placed
  <2>2. \A b \in Callers : cdef'[b] # d
    BY <1>1, <1>6, <2>1 DEF SetReturns, Placed
  <2>3. QED
    BY <1>6, <2>1, <2>2 DEF Placed, SetReturns, Carriers
<1>7. ASSUME NEW c \in Callers, SetSchedule(c), UNCHANGED jobVars PROVE Placed(d, kind, o)'
  <2>1. UNCHANGED <<queue, peeked, buffer, found, wdef, ended>> /\ SetReturns(c) /\ d # cdef[c]
    BY <1>7, StorageAssumption DEF SetSchedule
  <2>2. QED
    BY <1>1, <1>5, <2>1, HeldUnmoved
<1>8. ASSUME NEW c \in Callers, d = cdef[c] PROVE kind \notin Carriers
  BY <1>8 DEF Placed, Carriers
<1>9. ASSUME NEW c \in Callers, SetDirect(c), UNCHANGED jobVars PROVE PlacedSomewhere(d)'
  <2>1. SetReturns(c) /\ ended' = ended /\ PoolName[d] \in Pools
    BY <1>1, <1>9, StorageAssumption DEF SetDirect
  <2>2. CASE d = cdef[c]
    <3>1. Placed(d, "buffer", PoolName[d])'
      BY <1>1, <1>6, <1>8, <1>9, <2>1, <2>2, HeldBySetDirect DEF Carriers
    <3>2. QED
      BY <2>1, <3>1 DEF PlacedSomewhere, SinglePlaces, Carriers, Owners
  <2>3. CASE d # cdef[c]
    <3>1. Placed(d, kind, o)'
      BY <1>1, <1>5, <1>9, <2>1, <2>3, HeldBySetDirect
    <3>2. QED
      BY <3>1 DEF PlacedSomewhere, Owners
  <2>4. QED
    BY <2>2, <2>3
<1>10. ASSUME NEW c \in Callers, SetStore(c), UNCHANGED jobVars PROVE PlacedSomewhere(d)'
  <2>1. SetReturns(c) /\ ended' = ended
    BY <1>10 DEF SetStore
  <2>2. CASE d = cdef[c]
    <3>1. Placed(d, "queue", NoDef)'
      BY <1>1, <1>6, <1>8, <1>10, <2>1, <2>2, HeldBySetStore DEF Carriers
    <3>2. QED
      BY <3>1 DEF PlacedSomewhere, SinglePlaces, Carriers, Owners
  <2>3. CASE d # cdef[c]
    <3>1. Placed(d, kind, o)'
      BY <1>1, <1>5, <1>10, <2>1, <2>3, HeldBySetStore
    <3>2. QED
      BY <3>1 DEF PlacedSomewhere, Owners
  <2>4. QED
    BY <2>2, <2>3
<1>11. Placed(d, kind, o)' => PlacedSomewhere(d)'
  BY DEF PlacedSomewhere, Owners
<1>12. QED
  BY <1>2, <1>3, <1>4, <1>7, <1>9, <1>10, <1>11 DEF CallerRuns, SetStep

LEMMA SingleByManager ==
  ASSUME TypeInv, NEW d \in Singles, NEW kind \in SinglePlaces, NEW o \in Owners,
         Placed(d, kind, o), NEW p \in Pools, (Start(p) /\ UNCHANGED jobVars) \/ ManagerRuns(p)
  PROVE  PlacedSomewhere(d)'
<1> USE DEF jobVars, workerVars, itemVars, callerSide, callerVars
<1>1. Held(d, kind, o) /\ d \in Definitions /\ d # NoDef /\ d \notin Recurrents
  BY StorageAssumption DEF Placed, Definitions
<1>2. ASSUME NEW there \in Carriers, NEW q \in Owners, kind \in Carriers, Held(d, there, q)',
             UNCHANGED <<unset, cdef, ended>>
      PROVE  PlacedSomewhere(d)'
  <2>1. Placed(d, there, q)'
    BY <1>2, PlacedMoves
  <2>2. QED
    BY <2>1 DEF PlacedSomewhere, SinglePlaces, Owners
<1>3. ASSUME Held(d, kind, o)', UNCHANGED <<unset, cdef, ended>> PROVE PlacedSomewhere(d)'
  <2>1. Placed(d, kind, o)'
    BY <1>3, PlacedStays
  <2>2. QED
    BY <2>1 DEF PlacedSomewhere, Owners
<1>4. UNCHANGED <<unset, cdef, ended, wdef>>
  BY DEF ManagerRuns, ManagerStep, Start, PeekCall, LockSchedules, CheckSchedule, EnqueueSchedule,
         UnlockSchedules, PeekItem, MarkEnqueued, PeekReturns, FillBuffer
<1>5. p \in Owners /\ NoDef \in Owners
  BY DEF Owners
<1>6. CASE \/ Start(p) \/ PeekCall(p) \/ LockSchedules(p) \/ UnlockSchedules(p) \/ PeekReturns(p)
  <2>1. UNCHANGED <<queue, peeked, buffer, found>>
    BY <1>6 DEF Start, PeekCall, LockSchedules, UnlockSchedules, PeekReturns
  <2>2. QED
    BY <1>1, <1>3, <1>4, <2>1, HeldUnmoved
<1>7. CASE CheckSchedule(p)
  <2>1. PICK m \in scan[p] : IF IsDue(m) THEN found' = [found EXCEPT ![p] = m]
                                         ELSE found' = found
    BY <1>7 DEF CheckSchedule
  <2>2. ppc[p] = "scan" /\ m \in Recurrents /\ UNCHANGED <<queue, peeked, buffer>>
    BY <1>7 DEF CheckSchedule, TypeInv, TypeOK, StorageTypeOK
  <2>3. CASE IsDue(m)
    BY <1>1, <1>3, <1>4, <2>1, <2>2, <2>3, HeldByCheckSchedule
  <2>4. CASE ~IsDue(m)
    BY <1>1, <1>3, <1>4, <2>1, <2>2, <2>4, HeldUnmoved
  <2>5. QED
    BY <2>3, <2>4
<1>8. CASE EnqueueSchedule(p) /\ UNCHANGED jobVars
  BY <1>1, <1>2, <1>3, <1>4, <1>5, <1>8, HeldByEnqueueSchedule DEF Carriers
<1>9. CASE PeekItem(p) /\ UNCHANGED jobVars
  BY <1>1, <1>2, <1>3, <1>4, <1>5, <1>9, HeldByPeekItem DEF Carriers
<1>10. CASE MarkEnqueued(p) /\ UNCHANGED jobVars
  BY <1>1, <1>2, <1>3, <1>4, <1>5, <1>10, HeldByMarkEnqueued DEF Carriers
<1>11. CASE FillBuffer(p) /\ UNCHANGED jobVars
  BY <1>1, <1>2, <1>3, <1>4, <1>5, <1>11, HeldByFillBuffer DEF Carriers
<1>12. QED
  BY <1>6, <1>7, <1>8, <1>9, <1>10, <1>11 DEF ManagerRuns, ManagerStep

LEMMA ReportGoto ==
  ASSUME NEW w \in Workers, NEW s, NEW next, Report(w, s, next)
  PROVE  IF wdef[w] \in Recurrents THEN Goto(w, "load") ELSE Goto(w, next)
  BY DEF Report

LEMMA SingleByWorker ==
  ASSUME TypeInv, NEW d \in Singles, NEW kind \in SinglePlaces, NEW o \in Owners,
         Placed(d, kind, o), NEW w \in Workers, WorkerStep(w)
  PROVE  PlacedSomewhere(d)'
<1> USE DEF itemVars, notStatus, offHistory, storageVars, callerVars, managerVars
<1>1. Held(d, kind, o) /\ d \in Definitions /\ d # NoDef /\ d \notin Recurrents
  BY StorageAssumption DEF Placed, Definitions
<1>2. ASSUME NEW there \in Carriers, NEW q \in Owners, kind \in Carriers, Held(d, there, q)',
             UNCHANGED <<unset, cdef, ended>>
      PROVE  PlacedSomewhere(d)'
  <2>1. Placed(d, there, q)'
    BY <1>2, PlacedMoves
  <2>2. QED
    BY <2>1 DEF PlacedSomewhere, SinglePlaces, Owners
<1>3. ASSUME Held(d, kind, o)', UNCHANGED <<unset, cdef>>, d \in ended' <=> d \in ended
      PROVE  PlacedSomewhere(d)'
  <2>1. Placed(d, kind, o)'
    BY <1>3, PlacedStays
  <2>2. QED
    BY <2>1 DEF PlacedSomewhere, Owners
<1>4. ASSUME Held(d, "ended", o)', UNCHANGED <<unset, cdef>>, d \in ended', kind \in Carriers
      PROVE  PlacedSomewhere(d)'
  <2>1. Placed(d, "ended", o)'
    BY <1>4 DEF Placed, Carriers
  <2>2. QED
    BY <2>1 DEF PlacedSomewhere, SinglePlaces, Owners
<1>5. /\ UNCHANGED <<unset, cdef>>
      /\ PoolOf[w] \in Owners /\ w \in Owners
  BY WorkersAssumption
     DEF Owners, WorkerStep, UpdateStatus, TakeWorkItem, ExecuteStart, ExecuteComplete, CleanQueue,
         CleanRegistered, CleanSchedules, ExecuteFail, FailAgain, DoFail, ApplyPolicy, EndDelay, Requeue,
         UpdateLoad, UpdateSave, UpdateNext, UpdateCheck, UpdateReset
<1>6. ASSUME NEW label, Goto(w, label), UNCHANGED <<queue, peeked, buffer, found>>,
             d \in ended' <=> d \in ended \/ (label = "idle" /\ d = wdef[w])
      PROVE  PlacedSomewhere(d)'
  <2>1. "ended" \notin Carriers /\ "worker" \in Carriers
    BY DEF Carriers
  <2>2. CASE label = "idle" /\ d = wdef[w]
    BY <1>1, <1>4, <1>5, <1>6, <2>1, <2>2, HeldByGoto
  <2>3. CASE ~(label = "idle" /\ d = wdef[w])
    BY <1>1, <1>3, <1>5, <1>6, <2>1, <2>3, HeldByGoto
  <2>4. QED
    BY <2>2, <2>3
<1>7. CASE TakeWorkItem(w)
  <2>1. ended' = ended
    BY <1>7 DEF TakeWorkItem
  <2>2. QED
    BY <1>1, <1>2, <1>3, <1>5, <1>7, <2>1, HeldByTakeWorkItem DEF Carriers
<1>8. CASE Requeue(w)
  <2>1. ended' = ended
    BY <1>8 DEF Requeue
  <2>2. QED
    BY <1>1, <1>2, <1>3, <1>5, <1>8, <2>1, HeldByRequeue DEF Carriers
<1>9. CASE CleanQueue(w)
  <2>1. "ended" \notin Carriers /\ "queue" \in Carriers
    BY DEF Carriers
  <2>2. d \in ended' <=> d \in ended \/ kind = "queue"
    BY <1>1, <1>9, <2>1, HeldByCleanQueue DEF CleanQueue
  <2>3. QED
    BY <1>1, <1>3, <1>4, <1>5, <1>9, <2>1, <2>2, HeldByCleanQueue
<1>10. CASE \/ ExecuteStart(w) \/ ExecuteFail(w) \/ FailAgain(w) \/ DoFail(w) \/ EndDelay(w)
            \/ CleanRegistered(w) \/ CleanSchedules(w)
  <2>1. UNCHANGED <<queue, peeked, buffer, found, ended>>
    BY <1>10 DEF ExecuteStart, ExecuteFail, FailAgain, DoFail, EndDelay, CleanRegistered, CleanSchedules
  <2>2. \E label : label # "idle" /\ Goto(w, label)
    BY <1>10, ReportGoto
       DEF ExecuteStart, ExecuteFail, FailAgain, DoFail, EndDelay, CleanRegistered, CleanSchedules
  <2>3. QED
    BY <1>6, <2>1, <2>2
<1>11. CASE ExecuteComplete(w)
  <2>1. /\ UNCHANGED <<queue, peeked, buffer, found>>
        /\ ended' = ended \cup ({wdef[w]} \cap Singles)
    BY <1>11 DEF ExecuteComplete
  <2>2. PICK label : /\ Goto(w, label)
                     /\ wdef[w] \in Recurrents => label = "load"
                     /\ wdef[w] \notin Recurrents => label = "idle"
    BY <1>11, ReportGoto DEF ExecuteComplete
  <2>3. QED
    BY <1>1, <1>6, <2>1, <2>2
<1>12. CASE ApplyPolicy(w)
  <2>1. UNCHANGED <<queue, peeked, buffer, found>>
    BY <1>12 DEF ApplyPolicy
  <2>2. CASE Report(w, "Enqueuing", "delay") /\ UNCHANGED ended
    <3>1. \E label : label # "idle" /\ Goto(w, label)
      BY <2>2, ReportGoto
    <3>2. QED
      BY <1>6, <2>1, <2>2, <3>1
  <2>3. CASE Goto(w, "idle") /\ ended' = ended \cup ({wdef[w]} \cap Singles)
    BY <1>6, <2>1, <2>3
  <2>4. QED
    BY <1>12, <2>2, <2>3 DEF ApplyPolicy
<1>13. CASE UpdateStatus(w)
  <2>1. UNCHANGED <<queue, peeked, buffer, found, ended>>
    BY <1>13 DEF UpdateStatus, UpdateLoad, UpdateSave, UpdateNext, UpdateCheck, UpdateReset
  <2>2. wdef[w] \in Recurrents
    BY <1>13 DEF UpdateStatus, UpdateLoad, UpdateSave, UpdateNext, UpdateCheck, UpdateReset,
                 TypeInv, WorkersOK, OnlyRecurrent
  <2>3. (\E label : Goto(w, label)) \/ wdef' = wdef
    BY <1>13 DEF UpdateStatus, UpdateLoad, UpdateSave, UpdateNext, UpdateCheck, UpdateReset, Return
  <2>4. QED
    BY <1>1, <1>3, <1>5, <1>6, <2>1, <2>2, <2>3, HeldUnmoved
<1>14. QED
  BY <1>7, <1>8, <1>9, <1>10, <1>11, <1>12, <1>13 DEF WorkerStep

LEMMA SinglesNext ==
  ASSUME TypeInv, SinglesPlaced, [Next]_vars
  PROVE  SinglesPlaced'
<1> SUFFICES ASSUME NEW d \in Singles PROVE PlacedSomewhere(d)'
  BY DEF SinglesPlaced, PlacedSomewhere, SinglePlaces
<1>1. PICK kind \in SinglePlaces, o \in Owners : Placed(d, kind, o)
  BY DEF SinglesPlaced, SinglePlaces
<1>2. CASE UNCHANGED vars
  <2>1. UNCHANGED <<queue, peeked, buffer, found, wdef, unset, cdef, ended>>
    BY <1>2 DEF vars, storageVars, callerVars, managerVars, workerVars, itemVars
  <2>2. Placed(d, kind, o)'
    BY <1>1, <2>1, HeldUnmoved, PlacedStays DEF Placed
  <2>3. QED
    BY <2>2 DEF PlacedSomewhere, Owners
<1>3. QED
  BY <1>1, <1>2, SingleByCaller, SingleByManager, SingleByWorker DEF Next

LEMMA PlacesOnce ==
  ASSUME NEW s, NEW d, Once(s, d)
  PROVE  IF Has(s, d) THEN \E k : PlacesIn(d, s) = {k} ELSE PlacesIn(d, s) = {}
  BY DEF Has, Once, PlacesIn

(* One reference is one copy.                                              *)
LEMMA HeldCopies ==
  ASSUME NEW d, NEW kind, NEW o, Held(d, kind, o)
  PROVE  IF kind \in Carriers THEN \E x : Copies(d) = {x} ELSE Copies(d) = {}
<1> DEFINE Q == {<<"queue", k>> : k \in PlacesIn(d, queue)}
           P(p) == {<<"peeked", p, k>> : k \in PlacesIn(d, peeked[p])}
           B(p) == {<<"buffer", p, k>> : k \in PlacesIn(d, buffer[p])}
           Ps == UNION {P(p) : p \in Pools}
           Bs == UNION {B(p) : p \in Pools}
           M == {<<"manager", p>> : p \in {p \in Pools : found[p] = d}}
           W == {<<"worker", w>> : w \in {w \in Workers : wdef[w] = d}}
<1>1. IF kind = "queue" THEN \E x : Q = {x} ELSE Q = {}
  <2>1. Once(queue, d) /\ (Has(queue, d) <=> kind = "queue")
    BY DEF Held, Stored
  <2>2. CASE kind = "queue"
    <3>1. PICK k : PlacesIn(d, queue) = {k}
      BY <2>1, <2>2, PlacesOnce
    <3>2. Q = {<<"queue", k>>}
      BY <3>1
    <3>3. QED
      BY <2>2, <3>2
  <2>3. CASE kind # "queue"
    BY <2>1, <2>3, PlacesOnce
  <2>4. QED
    BY <2>2, <2>3
<1>2. ASSUME NEW p \in Pools
      PROVE  /\ IF kind = "peeked" /\ o = p THEN \E x : P(p) = {x} ELSE P(p) = {}
             /\ IF kind = "buffer" /\ o = p THEN \E x : B(p) = {x} ELSE B(p) = {}
  <2>1. /\ Once(peeked[p], d) /\ (Has(peeked[p], d) <=> kind = "peeked" /\ o = p)
        /\ Once(buffer[p], d) /\ (Has(buffer[p], d) <=> kind = "buffer" /\ o = p)
    BY DEF Held, Stored
  <2>2. IF kind = "peeked" /\ o = p THEN \E x : P(p) = {x} ELSE P(p) = {}
    <3>1. CASE Has(peeked[p], d)
      <4>1. PICK k : PlacesIn(d, peeked[p]) = {k}
        BY <2>1, <3>1, PlacesOnce
      <4>2. P(p) = {<<"peeked", p, k>>}
        BY <4>1
      <4>3. QED
        BY <2>1, <3>1, <4>2
    <3>2. CASE ~Has(peeked[p], d)
      BY <2>1, <3>2, PlacesOnce
    <3>3. QED
      BY <3>1, <3>2
  <2>3. IF kind = "buffer" /\ o = p THEN \E x : B(p) = {x} ELSE B(p) = {}
    <3>1. CASE Has(buffer[p], d)
      <4>1. PICK k : PlacesIn(d, buffer[p]) = {k}
        BY <2>1, <3>1, PlacesOnce
      <4>2. B(p) = {<<"buffer", p, k>>}
        BY <4>1
      <4>3. QED
        BY <2>1, <3>1, <4>2
    <3>2. CASE ~Has(buffer[p], d)
      BY <2>1, <3>2, PlacesOnce
    <3>3. QED
      BY <3>1, <3>2
  <2>4. QED
    BY <2>2, <2>3
<1>3. IF kind = "peeked" THEN Ps = P(o) ELSE Ps = {}
  BY <1>2 DEF Held, Stored
<1>4. IF kind = "buffer" THEN Bs = B(o) ELSE Bs = {}
  BY <1>2 DEF Held, Stored
<1>5. IF kind = "manager" THEN M = {<<"manager", o>>} ELSE M = {}
  BY DEF Held, Stored
<1>6. IF kind = "worker" THEN W = {<<"worker", o>>} ELSE W = {}
  BY DEF Held, Stored
<1>7. IF kind = "peeked" THEN \E x : Ps = {x} ELSE Ps = {}
  BY <1>2, <1>3 DEF Held, Stored
<1>8. IF kind = "buffer" THEN \E x : Bs = {x} ELSE Bs = {}
  BY <1>2, <1>4 DEF Held, Stored
<1>9. Copies(d) = Q \cup Ps \cup Bs \cup M \cup W
  BY DEF Copies
<1> HIDE DEF Q, Ps, Bs, M, W
<1>10. QED
  BY <1>1, <1>5, <1>6, <1>7, <1>8, <1>9 DEF Carriers

LEMMA OneOrNone ==
  ASSUME NEW d, NEW kind, NEW o, Held(d, kind, o)
  PROVE  Cardinality(Copies(d)) = IF kind \in Carriers THEN 1 ELSE 0
  BY HeldCopies, FS_Singleton, FS_EmptySet

(* A single run is in one place from the call that hands it over until its *)
(* life is over, whatever callers, managers, workers and Clean do at once. *)
THEOREM SinglesAreInOnePlace == Spec => []SinglesInOnePlace
<1>1. Init => TypeInv /\ SinglesPlaced
  BY InitTyped, SinglesInit
<1>2. TypeInv /\ SinglesPlaced /\ [Next]_vars => (TypeInv /\ SinglesPlaced)'
  BY NextTyped, SinglesNext
<1>3. SinglesPlaced => SinglesInOnePlace
  <2> SUFFICES ASSUME SinglesPlaced, NEW d \in Singles
               PROVE  Cardinality(Copies(d)) =
                        IF d \in unset \/ InSet(d) \/ d \in ended THEN 0 ELSE 1
    BY DEF SinglesInOnePlace
  <2>1. PICK kind \in SinglePlaces, o \in Owners : Placed(d, kind, o)
    BY DEF SinglesPlaced, SinglePlaces
  <2>2. kind \in Carriers <=> ~(d \in unset \/ InSet(d) \/ d \in ended)
    BY <2>1 DEF Placed, InSet, SinglePlaces, Carriers
  <2>3. QED
    BY <2>1, <2>2, OneOrNone DEF Placed
<1>4. QED
  BY <1>1, <1>2, <1>3, PTL DEF Spec

-----------------------------------------------------------------------------
(* Recurrent jobs: the lock of CheckSchedules, and what a copy says of the *)
(* status.                                                                 *)

RecurrentPlaces == Carriers \cup {"none"}
Fitted(d) == \E kind \in RecurrentPlaces, o \in Owners : Held(d, kind, o) /\ Fits(d, kind, o)

LEMMA RecurrentsInit == Init => ScanLocked /\ RecurrentsPlaced
<1> SUFFICES ASSUME Init PROVE ScanLocked /\ RecurrentsPlaced
  OBVIOUS
<1>1. ScanLocked
  BY DEF ScanLocked, Scanning, Init, StorageInit
<1>2. ASSUME NEW d \in Recurrents PROVE Fitted(d)
  <2>1. d \in Definitions /\ d # NoDef /\ d \notin Singles
    BY StorageAssumption DEF Definitions
  <2>2. ~Has(<<>>, d) /\ Once(<<>>, d)
    BY DEF Has, Once
  <2>3. Held(d, "none", NoDef)
    BY <2>1, <2>2 DEF Held, Stored, Init, StorageInit
  <2>4. ~due[d]
    BY <2>1 DEF Init, StorageInit
  <2>5. Fits(d, "none", NoDef)
    BY <2>4 DEF Fits
  <2>6. QED
    BY <2>3, <2>5 DEF Fitted, RecurrentPlaces, Owners
<1>3. QED
  BY <1>1, <1>2 DEF RecurrentsPlaced, Fitted, RecurrentPlaces

LEMMA ScanLockedNext ==
  ASSUME TypeInv, ScanLocked, [Next]_vars
  PROVE  ScanLocked'
<1> USE DEF ScanLocked, Scanning
<1>1. CASE UNCHANGED <<ppc, scan>>
  BY <1>1
<1>2. ASSUME NEW p \in Pools, Start(p) \/ ManagerStep(p) PROVE ScanLocked'
  <2> DOMAIN ppc = Pools /\ DOMAIN scan = Pools
    BY DEF TypeInv, TypeOK, StorageTypeOK
  <2>1. CASE LockSchedules(p)
    BY <2>1 DEF LockSchedules, ManagerTo
  <2>2. CASE CheckSchedule(p)
    BY <2>2 DEF CheckSchedule, ManagerTo
  <2>3. CASE EnqueueSchedule(p)
    BY <2>3 DEF EnqueueSchedule, ManagerTo
  <2>4. CASE UnlockSchedules(p)
    BY <2>4 DEF UnlockSchedules, ManagerTo
  <2>5. CASE \/ Start(p) \/ PeekCall(p) \/ PeekItem(p) \/ MarkEnqueued(p) \/ PeekReturns(p)
             \/ FillBuffer(p)
    <3>1. scan' = scan /\ ~Scanning(p)
      BY <2>5 DEF Start, PeekCall, PeekItem, MarkEnqueued, PeekReturns, FillBuffer
    <3>2. \E label \in {"idle", "lock", "mark", "peek", "fill"} : ppc' = [ppc EXCEPT ![p] = label]
      BY <2>5 DEF Start, PeekCall, PeekItem, MarkEnqueued, PeekReturns, FillBuffer, AfterPeek,
                  ManagerTo
    <3>3. QED
      BY <3>1, <3>2
  <2>6. QED
    BY <1>2, <2>1, <2>2, <2>3, <2>4, <2>5 DEF ManagerStep
<1>3. ASSUME NEW w \in Workers, WorkerStep(w) PROVE UNCHANGED <<ppc, scan>>
  BY <1>3 DEF WorkerStep, UpdateStatus, TakeWorkItem, ExecuteStart, ExecuteComplete, CleanQueue,
         CleanRegistered, CleanSchedules, ExecuteFail, FailAgain, DoFail, ApplyPolicy, EndDelay, Requeue,
         UpdateLoad, UpdateSave, UpdateNext, UpdateCheck, UpdateReset, notStatus, offHistory,
         storageVars, managerVars
<1>4. ASSUME NEW c \in Callers, SetCall(c) \/ SetStep(c) PROVE UNCHANGED <<ppc, scan>>
  BY <1>4 DEF SetCall, SetStep, SetBump, SetAdd, SetTake, SetSchedule, SetCheck, SetDirect,
              SetStore, poolSide, managerVars
<1>5. ASSUME NEW d \in Definitions, TimePasses(d) PROVE UNCHANGED <<ppc, scan>>
  BY <1>5 DEF TimePasses, Occur, managerVars
<1>6. CASE UNCHANGED vars
  BY <1>1, <1>6 DEF vars, storageVars, managerVars
<1>7. QED
  BY <1>1, <1>2, <1>3, <1>4, <1>5, <1>6 DEF Next, CallerRuns, ManagerRuns

LEMMA OvertakenStays == overtaken /\ [Next]_vars => overtaken'
<1> SUFFICES ASSUME overtaken, [Next]_vars PROVE overtaken'
  OBVIOUS
<1>1. ASSUME NEW p \in Pools, Start(p) \/ ManagerStep(p) PROVE overtaken'
  BY <1>1 DEF ManagerStep, Start, PeekCall, LockSchedules, CheckSchedule, EnqueueSchedule,
              UnlockSchedules, PeekItem, MarkEnqueued, PeekReturns, FillBuffer, callerSide, timeVars
<1>2. ASSUME NEW w \in Workers, WorkerStep(w) PROVE overtaken'
  BY <1>2 DEF WorkerStep, UpdateStatus, TakeWorkItem, ExecuteStart, ExecuteComplete, CleanQueue,
         CleanRegistered, CleanSchedules, ExecuteFail, FailAgain, DoFail, ApplyPolicy, EndDelay, Requeue,
         UpdateLoad, UpdateSave, UpdateNext, UpdateCheck, UpdateReset, notStatus,
         storageVars, timeVars, NoteSecondCopy
<1>3. ASSUME NEW c \in Callers, SetCall(c) \/ SetStep(c) PROVE overtaken'
  BY <1>3 DEF SetCall, SetStep, SetBump, SetAdd, SetTake, SetSchedule, SetCheck, SetDirect,
              SetStore, poolSide, timeVars
<1>4. ASSUME NEW d \in Definitions, TimePasses(d) PROVE overtaken'
  BY <1>4 DEF TimePasses, Occur
<1>5. CASE UNCHANGED vars
  BY <1>5 DEF vars, storageVars, timeVars
<1>6. QED
  BY <1>1, <1>2, <1>3, <1>4, <1>5 DEF Next, CallerRuns, ManagerRuns

LEMMA FitsStays ==
  ASSUME NEW d, NEW kind, NEW o, Fits(d, kind, o),
         \A p \in Pools : d \in scan'[p] => d \in scan[p],
         status'[d] = status[d], due'[d] = due[d], owed'[d] = owed[d],
         kind = "worker" => wpc'[o] = wpc[o] /\ wnext'[o] = wnext[o] /\ wseen'[o] = wseen[o]
  PROVE  Fits(d, kind, o)'
<1>1. CASE kind = "worker"
  BY <1>1 DEF Fits, Updating
<1>2. CASE kind # "worker"
  BY <1>2 DEF Fits
<1>3. QED
  BY <1>1, <1>2

LEMMA RecurrentByCaller ==
  ASSUME TypeInv, NEW d \in Recurrents, Fitted(d),
         \/ \E e \in Definitions : TimePasses(e)
         \/ \E c \in Callers : (SetCall(c) /\ UNCHANGED jobVars) \/ CallerRuns(c)
  PROVE  Fitted(d)'
<1> USE DEF jobVars, workerVars, itemVars, idVars, timeVars, callerVars, managerVars, poolSide
<1> PICK kind \in RecurrentPlaces, o \in Owners : Held(d, kind, o) /\ Fits(d, kind, o)
  BY DEF Fitted
<1>1. d \in Definitions /\ d # NoDef /\ d \notin Singles
  BY StorageAssumption DEF Definitions
<1>2. Held(d, kind, o)' /\ Fits(d, kind, o)' => Fitted(d)'
  BY DEF Fitted, Owners
<1>3. ASSUME NEW e \in Definitions, TimePasses(e) PROVE Fitted(d)'
  <2>1. UNCHANGED <<queue, peeked, buffer, found, wdef, scan, status, wpc, wnext, wseen>>
    BY <1>3 DEF TimePasses, Occur
  <2>2. /\ due'[d] = IF d = e THEN TRUE ELSE due[d]
        /\ owed'[d] = (d = e \/ owed[d])
    BY <1>1, <1>3 DEF TimePasses, Occur, TypeInv, TypeOK, StorageTypeOK
  <2>3. Fits(d, kind, o)'
    <3>1. CASE d = e
      BY <2>1, <2>2, <3>1 DEF Fits, Updating
    <3>2. CASE d # e
      BY <2>1, <2>2, <3>2, FitsStays DEF TypeInv, TypeOK, StorageTypeOK
    <3>3. QED
      BY <3>1, <3>2
  <2>4. QED
    BY <1>2, <2>1, <2>3, HeldUnmoved
<1>4. ASSUME NEW c \in Callers, SetCall(c) \/ SetStep(c), UNCHANGED jobVars PROVE Fitted(d)'
  <2>1. UNCHANGED <<peeked, found, wdef, scan, status, wpc, wnext, wseen, due, owed>>
    BY <1>4 DEF SetCall, SetStep, SetBump, SetAdd, SetTake, SetSchedule, SetCheck, SetDirect,
                SetStore
  <2>2. Fits(d, kind, o)'
    BY <2>1, FitsStays
  <2>3. CASE SetDirect(c) \/ SetStore(c)
    <3>1. d # cdef[c]
      BY <1>1, <2>3 DEF SetDirect, SetStore, TypeInv, CallersOK
    <3>2. Held(d, kind, o)'
      BY <1>4, <2>3, <3>1, HeldBySetDirect, HeldBySetStore
    <3>3. QED
      BY <1>2, <2>2, <3>2
  <2>4. CASE ~(SetDirect(c) \/ SetStore(c))
    <3>1. UNCHANGED <<queue, buffer>>
      BY <1>4, <2>4 DEF SetCall, SetStep, SetBump, SetAdd, SetTake, SetSchedule, SetCheck
    <3>2. QED
      BY <1>2, <2>1, <2>2, <3>1, HeldUnmoved
  <2>5. QED
    BY <2>3, <2>4
<1>5. QED
  BY <1>3, <1>4 DEF CallerRuns

LEMMA RecurrentByManager ==
  ASSUME TypeInv, ScanLocked, NEW d \in Recurrents, Fitted(d), NEW p \in Pools,
         (Start(p) /\ UNCHANGED jobVars) \/ ManagerRuns(p), ~overtaken'
  PROVE  Fitted(d)'
<1> USE DEF jobVars, workerVars, itemVars, callerSide, timeVars
<1> PICK kind \in RecurrentPlaces, o \in Owners : Held(d, kind, o) /\ Fits(d, kind, o)
  BY DEF Fitted
<1>1. d \in Definitions /\ d # NoDef /\ p \in Owners /\ NoDef \in Owners
  BY StorageAssumption DEF Definitions, Owners
<1>2. ASSUME NEW there \in RecurrentPlaces, NEW q \in Owners, Held(d, there, q)', Fits(d, there, q)'
      PROVE  Fitted(d)'
  BY <1>2 DEF Fitted, Owners
<1>3. {"queue", "peeked", "buffer", "manager", "none"} \subseteq RecurrentPlaces
  BY DEF RecurrentPlaces, Carriers
<1>4. UNCHANGED <<wdef, wpc, wnext, wseen, due, owed>>
  BY DEF ManagerRuns, ManagerStep, Start, PeekCall, LockSchedules, CheckSchedule, EnqueueSchedule,
         UnlockSchedules, PeekItem, MarkEnqueued, PeekReturns, FillBuffer
<1>5. CASE \/ Start(p) \/ PeekCall(p) \/ UnlockSchedules(p) \/ PeekReturns(p)
  <2>1. UNCHANGED <<queue, peeked, buffer, found, scan, status>>
    BY <1>5 DEF Start, PeekCall, UnlockSchedules, PeekReturns
  <2>2. QED
    BY <1>2, <1>4, <2>1, HeldUnmoved, FitsStays
<1>6. CASE LockSchedules(p)
  <2>1. UNCHANGED <<queue, peeked, buffer, found, status>>
    BY <1>6 DEF LockSchedules
  <2>2. ~Unmarked(d)
    BY <1>6 DEF LockSchedules
  <2>3. kind \notin {"queue", "manager"}
    BY <2>2 DEF Unmarked, Held, Stored, Has
  <2>4. Fits(d, kind, o)'
    BY <1>4, <2>1, <2>3 DEF Fits, Updating
  <2>5. QED
    BY <1>2, <1>4, <2>1, <2>4, HeldUnmoved
<1>7. CASE CheckSchedule(p)
  <2>1. PICK m \in scan[p] : /\ scan' = [scan EXCEPT ![p] = @ \ {m}]
                             /\ IF IsDue(m) THEN found' = [found EXCEPT ![p] = m]
                                            ELSE found' = found
    BY <1>7 DEF CheckSchedule
  <2>2. /\ ppc[p] = "scan" /\ m \in Recurrents /\ UNCHANGED <<queue, peeked, buffer, status>>
        /\ DOMAIN scan = Pools
    BY <1>7 DEF CheckSchedule, TypeInv, TypeOK, StorageTypeOK
  <2>3. \A q \in Pools : d \in scan'[q] => d \in scan[q]
    BY <2>1, <2>2
  <2>4. Fits(d, kind, o)'
    BY <1>4, <2>2, <2>3, FitsStays
  <2>5. CASE IsDue(m) /\ d = m
    <3>1. kind = "none"
      BY <2>1, <2>5 DEF Fits, IsDue, RecurrentPlaces, Carriers
    <3>2. Held(d, "manager", p)'
      BY <1>1, <1>4, <2>1, <2>2, <2>5, <3>1, HeldByCheckSchedule DEF Carriers
    <3>3. \A q \in Pools : d \notin scan'[q]
      BY <2>1, <2>2, <2>5 DEF ScanLocked, Scanning
    <3>4. owed[d]
      BY <2>5, <3>1 DEF Fits, IsDue
    <3>5. Fits(d, "manager", p)'
      BY <1>4, <3>3, <3>4 DEF Fits
    <3>6. QED
      BY <1>1, <1>2, <1>3, <3>2, <3>5
  <2>6. CASE IsDue(m) /\ d # m
    BY <1>1, <1>2, <1>4, <2>1, <2>2, <2>4, <2>6, HeldByCheckSchedule
  <2>7. CASE ~IsDue(m)
    BY <1>2, <1>4, <2>1, <2>2, <2>4, <2>7, HeldUnmoved
  <2>8. QED
    BY <2>5, <2>6, <2>7
<1>8. ASSUME NEW there \in {"queue", "manager", "buffer"}, NEW q \in Owners,
             kind \in Carriers \ {"worker"}, there = "buffer" => kind = "peeked",
             there # "buffer" => kind \in {"queue", "manager"},
             UNCHANGED <<scan, status>>
      PROVE  Fits(d, there, q)'
  BY <1>4, <1>8 DEF Fits, Carriers
<1>9. CASE EnqueueSchedule(p) /\ UNCHANGED jobVars
  <2>1. UNCHANGED <<scan, status>>
    BY <1>9 DEF EnqueueSchedule
  <2>2. CASE d = found[p]
    BY <1>1, <1>2, <1>3, <1>8, <1>9, <2>1, <2>2, HeldByEnqueueSchedule DEF Carriers
  <2>3. CASE d # found[p]
    BY <1>1, <1>2, <1>4, <1>9, <2>1, <2>3, FitsStays, HeldByEnqueueSchedule
  <2>4. QED
    BY <2>2, <2>3
<1>10. CASE PeekItem(p) /\ UNCHANGED jobVars
  <2>1. UNCHANGED <<scan, status>>
    BY <1>10 DEF PeekItem
  <2>2. CASE d = Head(queue)
    BY <1>1, <1>2, <1>3, <1>8, <1>10, <2>1, <2>2, HeldByPeekItem DEF Carriers
  <2>3. CASE d # Head(queue)
    BY <1>1, <1>2, <1>4, <1>10, <2>1, <2>3, FitsStays, HeldByPeekItem
  <2>4. QED
    BY <2>2, <2>3
<1>11. CASE MarkEnqueued(p) /\ UNCHANGED jobVars
  <2>1. scan' = scan /\ status'[d] = IF d = found[p] THEN "Enqueued" ELSE status[d]
    BY <1>11 DEF MarkEnqueued
  <2>2. CASE d = found[p]
    <3>1. kind = "manager" /\ Held(d, "peeked", p)'
      BY <1>1, <1>11, <2>2, HeldByMarkEnqueued
    <3>2. Fits(d, "peeked", p)'
      BY <1>4, <2>1, <2>2, <3>1 DEF Fits
    <3>3. QED
      BY <1>1, <1>2, <1>3, <3>1, <3>2
  <2>3. CASE d # found[p]
    BY <1>1, <1>2, <1>4, <1>11, <2>1, <2>3, FitsStays, HeldByMarkEnqueued
  <2>4. QED
    BY <2>2, <2>3
<1>12. CASE FillBuffer(p) /\ UNCHANGED jobVars
  <2>1. UNCHANGED <<scan, status>>
    BY <1>12 DEF FillBuffer
  <2>2. CASE d = Head(peeked[p])
    BY <1>1, <1>2, <1>3, <1>8, <1>12, <2>1, <2>2, HeldByFillBuffer DEF Carriers
  <2>3. CASE d # Head(peeked[p])
    BY <1>2, <1>4, <1>12, <2>1, <2>3, FitsStays, HeldByFillBuffer
  <2>4. QED
    BY <2>2, <2>3
<1>13. QED
  BY <1>5, <1>6, <1>7, <1>9, <1>10, <1>11, <1>12 DEF ManagerRuns, ManagerStep

(* A job that some other worker has, or nobody.                            *)
LEMMA RecurrentByOther ==
  ASSUME TypeInv, NEW d \in Recurrents, Fitted(d), NEW w \in Workers, WorkerStep(w),
         wdef[w] # d
  PROVE  Fitted(d)'
<1> USE DEF notStatus, offHistory, storageVars, callerVars, managerVars, timeVars
<1> PICK kind \in RecurrentPlaces, o \in Owners : Held(d, kind, o) /\ Fits(d, kind, o)
  BY DEF Fitted
<1>1. d \in Definitions /\ d # NoDef
  BY StorageAssumption DEF Definitions
<1>2. kind = "worker" => o \in Workers /\ o # w
  BY DEF Held
<1>3. /\ DOMAIN wpc = Workers /\ DOMAIN wnext = Workers /\ DOMAIN wseen = Workers
      /\ DOMAIN status = Recurrents /\ DOMAIN due = Definitions
  BY DEF TypeInv, TypeOK, StorageTypeOK
<1>4. ASSUME NEW label, Goto(w, label) PROVE kind = "worker" => wpc'[o] = wpc[o]
  BY <1>2, <1>3, <1>4 DEF Goto
<1>5. ASSUME NEW s, NEW next, Report(w, s, next), UNCHANGED <<queue, peeked, buffer, found>>
      PROVE  /\ status'[d] = status[d]
             /\ kind = "worker" => wpc'[o] = wpc[o] /\ wnext'[o] = wnext[o]
             /\ Held(d, kind, o)'
  <2>1. PICK label : Goto(w, label)
    BY <1>5, ReportGoto
  <2>2. Held(d, kind, o)'
    BY <1>1, <1>5, <2>1, HeldByGoto DEF Carriers
  <2>3. status'[d] = status[d]
    BY <1>3, <1>5 DEF Report, SetStatus
  <2>4. kind = "worker" => wnext'[o] = wnext[o]
    BY <1>2, <1>3, <1>5 DEF Report
  <2>5. QED
    BY <1>4, <2>1, <2>2, <2>3, <2>4
<1>6. ASSUME Return(w), UNCHANGED <<queue, peeked, buffer, found>>
      PROVE  /\ kind = "worker" => wpc'[o] = wpc[o] /\ wnext'[o] = wnext[o] /\ wseen'[o] = wseen[o]
             /\ Held(d, kind, o)'
  <2>1. Goto(w, wnext[w])
    BY <1>6 DEF Return
  <2>2. Held(d, kind, o)'
    BY <1>1, <1>6, <2>1, HeldByGoto DEF Carriers
  <2>3. kind = "worker" => wnext'[o] = wnext[o] /\ wseen'[o] = wseen[o]
    BY <1>2, <1>3, <1>6 DEF Return
  <2>4. QED
    BY <1>4, <2>1, <2>2, <2>3
<1>7. ASSUME Held(d, kind, o)', status'[d] = status[d], due'[d] = due[d], owed'[d] = owed[d],
             scan' = scan,
             kind = "worker" => wpc'[o] = wpc[o] /\ wnext'[o] = wnext[o] /\ wseen'[o] = wseen[o]
      PROVE  Fitted(d)'
  BY <1>7, FitsStays DEF Fitted, Owners
<1>8. CASE TakeWorkItem(w)
  <2>1. UNCHANGED <<status, due, owed, scan, wnext, wseen>> /\ wpc' = [wpc EXCEPT ![w] = "got"]
    BY <1>8 DEF TakeWorkItem
  <2>2. CASE d = Head(buffer[PoolOf[w]])
    <3>1. kind = "buffer" /\ Held(d, "worker", w)'
      BY <1>1, <1>8, <2>2, HeldByTakeWorkItem
    <3>2. Fits(d, "worker", w)'
      BY <1>3, <2>1, <3>1 DEF Fits, Updating
    <3>3. QED
      BY <3>1, <3>2 DEF Fitted, RecurrentPlaces, Carriers, Owners
  <2>3. CASE d # Head(buffer[PoolOf[w]])
    <3>1. Held(d, kind, o)'
      BY <1>1, <1>8, <2>3, HeldByTakeWorkItem
    <3>2. kind = "worker" => wpc'[o] = wpc[o]
      BY <1>2, <1>3, <2>1
    <3>3. QED
      BY <1>7, <2>1, <3>1, <3>2
  <2>4. QED
    BY <2>2, <2>3
<1>9. CASE ExecuteStart(w)
  <2>1. owed'[d] = owed[d]
    BY <1>9 DEF ExecuteStart, TypeInv, TypeOK, StorageTypeOK
  <2>2. UNCHANGED <<due, scan, wseen, queue, peeked, buffer, found>>
    BY <1>9 DEF ExecuteStart
  <2>3. QED
    BY <1>5, <1>7, <1>9, <2>1, <2>2 DEF ExecuteStart
<1>10. CASE ExecuteComplete(w) \/ ExecuteFail(w) \/ FailAgain(w) \/ DoFail(w) \/ EndDelay(w)
  <2>1. UNCHANGED <<due, owed, scan, wseen, queue, peeked, buffer, found>>
    BY <1>10 DEF ExecuteComplete, ExecuteFail, FailAgain, DoFail, EndDelay
  <2>2. \E s, next : Report(w, s, next)
    BY <1>10 DEF ExecuteComplete, ExecuteFail, FailAgain, DoFail, EndDelay
  <2>3. QED
    BY <1>5, <1>7, <2>1, <2>2
<1>11. CASE CleanQueue(w)
  <2>1. UNCHANGED <<status, due, owed, scan, wnext, wseen>> /\ Goto(w, "clean2")
    BY <1>11 DEF CleanQueue
  <2>2. kind = "worker" => wpc'[o] = wpc[o]
    BY <1>4, <2>1
  <2>3. CASE kind = "queue"
    <3>1. Held(d, "none", o)'
      BY <1>11, <2>3, HeldByCleanQueue DEF Carriers
    <3>2. Fits(d, "none", o)'
      BY <2>1, <2>3 DEF Fits
    <3>3. QED
      BY <3>1, <3>2 DEF Fitted, RecurrentPlaces, Owners
  <2>4. CASE kind # "queue"
    <3>1. "none" \notin Carriers
      BY DEF Carriers
    <3>2. Held(d, kind, o)'
      BY <1>11, <2>4, <3>1, HeldByCleanQueue
    <3>3. QED
      BY <1>7, <2>1, <2>2, <3>2
  <2>5. QED
    BY <2>3, <2>4
<1>12. CASE CleanRegistered(w) \/ CleanSchedules(w)
  <2>1. UNCHANGED <<status, due, owed, scan, wnext, wseen, queue, peeked, buffer, found>>
    BY <1>12 DEF CleanRegistered, CleanSchedules
  <2>2. PICK label \in {"clean3", "done"} : Goto(w, label)
    BY <1>12 DEF CleanRegistered, CleanSchedules
  <2>3. Held(d, kind, o)'
    BY <1>1, <2>1, <2>2, HeldByGoto DEF Carriers
  <2>4. QED
    BY <1>4, <1>7, <2>1, <2>2, <2>3
<1>13. CASE ApplyPolicy(w)
  <2>1. UNCHANGED <<due, owed, scan, wseen, queue, peeked, buffer, found>>
    BY <1>13 DEF ApplyPolicy
  <2>2. CASE Report(w, "Enqueuing", "delay")
    BY <1>5, <1>7, <2>1, <2>2
  <2>3. CASE Goto(w, "idle") /\ UNCHANGED <<status, wnext>>
    <3>1. Held(d, kind, o)'
      BY <1>1, <2>1, <2>3, HeldByGoto DEF Carriers
    <3>2. QED
      BY <1>4, <1>7, <2>1, <2>3, <3>1
  <2>4. QED
    BY <1>13, <2>2, <2>3 DEF ApplyPolicy
<1>14. CASE Requeue(w)
  <2>1. UNCHANGED <<status, due, owed, scan, wnext, wseen>> /\ Goto(w, "idle")
    BY <1>14 DEF Requeue
  <2>2. Held(d, kind, o)'
    BY <1>1, <1>14, HeldByRequeue
  <2>3. QED
    BY <1>4, <1>7, <2>1, <2>2
<1>15. CASE UpdateStatus(w)
  <2>1. UNCHANGED <<owed, scan, queue, peeked, buffer, found>>
    BY <1>15 DEF UpdateStatus, UpdateLoad, UpdateSave, UpdateNext, UpdateCheck, UpdateReset
  <2>2. status'[d] = status[d] /\ due'[d] = due[d]
    BY <1>1, <1>3, <1>15
       DEF UpdateStatus, UpdateLoad, UpdateSave, UpdateNext, UpdateCheck, UpdateReset, SetStatus,
           NextRun
  <2>3. CASE Return(w)
    BY <1>6, <1>7, <2>1, <2>2, <2>3
  <2>4. CASE ~Return(w)
    <3>1. \/ \E label : Goto(w, label) /\ label # "idle"
          \/ UNCHANGED <<wpc, wdef>>
      BY <1>15, <2>4 DEF UpdateStatus, UpdateLoad, UpdateSave, UpdateNext, UpdateCheck, UpdateReset
    <3>2. wnext' = wnext
      BY <1>15, <2>4 DEF UpdateStatus, UpdateLoad, UpdateSave, UpdateNext, UpdateCheck, UpdateReset
    <3>3. kind = "worker" => wseen'[o] = wseen[o]
      BY <1>2, <1>3, <1>15, <2>4
         DEF UpdateStatus, UpdateLoad, UpdateSave, UpdateNext, UpdateCheck, UpdateReset
    <3>4. wdef' = wdef /\ (kind = "worker" => wpc'[o] = wpc[o])
      BY <1>4, <3>1 DEF Goto
    <3>5. Held(d, kind, o)'
      BY <2>1, <3>4, HeldUnmoved
    <3>6. QED
      BY <1>7, <2>1, <2>2, <3>2, <3>3, <3>4, <3>5
  <2>5. QED
    BY <2>3, <2>4
<1>16. QED
  BY <1>8, <1>9, <1>10, <1>11, <1>12, <1>13, <1>14, <1>15 DEF WorkerStep

(* The job that the worker has.                                            *)
LEMMA RecurrentByOwn ==
  ASSUME TypeInv, NEW w \in Workers, WorkerStep(w), wdef[w] \in Recurrents \ Failing,
         Fitted(wdef[w])
  PROVE  /\ ExecuteStart(w) => owed[wdef[w]]
         /\ \A d \in Recurrents : d = wdef[w] => Fitted(d)'
<1> USE DEF notStatus, offHistory, storageVars, callerVars, managerVars, timeVars
<1> PICK d \in Recurrents \ Failing : d = wdef[w]
  OBVIOUS
<1> PICK kind \in RecurrentPlaces, o \in Owners : Held(d, kind, o) /\ Fits(d, kind, o)
  BY DEF Fitted
<1>1. /\ d \in Definitions /\ d # NoDef /\ kind = "worker" /\ o = w
      /\ status[d] # "WaitingProcess" /\ Updating(d, w)
  BY StorageAssumption DEF Definitions, Held, Fits
<1>2. /\ DOMAIN wpc = Workers /\ DOMAIN wnext = Workers /\ DOMAIN wseen = Workers
      /\ DOMAIN status = Recurrents /\ DOMAIN due = Definitions
  BY DEF TypeInv, TypeOK, StorageTypeOK
<1>3. ASSUME Held(d, "worker", w)', Updating(d, w)', status'[d] # "WaitingProcess"
      PROVE  Fitted(d)'
  <2>1. Fits(d, "worker", w)'
    BY <1>3 DEF Fits
  <2>2. QED
    BY <1>3, <2>1 DEF Fitted, RecurrentPlaces, Carriers, Owners
<1>4. ASSUME NEW label, Goto(w, label), label # "idle", UNCHANGED <<queue, peeked, buffer, found>>
      PROVE  Held(d, "worker", w)' /\ wpc'[w] = label
  BY <1>1, <1>2, <1>4, HeldUnmoved DEF Goto
<1>5. ASSUME NEW s, NEW next, Report(w, s, next), UNCHANGED <<queue, peeked, buffer, found>>
      PROVE  /\ Held(d, "worker", w)' /\ wpc'[w] = "load"
             /\ status'[d] = s /\ wnext'[w] = next
  <2>1. Goto(w, "load")
    BY <1>5, ReportGoto
  <2>2. status'[d] = s /\ wnext'[w] = next
    BY <1>2, <1>5 DEF Report, SetStatus
  <2>3. QED
    BY <1>4, <1>5, <2>1, <2>2
<1>6. CASE ExecuteStart(w)
  <2>1. UNCHANGED <<queue, peeked, buffer, found>> /\ Report(w, "Processing", "run")
    BY <1>6 DEF ExecuteStart
  <2>2. Updating(d, w)' /\ status'[d] # "WaitingProcess"
    BY <1>5, <2>1 DEF Updating, OnlyRecurrent
  <2>3. owed[d]
    BY <1>1, <1>6 DEF ExecuteStart, Updating
  <2>4. QED
    BY <1>3, <1>5, <2>1, <2>2, <2>3
<1>7. ~ExecuteStart(w) => Fitted(d)'
  <2> SUFFICES ASSUME ~ExecuteStart(w) PROVE Fitted(d)'
    OBVIOUS
  <2>1. CASE ExecuteComplete(w)
    <3>1. UNCHANGED <<queue, peeked, buffer, found>> /\ Report(w, "Completed", "idle")
      BY <2>1 DEF ExecuteComplete
    <3>2. Updating(d, w)' /\ status'[d] # "WaitingProcess"
      BY <1>5, <3>1 DEF Updating, OnlyRecurrent
    <3>3. QED
      BY <1>3, <1>5, <3>1, <3>2
  <2>2. CASE CleanQueue(w)
    <3>1. "none" \notin Carriers /\ "worker" # "queue"
      BY DEF Carriers
    <3>2. Held(d, "worker", w)'
      BY <1>1, <2>2, <3>1, HeldByCleanQueue
    <3>3. wpc'[w] = "clean2" /\ status'[d] = status[d]
      BY <1>2, <2>2 DEF CleanQueue, Goto
    <3>4. Updating(d, w)'
      BY <3>3 DEF Updating, OnlyRecurrent
    <3>5. QED
      BY <1>1, <1>3, <3>2, <3>3, <3>4
  <2>3. CASE CleanRegistered(w) \/ CleanSchedules(w)
    <3>1. UNCHANGED <<status, queue, peeked, buffer, found>>
      BY <2>3 DEF CleanRegistered, CleanSchedules
    <3>2. PICK label \in {"clean3", "done"} : Goto(w, label)
      BY <2>3 DEF CleanRegistered, CleanSchedules
    <3>3. Held(d, "worker", w)' /\ wpc'[w] \in {"clean3", "done"}
      BY <1>4, <3>1, <3>2
    <3>4. Updating(d, w)'
      BY <3>3 DEF Updating, OnlyRecurrent
    <3>5. QED
      BY <1>1, <1>3, <3>1, <3>3, <3>4
  <2>4. CASE UpdateLoad(w)
    <3>1. UNCHANGED <<status, owed, due, wnext, queue, peeked, buffer, found>>
      BY <2>4 DEF UpdateLoad
    <3>2. CASE d \in schedules
      <4>1. Goto(w, "save") /\ wseen'[w] = status[d]
        BY <1>2, <2>4, <3>2 DEF UpdateLoad
      <4>2. Held(d, "worker", w)' /\ wpc'[w] = "save"
        BY <1>4, <3>1, <4>1
      <4>3. Updating(d, w)'
        BY <1>1, <2>4, <3>1, <4>1, <4>2 DEF Updating, OnlyRecurrent, UpdateLoad
      <4>4. QED
        BY <1>1, <1>3, <3>1, <4>2, <4>3
    <3>3. CASE d \notin schedules
      <4>1. UNCHANGED <<wseen, wpc, wdef>>
        BY <2>4, <3>3 DEF UpdateLoad
      <4>2. Held(d, "worker", w)' /\ Updating(d, w)'
        BY <1>1, <3>1, <4>1, HeldUnmoved DEF Updating
      <4>3. QED
        BY <1>1, <1>3, <3>1, <4>2
    <3>4. QED
      BY <3>2, <3>3
  <2>5. CASE UpdateSave(w)
    <3>1. UNCHANGED <<wnext, queue, peeked, buffer, found>> /\ Goto(w, "next") /\ wpc[w] = "save"
      BY <2>5 DEF UpdateSave
    <3>2. status'[d] = status[d]
      BY <1>1, <1>2, <2>5 DEF UpdateSave, SetStatus, Updating
    <3>3. Held(d, "worker", w)' /\ wpc'[w] = "next"
      BY <1>4, <3>1
    <3>4. Updating(d, w)'
      BY <1>1, <3>1, <3>2, <3>3 DEF Updating, OnlyRecurrent
    <3>5. QED
      BY <1>1, <1>3, <3>2, <3>3, <3>4
  <2>6. CASE UpdateNext(w)
    <3>1. UNCHANGED <<status, wnext, queue, peeked, buffer, found>> /\ Goto(w, "check")
      BY <2>6 DEF UpdateNext
    <3>2. ~due'[d] /\ wpc[w] = "next"
      BY <1>1, <1>2, <2>6 DEF UpdateNext, NextRun
    <3>3. Held(d, "worker", w)' /\ wpc'[w] = "check"
      BY <1>4, <3>1
    <3>4. Updating(d, w)'
      BY <1>1, <3>1, <3>2, <3>3 DEF Updating, OnlyRecurrent
    <3>5. QED
      BY <1>1, <1>3, <3>1, <3>3, <3>4
  <2>7. CASE UpdateCheck(w)
    <3>1. UNCHANGED <<status, due, owed, queue, peeked, buffer, found>> /\ wpc[w] = "check"
      BY <2>7 DEF UpdateCheck
    <3>2. CASE IsOver(status[d])
      <4>1. Goto(w, "reset") /\ wnext' = wnext
        BY <2>7, <3>2 DEF UpdateCheck
      <4>2. Held(d, "worker", w)' /\ wpc'[w] = "reset"
        BY <1>4, <3>1, <4>1
      <4>3. Updating(d, w)'
        BY <1>1, <3>1, <3>2, <4>1, <4>2 DEF Updating, OnlyRecurrent, IsOver
      <4>4. QED
        BY <1>1, <1>3, <3>1, <4>2, <4>3
    <3>3. CASE ~IsOver(status[d])
      <4>1. Return(w) /\ wnext[w] = "run"
        BY <1>1, <2>7, <3>1, <3>3 DEF UpdateCheck, Updating, IsOver
      <4>2. Held(d, "worker", w)' /\ wpc'[w] = "run"
        BY <1>4, <3>1, <4>1 DEF Return
      <4>3. Updating(d, w)'
        BY <4>2 DEF Updating, OnlyRecurrent
      <4>4. QED
        BY <1>1, <1>3, <3>1, <4>2, <4>3
    <3>4. QED
      BY <3>2, <3>3
  <2>8. CASE UpdateReset(w)
    <3>1. UNCHANGED <<due, owed, queue, peeked, buffer, found>> /\ wpc[w] = "reset"
      BY <2>8 DEF UpdateReset
    <3>2. Goto(w, "idle")
      BY <1>1, <2>8, <3>1 DEF UpdateReset, Return, Updating
    <3>3. Held(d, "none", w)'
      BY <1>1, <3>1, <3>2, HeldByGoto DEF Carriers
    <3>4. Fits(d, "none", w)'
      BY <1>1, <3>1 DEF Fits, Updating
    <3>5. QED
      BY <3>3, <3>4 DEF Fitted, RecurrentPlaces, Owners
  <2>9. ~(TakeWorkItem(w) \/ ExecuteFail(w) \/ FailAgain(w) \/ DoFail(w) \/ ApplyPolicy(w) \/ EndDelay(w)
          \/ Requeue(w))
    BY <1>1 DEF TakeWorkItem, ExecuteFail, FailAgain, DoFail, ApplyPolicy, EndDelay, Requeue, Updating,
                OnlyRecurrent
  <2>10. QED
    BY <2>1, <2>2, <2>3, <2>4, <2>5, <2>6, <2>7, <2>8, <2>9 DEF WorkerStep, UpdateStatus
<1>8. Fitted(d)'
  BY <1>6, <1>7
<1>9. ExecuteStart(w) => owed[d]
  BY <1>1 DEF ExecuteStart, Updating
<1>10. QED
  BY <1>8, <1>9

LEMMA RecurrentsNext ==
  ASSUME TypeInv, ScanLocked, RecurrentsPlaced, [Next]_vars
  PROVE  RecurrentsPlaced'
<1> SUFFICES ASSUME ~overtaken', NEW d \in Recurrents \ Failing PROVE Fitted(d)'
  BY DEF RecurrentsPlaced, Fitted, RecurrentPlaces
<1>1. Fitted(d)
  BY OvertakenStays DEF RecurrentsPlaced, Fitted, RecurrentPlaces
<1>2. CASE UNCHANGED vars
  <2>1. UNCHANGED <<queue, peeked, buffer, found, wdef, scan, status, due, owed, wpc, wnext, wseen>>
    BY <1>2 DEF vars, storageVars, managerVars, timeVars, workerVars
  <2>2. PICK kind \in RecurrentPlaces, o \in Owners : Held(d, kind, o) /\ Fits(d, kind, o)
    BY <1>1 DEF Fitted
  <2>3. Held(d, kind, o)' /\ Fits(d, kind, o)'
    BY <2>1, <2>2, HeldUnmoved, FitsStays
  <2>4. QED
    BY <2>3 DEF Fitted, Owners
<1>3. ASSUME NEW w \in Workers, WorkerStep(w) PROVE Fitted(d)'
  <2>1. CASE wdef[w] = d
    BY <1>1, <1>3, <2>1, RecurrentByOwn
  <2>2. CASE wdef[w] # d
    BY <1>1, <1>3, <2>2, RecurrentByOther
  <2>3. QED
    BY <2>1, <2>2
<1>4. QED
  BY <1>1, <1>2, <1>3, RecurrentByCaller, RecurrentByManager DEF Next

LEMMA PlacesInit == Init => TypeInv /\ ScanLocked /\ RecurrentsPlaced
  BY InitTyped, RecurrentsInit

LEMMA PlacesNext ==
  TypeInv /\ ScanLocked /\ RecurrentsPlaced /\ [Next]_vars
    => (TypeInv /\ ScanLocked /\ RecurrentsPlaced)'
  BY NextTyped, ScanLockedNext, RecurrentsNext

(* A recurrent job that does not throw never has two copies, unless        *)
(* CheckSchedules has overtaken a job on its way.                          *)
THEOREM RecurrentsHaveOneCopy == Spec => []OneCopy
<1>1. RecurrentsPlaced => OneCopy
  <2> SUFFICES ASSUME RecurrentsPlaced, ~overtaken, NEW d \in Recurrents \ Failing
               PROVE  Cardinality(Copies(d)) <= 1
    BY DEF OneCopy
  <2>1. PICK kind \in RecurrentPlaces, o \in Owners : Held(d, kind, o)
    BY DEF RecurrentsPlaced, RecurrentPlaces
  <2>2. QED
    BY <2>1, OneOrNone
<1>2. QED
  BY <1>1, PlacesInit, PlacesNext, PTL DEF Spec

(* Each of its runs answers an occurrence that has come since the last.    *)
THEOREM RunsAnswerOccurrences == Spec => NoExtraRun
<1> DEFINE Answered == \A w \in Workers :
                         (wdef[w] \in Recurrents \ Failing /\ ExecuteStart(w) /\ ~overtaken)
                           => owed[wdef[w]]
<1>1. ASSUME TypeInv, RecurrentsPlaced, [Next]_vars PROVE [Answered]_vars
  <2> SUFFICES ASSUME NEW w \in Workers, wdef[w] \in Recurrents \ Failing, ExecuteStart(w),
                      ~overtaken
               PROVE  owed[wdef[w]]
    OBVIOUS
  <2>1. Fitted(wdef[w])
    BY <1>1 DEF RecurrentsPlaced, Fitted, RecurrentPlaces
  <2>2. QED
    BY <1>1, <2>1, RecurrentByOwn DEF WorkerStep
<1>2. QED
  BY <1>1, PlacesInit, PlacesNext, PTL DEF Spec, NoExtraRun

-----------------------------------------------------------------------------
(* Jobs that throw: their status may be WaitingProcess while a worker has  *)
(* still to ask the policy.  Apart from such workers, too, a job has one   *)
(* copy, and its status says whether it is on its way.                     *)

Parked(w) == wpc[w] \in {"fail", "filter", "policy"}

Loose(d, kind, o) ==
  /\ Stored(d, kind, o)
  /\ \A w \in Workers : wdef[w] = d /\ ~Parked(w) <=> (kind = "worker" /\ o = w)
  /\ kind = "worker" => o \in Workers

(* What the policy or Execute writes, and where it goes on.                *)
Reports == {<<"Processing", "run">>, <<"Completed", "idle">>, <<"Fail", "fail">>,
            <<"Fail", "filter">>, <<"Fail", "policy">>, <<"Enqueuing", "delay">>,
            <<"Enqueued", "requeue">>}

Reporting(d, w) ==
  /\ wpc[w] \in {"load", "save", "next", "check"} => <<status[d], wnext[w]>> \in Reports
  /\ wpc[w] = "save" => wseen[w] = status[d]
  /\ wpc[w] = "reset" => wnext[w] \in {"idle", "fail", "filter", "policy"}

Tells(d, kind, o) ==
  /\ kind \in {"queue", "manager"} => \A p \in Pools : d \notin scan[p]
  /\ status[d] = "WaitingProcess" <=> kind \in {"none", "queue", "manager"}
  /\ kind = "worker" => Reporting(d, o)

Tracked(d) == \E kind \in RecurrentPlaces, o \in Owners : Loose(d, kind, o) /\ Tells(d, kind, o)
AllTracked == ~overtaken => \A d \in Recurrents : Tracked(d)

LEMMA TrackedInit == Init => AllTracked
<1> SUFFICES ASSUME Init, NEW d \in Recurrents PROVE Tracked(d)
  BY DEF AllTracked
<1>1. d \in Definitions /\ d # NoDef
  BY StorageAssumption DEF Definitions
<1>2. ~Has(<<>>, d) /\ Once(<<>>, d)
  BY DEF Has, Once
<1>3. Loose(d, "none", NoDef)
  BY <1>1, <1>2 DEF Loose, Stored, Init, StorageInit
<1>4. Tells(d, "none", NoDef)
  BY DEF Tells, Init, StorageInit
<1>5. QED
  BY <1>3, <1>4 DEF Tracked, RecurrentPlaces, Owners

LEMMA StoredUnmoved ==
  ASSUME NEW d, NEW kind, NEW o, Stored(d, kind, o), UNCHANGED <<queue, peeked, buffer, found>>
  PROVE  Stored(d, kind, o)'
  BY DEF Stored

LEMMA LooseStored == \A d, kind, o : Loose(d, kind, o) => Stored(d, kind, o)
  BY DEF Loose

(* Outside workers things move as before.                                  *)
LEMMA LooseMoves ==
  ASSUME NEW d, NEW kind, NEW o, Loose(d, kind, o), UNCHANGED <<wdef, wpc>>,
         NEW there, NEW q, Stored(d, there, q)',
         (kind # "worker" /\ there # "worker") \/ (kind = there /\ o = q)
  PROVE  Loose(d, there, q)'
  BY DEF Loose, Parked

LEMMA TellsStays ==
  ASSUME NEW d, NEW kind, NEW o, Tells(d, kind, o),
         \A p \in Pools : d \in scan'[p] => d \in scan[p],
         status'[d] = status[d],
         kind = "worker" => wpc'[o] = wpc[o] /\ wnext'[o] = wnext[o] /\ wseen'[o] = wseen[o]
  PROVE  Tells(d, kind, o)'
<1>1. CASE kind = "worker"
  BY <1>1 DEF Tells, Reporting
<1>2. CASE kind # "worker"
  BY <1>2 DEF Tells
<1>3. QED
  BY <1>1, <1>2

LEMMA TrackedByCaller ==
  ASSUME TypeInv, NEW d \in Recurrents, Tracked(d),
         \/ \E e \in Definitions : TimePasses(e)
         \/ \E c \in Callers : (SetCall(c) /\ UNCHANGED jobVars) \/ CallerRuns(c)
  PROVE  Tracked(d)'
<1> USE DEF jobVars, workerVars, itemVars, idVars, timeVars, callerVars, managerVars, poolSide
<1> PICK kind \in RecurrentPlaces, o \in Owners : Loose(d, kind, o) /\ Tells(d, kind, o)
  BY DEF Tracked
<1>1. Stored(d, kind, o) /\ d \notin Singles
  BY StorageAssumption, LooseStored
<1>2. UNCHANGED <<peeked, found, wdef, scan, status, wpc, wnext, wseen>>
  BY DEF CallerRuns, TimePasses, Occur, SetCall, SetStep, SetBump, SetAdd, SetTake, SetSchedule,
         SetCheck, SetDirect, SetStore
<1>3. Tells(d, kind, o)'
  BY <1>2, TellsStays
<1>4. Stored(d, kind, o)'
  <2>1. ASSUME NEW c \in Callers, SetDirect(c) \/ SetStore(c), UNCHANGED jobVars
        PROVE  Stored(d, kind, o)'
    <3>1. d # cdef[c]
      BY <1>1, <2>1 DEF SetDirect, SetStore, TypeInv, CallersOK
    <3>2. QED
      BY <1>1, <2>1, <3>1, StoredBySetDirect, StoredBySetStore
  <2>2. CASE UNCHANGED <<queue, buffer>>
    BY <1>1, <1>2, <2>2, StoredUnmoved
  <2>3. QED
    BY <2>1, <2>2 DEF CallerRuns, TimePasses, Occur, SetCall, SetStep, SetBump, SetAdd, SetTake,
                      SetSchedule, SetCheck
<1>5. QED
  BY <1>2, <1>3, <1>4, LooseMoves DEF Tracked, Owners

LEMMA TrackedByManager ==
  ASSUME TypeInv, ScanLocked, NEW d \in Recurrents, Tracked(d), NEW p \in Pools,
         (Start(p) /\ UNCHANGED jobVars) \/ ManagerRuns(p), ~overtaken'
  PROVE  Tracked(d)'
<1> USE DEF jobVars, workerVars, itemVars, callerSide, timeVars
<1> PICK kind \in RecurrentPlaces, o \in Owners : Loose(d, kind, o) /\ Tells(d, kind, o)
  BY DEF Tracked
<1>1. /\ d \in Definitions /\ d # NoDef /\ p \in Owners /\ NoDef \in Owners
      /\ Stored(d, kind, o)
  BY StorageAssumption, LooseStored DEF Definitions, Owners
<1>2. UNCHANGED <<wdef, wpc, wnext, wseen>>
  BY DEF ManagerRuns, ManagerStep, Start, PeekCall, LockSchedules, CheckSchedule, EnqueueSchedule,
         UnlockSchedules, PeekItem, MarkEnqueued, PeekReturns, FillBuffer
<1>3. ASSUME Stored(d, kind, o)', Tells(d, kind, o)' PROVE Tracked(d)'
  <2>1. Loose(d, kind, o)'
    BY <1>2, <1>3, LooseMoves
  <2>2. QED
    BY <1>3, <2>1 DEF Tracked, Owners
<1>4. ASSUME NEW there \in {"queue", "peeked", "buffer", "manager"}, NEW q \in Owners,
             kind # "worker", Stored(d, there, q)', Tells(d, there, q)'
      PROVE  Tracked(d)'
  <2>1. Loose(d, there, q)'
    BY <1>2, <1>4, LooseMoves
  <2>2. QED
    BY <1>4, <2>1 DEF Tracked, RecurrentPlaces, Carriers, Owners
<1>5. ASSUME NEW there \in {"queue", "buffer", "manager"}, NEW q,
             kind \in {"queue", "manager", "peeked"}, there = "buffer" <=> kind = "peeked",
             UNCHANGED <<scan, status>>
      PROVE  Tells(d, there, q)'
  BY <1>5 DEF Tells
<1>6. CASE \/ Start(p) \/ PeekCall(p) \/ UnlockSchedules(p) \/ PeekReturns(p)
  <2>1. UNCHANGED <<queue, peeked, buffer, found, scan, status>>
    BY <1>6 DEF Start, PeekCall, UnlockSchedules, PeekReturns
  <2>2. QED
    BY <1>1, <1>2, <1>3, <2>1, StoredUnmoved, TellsStays
<1>7. CASE LockSchedules(p)
  <2>1. UNCHANGED <<queue, peeked, buffer, found, status>> /\ ~Unmarked(d)
    BY <1>7 DEF LockSchedules
  <2>2. kind \notin {"queue", "manager"}
    BY <1>1, <2>1 DEF Unmarked, Stored, Has
  <2>3. Tells(d, kind, o)'
    BY <1>2, <2>1, <2>2 DEF Tells, Reporting
  <2>4. QED
    BY <1>1, <1>3, <2>1, <2>3, StoredUnmoved
<1>8. CASE CheckSchedule(p)
  <2>1. PICK m \in scan[p] : /\ scan' = [scan EXCEPT ![p] = @ \ {m}]
                             /\ IF IsDue(m) THEN found' = [found EXCEPT ![p] = m]
                                            ELSE found' = found
    BY <1>8 DEF CheckSchedule
  <2>2. /\ ppc[p] = "scan" /\ m \in Recurrents /\ UNCHANGED <<queue, peeked, buffer, status>>
        /\ DOMAIN scan = Pools
    BY <1>8 DEF CheckSchedule, TypeInv, TypeOK, StorageTypeOK
  <2>3. \A q \in Pools : d \in scan'[q] => d \in scan[q]
    BY <2>1, <2>2
  <2>4. Tells(d, kind, o)'
    BY <1>2, <2>2, <2>3, TellsStays
  <2>5. CASE IsDue(m) /\ d = m
    <3>1. kind = "none"
      BY <2>1, <2>5 DEF Tells, IsDue
    <3>2. Stored(d, "manager", p)'
      BY <1>1, <1>2, <2>1, <2>2, <2>5, <3>1, StoredByCheckSchedule DEF Carriers
    <3>3. \A q \in Pools : d \notin scan'[q]
      BY <2>1, <2>2, <2>5 DEF ScanLocked, Scanning
    <3>4. Tells(d, "manager", p)'
      BY <2>2, <3>1, <3>3 DEF Tells
    <3>5. QED
      BY <1>1, <1>4, <3>1, <3>2, <3>4
  <2>6. CASE IsDue(m) /\ d # m
    BY <1>1, <1>2, <1>3, <2>1, <2>2, <2>4, <2>6, StoredByCheckSchedule
  <2>7. CASE ~IsDue(m)
    BY <1>1, <1>3, <2>1, <2>2, <2>4, <2>7, StoredUnmoved
  <2>8. QED
    BY <2>5, <2>6, <2>7
<1>9. CASE EnqueueSchedule(p) /\ UNCHANGED jobVars
  <2>1. UNCHANGED <<scan, status>>
    BY <1>9 DEF EnqueueSchedule
  <2>2. CASE d = found[p]
    BY <1>1, <1>4, <1>5, <1>9, <2>1, <2>2, StoredByEnqueueSchedule
  <2>3. CASE d # found[p]
    BY <1>1, <1>2, <1>3, <1>9, <2>1, <2>3, TellsStays, StoredByEnqueueSchedule
  <2>4. QED
    BY <2>2, <2>3
<1>10. CASE PeekItem(p) /\ UNCHANGED jobVars
  <2>1. UNCHANGED <<scan, status>>
    BY <1>10 DEF PeekItem
  <2>2. CASE d = Head(queue)
    BY <1>1, <1>4, <1>5, <1>10, <2>1, <2>2, StoredByPeekItem
  <2>3. CASE d # Head(queue)
    BY <1>1, <1>2, <1>3, <1>10, <2>1, <2>3, TellsStays, StoredByPeekItem
  <2>4. QED
    BY <2>2, <2>3
<1>11. CASE MarkEnqueued(p) /\ UNCHANGED jobVars
  <2>1. scan' = scan /\ status'[d] = IF d = found[p] THEN "Enqueued" ELSE status[d]
    BY <1>11 DEF MarkEnqueued
  <2>2. CASE d = found[p]
    <3>1. kind = "manager" /\ Stored(d, "peeked", p)'
      BY <1>1, <1>11, <2>2, StoredByMarkEnqueued
    <3>2. Tells(d, "peeked", p)'
      BY <2>1, <2>2, <3>1 DEF Tells
    <3>3. QED
      BY <1>1, <1>4, <3>1, <3>2
  <2>3. CASE d # found[p]
    BY <1>1, <1>2, <1>3, <1>11, <2>1, <2>3, TellsStays, StoredByMarkEnqueued
  <2>4. QED
    BY <2>2, <2>3
<1>12. CASE FillBuffer(p) /\ UNCHANGED jobVars
  <2>1. UNCHANGED <<scan, status>>
    BY <1>12 DEF FillBuffer
  <2>2. CASE d = Head(peeked[p])
    BY <1>1, <1>4, <1>5, <1>12, <2>1, <2>2, StoredByFillBuffer
  <2>3. CASE d # Head(peeked[p])
    BY <1>1, <1>2, <1>3, <1>12, <2>1, <2>3, TellsStays, StoredByFillBuffer
  <2>4. QED
    BY <2>2, <2>3
<1>13. QED
  BY <1>6, <1>7, <1>8, <1>9, <1>10, <1>11, <1>12 DEF ManagerRuns, ManagerStep

(* A worker leaves the others alone, and the status of other jobs.         *)
LEMMA OthersStay ==
  ASSUME TypeInv, NEW w \in Workers, WorkerStep(w)
  PROVE  /\ \A v \in Workers \ {w} : /\ wpc'[v] = wpc[v] /\ wdef'[v] = wdef[v]
                                     /\ wnext'[v] = wnext[v] /\ wseen'[v] = wseen[v]
         /\ \A d \in Recurrents : d # wdef[w] => status'[d] = status[d]
         /\ scan' = scan
         /\ TakeWorkItem(w) \/ wdef'[w] \in {wdef[w], NoDef}
<1> USE DEF notStatus, offHistory, storageVars, callerVars, managerVars, timeVars
<1>1. /\ DOMAIN wpc = Workers /\ DOMAIN wnext = Workers /\ DOMAIN wseen = Workers
      /\ DOMAIN wdef = Workers /\ DOMAIN status = Recurrents
  BY DEF TypeInv, TypeOK, StorageTypeOK
<1>2. ASSUME NEW label, Goto(w, label)
      PROVE  /\ \A v \in Workers \ {w} : wpc'[v] = wpc[v] /\ wdef'[v] = wdef[v]
             /\ wdef'[w] \in {wdef[w], NoDef}
  BY <1>1, <1>2 DEF Goto
<1>3. scan' = scan
  BY DEF WorkerStep, UpdateStatus, TakeWorkItem, ExecuteStart, ExecuteComplete, CleanQueue,
         CleanRegistered, CleanSchedules, ExecuteFail, FailAgain, DoFail, ApplyPolicy, EndDelay, Requeue,
         UpdateLoad, UpdateSave, UpdateNext, UpdateCheck, UpdateReset
<1>4. TakeWorkItem(w) \/ (\E label : Goto(w, label)) \/ UNCHANGED <<wpc, wdef>>
  BY ReportGoto
     DEF WorkerStep, UpdateStatus, ExecuteStart, ExecuteComplete, CleanQueue,
         CleanRegistered, CleanSchedules, ExecuteFail, FailAgain, DoFail, ApplyPolicy, EndDelay, Requeue,
         UpdateLoad, UpdateSave, UpdateNext, UpdateCheck, UpdateReset, Return
<1>5. TakeWorkItem(w) => \A v \in Workers \ {w} : wpc'[v] = wpc[v] /\ wdef'[v] = wdef[v]
  BY <1>1 DEF TakeWorkItem
<1>6. \A v \in Workers \ {w} : wnext'[v] = wnext[v] /\ wseen'[v] = wseen[v]
  BY <1>1
     DEF WorkerStep, UpdateStatus, TakeWorkItem, ExecuteStart, ExecuteComplete, CleanQueue,
         CleanRegistered, CleanSchedules, ExecuteFail, FailAgain, DoFail, ApplyPolicy, EndDelay, Requeue,
         UpdateLoad, UpdateSave, UpdateNext, UpdateCheck, UpdateReset, Report, Return
<1>7. \A d \in Recurrents : d # wdef[w] => status'[d] = status[d]
  BY <1>1
     DEF WorkerStep, UpdateStatus, TakeWorkItem, ExecuteStart, ExecuteComplete, CleanQueue,
         CleanRegistered, CleanSchedules, ExecuteFail, FailAgain, DoFail, ApplyPolicy, EndDelay, Requeue,
         UpdateLoad, UpdateSave, UpdateNext, UpdateCheck, UpdateReset, Report, SetStatus
<1>8. QED
  BY <1>2, <1>3, <1>4, <1>5, <1>6, <1>7

LEMMA TrackedByOther ==
  ASSUME TypeInv, NEW d \in Recurrents, Tracked(d), NEW w \in Workers, WorkerStep(w),
         wdef[w] # d
  PROVE  Tracked(d)'
<1> USE DEF storageVars, notStatus, offHistory, managerVars
<1> PICK kind \in RecurrentPlaces, o \in Owners : Loose(d, kind, o) /\ Tells(d, kind, o)
  BY DEF Tracked
<1>1. d # NoDef /\ Stored(d, kind, o) /\ DOMAIN wpc = Workers /\ DOMAIN wdef = Workers
  BY StorageAssumption, LooseStored DEF Definitions, TypeInv, TypeOK
<1>2. kind = "worker" => o \in Workers /\ o # w
  BY DEF Loose
<1>3. Tells(d, kind, o)'
  BY <1>2, OthersStay, TellsStays
<1>4. ASSUME NEW there \in RecurrentPlaces, Stored(d, there, o)', Tells(d, there, o)',
             wdef'[w] # d,
             (kind # "worker" /\ there # "worker") \/ kind = there
      PROVE  Tracked(d)'
  <2>1. \A v \in Workers : wdef'[v] = d /\ ~Parked(v)' <=> wdef[v] = d /\ ~Parked(v)
    BY <1>4, OthersStay DEF Parked
  <2>2. Loose(d, there, o)'
    BY <1>4, <2>1 DEF Loose
  <2>3. QED
    BY <1>4, <2>2 DEF Tracked, Owners
<1>5. CASE TakeWorkItem(w)
  <2> PICK m : m = Head(buffer[PoolOf[w]])
    OBVIOUS
  <2>1. /\ wdef'[w] = m /\ wpc'[w] = "got"
    BY <1>1, <1>5 DEF TakeWorkItem
  <2>2. CASE d = m
    <3>1. kind = "buffer" /\ Stored(d, "worker", w)'
      BY <1>1, <1>5, <2>2, StoredByTakeWorkItem
    <3>2. \A v \in Workers : wdef'[v] = d /\ ~Parked(v)' <=> v = w
      <4>1. \A v \in Workers : ~(wdef[v] = d /\ ~Parked(v))
        BY <3>1 DEF Loose
      <4>2. QED
        BY <2>1, <2>2, <4>1, OthersStay DEF Parked
    <3>3. Tells(d, "worker", w)'
      BY <2>1, <3>1, OthersStay DEF Tells, Reporting
    <3>4. Loose(d, "worker", w)'
      BY <3>1, <3>2 DEF Loose
    <3>5. QED
      BY <3>3, <3>4 DEF Tracked, RecurrentPlaces, Carriers, Owners
  <2>3. CASE d # m
    BY <1>1, <1>3, <1>4, <1>5, <2>1, <2>3, StoredByTakeWorkItem
  <2>4. QED
    BY <2>2, <2>3
<1>6. ~TakeWorkItem(w) => wdef'[w] # d
  BY <1>1, OthersStay
<1>7. CASE Requeue(w)
  <2>1. ~TakeWorkItem(w)
    BY <1>7 DEF Requeue, TakeWorkItem
  <2>2. QED
    BY <1>1, <1>3, <1>4, <1>6, <1>7, <2>1, StoredByRequeue
<1>8. CASE CleanQueue(w)
  <2>1. ~TakeWorkItem(w) /\ "none" \notin Carriers /\ status'[d] = status[d]
    BY <1>8, OthersStay DEF CleanQueue, TakeWorkItem, Carriers
  <2>2. CASE kind = "queue"
    <3>1. Stored(d, "none", o)'
      BY <1>1, <1>8, <2>1, <2>2, StoredByCleanQueue
    <3>2. Tells(d, "none", o)'
      BY <2>1, <2>2 DEF Tells
    <3>3. QED
      BY <1>4, <1>6, <2>1, <2>2, <3>1, <3>2 DEF RecurrentPlaces
  <2>3. CASE kind # "queue"
    <3>1. Stored(d, kind, o)'
      BY <1>1, <1>8, <2>1, <2>3, StoredByCleanQueue
    <3>2. QED
      BY <1>3, <1>4, <1>6, <2>1, <3>1
  <2>4. QED
    BY <2>2, <2>3
<1>9. CASE ~(TakeWorkItem(w) \/ Requeue(w) \/ CleanQueue(w))
  <2>1. UNCHANGED <<queue, peeked, buffer, found>>
    BY <1>9
       DEF WorkerStep, UpdateStatus, ExecuteStart, ExecuteComplete, CleanRegistered,
           CleanSchedules, ExecuteFail, FailAgain, DoFail, ApplyPolicy, EndDelay,
           UpdateLoad, UpdateSave, UpdateNext, UpdateCheck, UpdateReset
  <2>2. QED
    BY <1>1, <1>3, <1>4, <1>6, <1>9, <2>1, StoredUnmoved
<1>10. QED
  BY <1>5, <1>7, <1>8, <1>9

(* A worker that has still to ask the policy has a copy of its own.        *)
LEMMA SomeCopy ==
  ASSUME NEW d, NEW kind \in Carriers, NEW o, Loose(d, kind, o)
  PROVE  \E x \in Copies(d) : x[1] = kind /\ (kind = "worker" => x = <<"worker", o>>)
<1>1. CASE kind = "queue"
  <2>1. PICK k \in DOMAIN queue : queue[k] = d
    BY <1>1 DEF Loose, Stored, Has
  <2>2. <<"queue", k>> \in Copies(d)
    BY <2>1 DEF Copies, PlacesIn
  <2>3. QED
    BY <1>1, <2>2
<1>2. CASE kind = "peeked"
  <2>1. PICK k \in DOMAIN peeked[o] : o \in Pools /\ peeked[o][k] = d
    BY <1>2 DEF Loose, Stored, Has
  <2>2. <<"peeked", o, k>> \in Copies(d)
    BY <2>1 DEF Copies, PlacesIn
  <2>3. QED
    BY <1>2, <2>2
<1>3. CASE kind = "buffer"
  <2>1. PICK k \in DOMAIN buffer[o] : o \in Pools /\ buffer[o][k] = d
    BY <1>3 DEF Loose, Stored, Has
  <2>2. <<"buffer", o, k>> \in Copies(d)
    BY <2>1 DEF Copies, PlacesIn
  <2>3. QED
    BY <1>3, <2>2
<1>4. CASE kind = "manager"
  <2>1. <<"manager", o>> \in Copies(d)
    BY <1>4 DEF Loose, Stored, Copies
  <2>2. QED
    BY <1>4, <2>1
<1>5. CASE kind = "worker"
  <2>1. <<"worker", o>> \in Copies(d)
    BY <1>5 DEF Loose, Copies
  <2>2. QED
    BY <1>5, <2>1
<1>6. QED
  BY <1>1, <1>2, <1>3, <1>4, <1>5 DEF Carriers

LEMMA NoOtherCopy ==
  ASSUME NEW d \in Recurrents, NEW kind \in RecurrentPlaces, NEW o, Loose(d, kind, o),
         NEW w \in Workers, wdef[w] = d, Parked(w), NoteSecondCopy(d), ~overtaken'
  PROVE  kind = "none"
<1>1. \A x, y \in Copies(d) : x = y
  BY DEF NoteSecondCopy
<1>2. <<"worker", w>> \in Copies(d)
  BY DEF Copies
<1>3. kind = "worker" => o # w
  BY DEF Loose
<1>4. ASSUME kind \in Carriers PROVE FALSE
  <2>1. PICK x \in Copies(d) : x[1] = kind /\ (kind = "worker" => x = <<"worker", o>>)
    BY <1>4, SomeCopy
  <2>2. x = <<"worker", w>>
    BY <1>1, <1>2, <2>1
  <2>3. QED
    BY <1>3, <2>1, <2>2
<1>5. QED
  BY <1>4 DEF RecurrentPlaces

LEMMA TrackedByOwn ==
  ASSUME TypeInv, NEW w \in Workers, WorkerStep(w), NEW d \in Recurrents, d = wdef[w],
         Tracked(d), ~overtaken'
  PROVE  Tracked(d)'
<1> USE DEF notStatus, offHistory, storageVars, callerVars, managerVars, timeVars
<1> PICK kind \in RecurrentPlaces, o \in Owners : Loose(d, kind, o) /\ Tells(d, kind, o)
  BY DEF Tracked
<1>1. /\ d # NoDef /\ Stored(d, kind, o) /\ scan' = scan
      /\ wdef[w] # NoDef /\ wpc[w] # "idle"
  BY StorageAssumption, LooseStored, OthersStay DEF Definitions, TypeInv, WorkersOK
<1>2. /\ DOMAIN wpc = Workers /\ DOMAIN wnext = Workers /\ DOMAIN wseen = Workers
      /\ DOMAIN wdef = Workers /\ DOMAIN status = Recurrents
  BY DEF TypeInv, TypeOK, StorageTypeOK
<1>3. ~TakeWorkItem(w)
  BY <1>1 DEF TakeWorkItem
<1>4. ASSUME NEW label, Goto(w, label)
      PROVE  /\ wpc'[w] = label
             /\ wdef'[w] = IF label = "idle" THEN NoDef ELSE d
  BY <1>2, <1>4 DEF Goto
<1>5. ASSUME NEW s, NEW next, Report(w, s, next), <<s, next>> \in Reports
      PROVE  /\ wdef'[w] = d /\ wpc'[w] = "load" /\ status'[d] = s /\ s # "WaitingProcess"
             /\ Reporting(d, w)'
  <2>1. Goto(w, "load")
    BY <1>5, ReportGoto
  <2>2. status'[d] = s /\ wnext'[w] = next
    BY <1>2, <1>5 DEF Report, SetStatus
  <2>3. s # "WaitingProcess"
    BY <1>5 DEF Reports
  <2>4. QED
    BY <1>4, <1>5, <2>1, <2>2, <2>3 DEF Reporting
(* Copies in the hands of workers, when d is in no other place.            *)
<1>6. ASSUME NEW there \in {"worker", "none"}, kind \in {"worker", "none"},
             kind = "worker" => o = w,
             Stored(d, kind, o)',
             wdef'[w] = d /\ ~Parked(w)' <=> there = "worker",
             status'[d] = "WaitingProcess" <=> there = "none",
             there = "worker" => Reporting(d, w)'
      PROVE  Tracked(d)'
  <2>1. Stored(d, there, w)'
    BY <1>6 DEF Stored
  <2>2. \A v \in Workers : wdef'[v] = d /\ ~Parked(v)' <=> there = "worker" /\ v = w
    BY <1>6, OthersStay DEF Loose, Parked
  <2>3. Loose(d, there, w)'
    BY <2>1, <2>2 DEF Loose
  <2>4. Tells(d, there, w)'
    BY <1>6 DEF Tells
  <2>5. QED
    BY <2>3, <2>4 DEF Tracked, RecurrentPlaces, Carriers, Owners
<1>7. CASE Parked(w)
  <2>1. CASE FailAgain(w) \/ DoFail(w) \/ (ApplyPolicy(w) /\ ReTry(d))
    <3>1. /\ \/ Report(w, "Fail", "filter")
             \/ Report(w, "Fail", "policy")
             \/ Report(w, "Enqueuing", "delay")
          /\ NoteSecondCopy(d)
          /\ UNCHANGED <<queue, peeked, buffer, found>>
      BY <2>1 DEF FailAgain, DoFail, ApplyPolicy
    <3>2. kind = "none" /\ Stored(d, kind, o)'
      BY <1>1, <1>7, <3>1, NoOtherCopy, StoredUnmoved
    <3>3. {<<"Fail", "filter">>, <<"Fail", "policy">>, <<"Enqueuing", "delay">>} \subseteq Reports
      BY DEF Reports
    <3>4. /\ wdef'[w] = d /\ wpc'[w] = "load" /\ status'[d] # "WaitingProcess"
          /\ Reporting(d, w)'
      BY <1>5, <3>1, <3>3
    <3>5. QED
      BY <1>6, <3>2, <3>4 DEF Parked
  <2>2. CASE ApplyPolicy(w) /\ ~ReTry(d)
    <3>1. Goto(w, "idle") /\ UNCHANGED <<status, wnext, wseen, queue, peeked, buffer, found>>
      BY <2>2 DEF ApplyPolicy
    <3>2. kind = "worker" => o \in Workers \ {w}
      BY <1>7 DEF Loose
    <3>3. \A v \in Workers : wdef'[v] = d /\ ~Parked(v)' <=> wdef[v] = d /\ ~Parked(v)
      BY <1>1, <1>4, <1>7, <3>1, OthersStay DEF Parked
    <3>4. Loose(d, kind, o)'
      BY <1>1, <3>1, <3>3, StoredUnmoved DEF Loose
    <3>5. Tells(d, kind, o)'
      BY <1>1, <3>1, <3>2, OthersStay, TellsStays
    <3>6. QED
      BY <3>4, <3>5 DEF Tracked, Owners
  <2>3. FailAgain(w) \/ DoFail(w) \/ ApplyPolicy(w)
    BY <1>7
       DEF Parked, WorkerStep, UpdateStatus, TakeWorkItem, ExecuteStart, ExecuteComplete,
           CleanQueue, CleanRegistered, CleanSchedules, ExecuteFail, EndDelay, Requeue, UpdateLoad,
           UpdateSave, UpdateNext, UpdateCheck, UpdateReset
  <2>4. QED
    BY <2>1, <2>2, <2>3
<1>8. CASE ~Parked(w)
  <2>1. kind = "worker" /\ o = w /\ status[d] # "WaitingProcess" /\ Reporting(d, w)
    BY <1>8 DEF Loose, Tells
  <2>2. ASSUME Stored(d, kind, o)', wdef'[w] = d, ~Parked(w)', status'[d] # "WaitingProcess",
               Reporting(d, w)'
        PROVE  Tracked(d)'
    BY <1>6, <2>1, <2>2
  <2>3. CASE ExecuteStart(w) \/ ExecuteComplete(w) \/ ExecuteFail(w) \/ EndDelay(w)
    <3>1. UNCHANGED <<queue, peeked, buffer, found>>
      BY <2>3 DEF ExecuteStart, ExecuteComplete, ExecuteFail, EndDelay
    <3>2. \E s, next : Report(w, s, next) /\ <<s, next>> \in Reports
      BY <2>3 DEF ExecuteStart, ExecuteComplete, ExecuteFail, EndDelay, Reports
    <3>3. QED
      BY <1>1, <1>5, <2>2, <3>1, <3>2, StoredUnmoved DEF Parked
  <2>4. CASE CleanQueue(w)
    <3>1. "none" \notin Carriers /\ Goto(w, "clean2") /\ status' = status
      BY <2>4 DEF Carriers, CleanQueue
    <3>2. Stored(d, kind, o)'
      BY <1>1, <2>1, <2>4, <3>1, StoredByCleanQueue
    <3>3. QED
      BY <1>4, <2>1, <2>2, <3>1, <3>2 DEF Parked, Reporting
  <2>5. CASE CleanRegistered(w) \/ CleanSchedules(w)
    <3>1. UNCHANGED <<status, queue, peeked, buffer, found>>
      BY <2>5 DEF CleanRegistered, CleanSchedules
    <3>2. PICK label \in {"clean3", "done"} : Goto(w, label)
      BY <2>5 DEF CleanRegistered, CleanSchedules
    <3>3. QED
      BY <1>1, <1>4, <2>1, <2>2, <3>1, <3>2, StoredUnmoved DEF Parked, Reporting
  <2>6. CASE Requeue(w)
    <3>1. Stored(d, "buffer", PoolOf[w])' /\ PoolOf[w] \in Pools
      BY <1>1, <2>1, <2>6, StoredByRequeue, WorkersAssumption
    <3>2. Goto(w, "idle") /\ status' = status
      BY <2>6 DEF Requeue
    <3>3. \A v \in Workers : ~(wdef'[v] = d /\ ~Parked(v)')
      BY <1>1, <1>4, <2>1, <3>2, OthersStay DEF Loose, Parked
    <3>4. Loose(d, "buffer", PoolOf[w])'
      BY <3>1, <3>3 DEF Loose
    <3>5. Tells(d, "buffer", PoolOf[w])'
      BY <2>1, <3>2 DEF Tells
    <3>6. QED
      BY <3>1, <3>4, <3>5 DEF Tracked, RecurrentPlaces, Carriers, Owners
  <2>7. CASE UpdateLoad(w)
    <3>1. UNCHANGED <<status, wnext, queue, peeked, buffer, found>> /\ wpc[w] = "load"
      BY <2>7 DEF UpdateLoad
    <3>2. Stored(d, kind, o)'
      BY <1>1, <3>1, StoredUnmoved
    <3>3. CASE d \in schedules
      <4>1. Goto(w, "save") /\ wseen'[w] = status[d]
        BY <1>2, <2>7, <3>3 DEF UpdateLoad
      <4>2. QED
        BY <1>4, <2>1, <2>2, <3>1, <3>2, <4>1 DEF Parked, Reporting
    <3>4. CASE d \notin schedules
      <4>1. UNCHANGED <<wseen, wpc, wdef>>
        BY <2>7, <3>4 DEF UpdateLoad
      <4>2. QED
        BY <2>1, <2>2, <3>1, <3>2, <4>1 DEF Parked, Reporting
    <3>5. QED
      BY <3>3, <3>4
  <2>8. CASE UpdateSave(w)
    <3>1. UNCHANGED <<wnext, queue, peeked, buffer, found>> /\ Goto(w, "next") /\ wpc[w] = "save"
      BY <2>8 DEF UpdateSave
    <3>2. status'[d] = status[d]
      BY <1>2, <2>1, <2>8 DEF UpdateSave, SetStatus, Reporting
    <3>3. QED
      BY <1>1, <1>4, <2>1, <2>2, <3>1, <3>2, StoredUnmoved DEF Parked, Reporting
  <2>9. CASE UpdateNext(w)
    <3>1. UNCHANGED <<status, wnext, queue, peeked, buffer, found>> /\ Goto(w, "check")
          /\ wpc[w] = "next"
      BY <2>9 DEF UpdateNext
    <3>2. QED
      BY <1>1, <1>4, <2>1, <2>2, <3>1, StoredUnmoved DEF Parked, Reporting
  <2>10. CASE UpdateCheck(w)
    <3>1. UNCHANGED <<status, queue, peeked, buffer, found>> /\ wpc[w] = "check"
      BY <2>10 DEF UpdateCheck
    <3>2. Stored(d, kind, o)' /\ <<status[d], wnext[w]>> \in Reports
      BY <1>1, <2>1, <3>1, StoredUnmoved DEF Reporting
    <3>3. CASE IsOver(status[d])
      <4>1. Goto(w, "reset") /\ wnext' = wnext
        BY <2>10, <3>3 DEF UpdateCheck
      <4>2. wnext[w] \in {"idle", "fail", "filter", "policy"}
        BY <3>2, <3>3 DEF Reports, IsOver
      <4>3. QED
        BY <1>4, <2>1, <2>2, <3>1, <3>2, <4>1, <4>2 DEF Parked, Reporting
    <3>4. CASE ~IsOver(status[d])
      <4>1. Goto(w, wnext[w])
        BY <2>10, <3>4 DEF UpdateCheck, Return
      <4>2. wnext[w] \in {"run", "delay", "requeue"}
        BY <3>2, <3>4 DEF Reports, IsOver
      <4>3. QED
        BY <1>4, <2>1, <2>2, <3>1, <3>2, <4>1, <4>2 DEF Parked, Reporting
    <3>5. QED
      BY <3>3, <3>4
  <2>11. CASE UpdateReset(w)
    <3>1. UNCHANGED <<queue, peeked, buffer, found>> /\ Goto(w, wnext[w]) /\ wpc[w] = "reset"
      BY <2>11 DEF UpdateReset, Return
    <3>2. status'[d] = "WaitingProcess"
      BY <1>2, <2>11 DEF UpdateReset, SetStatus
    <3>3. wnext[w] \in {"idle", "fail", "filter", "policy"}
      BY <2>1, <3>1 DEF Reporting
    <3>4. ~(wdef'[w] = d /\ ~Parked(w)')
      BY <1>1, <1>4, <3>1, <3>3 DEF Parked
    <3>5. Stored(d, kind, o)'
      BY <1>1, <3>1, StoredUnmoved
    <3>6. QED
      BY <1>6, <2>1, <3>2, <3>4, <3>5
  <2>12. ~(FailAgain(w) \/ DoFail(w) \/ ApplyPolicy(w))
    BY <1>8 DEF FailAgain, DoFail, ApplyPolicy, Parked
  <2>13. QED
    BY <1>3, <2>3, <2>4, <2>5, <2>6, <2>7, <2>8, <2>9, <2>10, <2>11, <2>12
       DEF WorkerStep, UpdateStatus
<1>9. QED
  BY <1>7, <1>8

LEMMA TrackedNext ==
  ASSUME TypeInv, ScanLocked, AllTracked, [Next]_vars
  PROVE  AllTracked'
<1> SUFFICES ASSUME ~overtaken', NEW d \in Recurrents PROVE Tracked(d)'
  BY DEF AllTracked
<1>1. Tracked(d)
  BY OvertakenStays DEF AllTracked
<1>2. CASE UNCHANGED vars
  <2>1. UNCHANGED <<queue, peeked, buffer, found, wdef, scan, status, wpc, wnext, wseen>>
    BY <1>2 DEF vars, storageVars, managerVars, workerVars
  <2>2. PICK kind \in RecurrentPlaces, o \in Owners : Loose(d, kind, o) /\ Tells(d, kind, o)
    BY <1>1 DEF Tracked
  <2>3. Stored(d, kind, o)' /\ Tells(d, kind, o)'
    BY <2>1, <2>2, LooseStored, StoredUnmoved, TellsStays
  <2>4. Loose(d, kind, o)'
    BY <2>1, <2>2, <2>3, LooseMoves
  <2>5. QED
    BY <2>3, <2>4 DEF Tracked, Owners
<1>3. ASSUME NEW w \in Workers, WorkerStep(w) PROVE Tracked(d)'
  <2>1. CASE wdef[w] = d
    BY <1>1, <1>3, <2>1, TrackedByOwn
  <2>2. CASE wdef[w] # d
    BY <1>1, <1>3, <2>2, TrackedByOther
  <2>3. QED
    BY <2>1, <2>2
<1>4. QED
  BY <1>1, <1>2, <1>3, TrackedByCaller, TrackedByManager DEF Next

(* Unless CheckSchedules has overtaken a job, one that it passes over for  *)
(* its status is on its way: no schedule stays behind with a status that   *)
(* nobody is going to reset, whatever jobs throw and whoever retries them. *)
THEOREM SchedulesAreNotForgotten == Spec => []NeverForgotten
<1>1. AllTracked => NeverForgotten
  <2> SUFFICES ASSUME AllTracked, ~overtaken, NEW d \in Recurrents, status[d] # "WaitingProcess"
               PROVE  Copies(d) # {}
    BY DEF NeverForgotten
  <2>1. PICK kind \in RecurrentPlaces, o \in Owners : Loose(d, kind, o) /\ Tells(d, kind, o)
    BY DEF AllTracked, Tracked
  <2>2. kind \in Carriers
    BY <2>1 DEF Tells, RecurrentPlaces
  <2>3. QED
    BY <2>1, <2>2, SomeCopy
<1>2. Init => TypeInv /\ ScanLocked /\ AllTracked
  BY InitTyped, RecurrentsInit, TrackedInit
<1>3. TypeInv /\ ScanLocked /\ AllTracked /\ [Next]_vars => (TypeInv /\ ScanLocked /\ AllTracked)'
  BY NextTyped, ScanLockedNext, TrackedNext
<1>4. QED
  BY <1>1, <1>2, <1>3, PTL DEF Spec

-----------------------------------------------------------------------------
(* No schedule is dropped: the n-th call of Set ends with the sequence at  *)
(* 2^n - 1, above all ids given out before.                                *)

Sequential == (\E c \in Callers : Callers = {c}) /\ CleanJob = NoDef

(* The definitions whose call of Set is over.                              *)
Settled == (Definitions \ unset) \ {cdef[c] : c \in Callers}

(* The ids suffice for n calls, and for the one that is under way.         *)
IdsLast(c, n) == n \in 0 .. IdBits /\ (n = IdBits => cpc[c] = "idle")

CallInOrder(c, n) ==
  /\ cpc[c] \in {"idle", "bump"} => sequence = 2^n - 1
  /\ cpc[c] = "add" => sequence = 2^n
  /\ cpc[c] \in {"bump", "add"} => cval[c] = 2^n - 1
  /\ cpc[c] \in {"take", "put", "direct", "store"} => sequence = 2^(n + 1) - 1
  /\ cpc[c] \in {"put", "direct", "store"} => ids[cdef[c]] = 2^(n + 1) - 1

KeptSoFar(n) ==
  /\ Settled \cap Recurrents \subseteq schedules
  /\ \A d \in Settled : ids[d] < 2^n

SetInOrder(c) ==
  /\ cdef[c] \notin unset
  /\ IsFiniteSet(Settled)
  /\ schedules \subseteq Settled
  /\ IdsLast(c, Cardinality(Settled)) =>
       CallInOrder(c, Cardinality(Settled)) /\ KeptSoFar(Cardinality(Settled))

CleanedBy == \A w \in Workers : wpc[w] \in {"clean2", "clean3"} => wdef[w] = CleanJob

IdsInOrder == CleanedBy /\ (Sequential => \A c \in Callers : SetInOrder(c))

LEMMA PowersGrow ==
  ASSUME NEW n \in 0 .. IdBits - 1
  PROVE  /\ 2^n \in Nat \ {0} /\ 2^(n + 1) = 2 * 2^n
         /\ 2^(n + 1) <= 2^IdBits /\ 2^IdBits \in Nat
  BY StorageAssumption, PowersAssumption

LEMMA SmallUnwrapped ==
  ASSUME NEW n \in 0 .. 2^IdBits - 1
  PROVE  Wrap(n) = n
  BY PowersAssumption DEF Wrap

LEMMA IdsInit == Init => IdsInOrder
<1> SUFFICES ASSUME Init PROVE IdsInOrder
  OBVIOUS
<1> USE DEF Init, StorageInit
<1>1. CleanedBy
  BY DEF CleanedBy
<1>2. ASSUME NEW c \in Callers PROVE SetInOrder(c)
  <2>1. Settled = {} /\ IsFiniteSet(Settled) /\ Cardinality(Settled) = 0
    BY FS_EmptySet DEF Settled
  <2>2. CallInOrder(c, 0) /\ KeptSoFar(0)
    BY <2>1, PowersAssumption DEF CallInOrder, KeptSoFar
  <2>3. cdef[c] \notin unset
    BY StorageAssumption
  <2>4. QED
    BY <2>1, <2>2, <2>3 DEF SetInOrder
<1>3. QED
  BY <1>1, <1>2 DEF IdsInOrder

(* With one caller, whoever calls Set is alone.                            *)
LEMMA SoleCaller ==
  ASSUME Sequential, NEW c \in Callers
  PROVE  /\ Callers = {c}
         /\ Settled = (Definitions \ unset) \ {cdef[c]}
         /\ Settled' = (Definitions \ unset') \ {cdef'[c]}
  BY DEF Sequential, Settled

(* The steps of a call, but the last.                                      *)
LEMMA IdsByCall ==
  ASSUME TypeInv, Sequential, NEW c \in Callers, SetInOrder(c),
         SetCall(c) \/ SetBump(c) \/ SetAdd(c) \/ SetTake(c) \/ SetCheck(c)
  PROVE  SetInOrder(c)'
<1> DEFINE n == Cardinality(Settled)
<1>1. /\ c \in Callers /\ cpc \in [Callers -> CallerPC] /\ cval \in [Callers -> 0 .. 2^IdBits - 1]
      /\ sequence \in 0 .. 2^IdBits - 1 /\ ids \in [Definitions -> 0 .. 2^IdBits - 1]
      /\ cdef \in [Callers -> Definitions \cup {NoDef}] /\ unset \subseteq Definitions
      /\ cdef[c] # NoDef <=> cpc[c] # "idle"
      /\ NoDef \notin Definitions
  BY StorageAssumption DEF TypeInv, TypeOK, StorageTypeOK, CallersOK
<1>2. UNCHANGED schedules
  BY DEF SetCall, SetBump, SetAdd, SetTake, SetCheck, poolSide
<1>3. Settled' = Settled /\ cdef'[c] \notin unset'
  <2>1. CASE SetCall(c)
    <3>1. PICK d \in unset : cdef' = [cdef EXCEPT ![c] = d] /\ unset' = unset \ {d}
      BY <2>1 DEF SetCall
    <3>2. cdef[c] = NoDef /\ cdef'[c] = d
      BY <1>1, <2>1, <3>1 DEF SetCall
    <3>3. QED
      BY <1>1, <3>1, <3>2, SoleCaller
  <2>2. CASE ~SetCall(c)
    <3>1. UNCHANGED <<cdef, unset>>
      BY <2>2 DEF SetBump, SetAdd, SetTake, SetCheck
    <3>2. QED
      BY <3>1, SoleCaller DEF SetInOrder
  <2>3. QED
    BY <2>1, <2>2
<1>4. n' = n /\ IsFiniteSet(Settled)'
  BY <1>3 DEF SetInOrder
<1>5. ASSUME IdsLast(c, n)' PROVE CallInOrder(c, n)' /\ KeptSoFar(n)'
  <2>1. n \in 0 .. IdBits - 1
    <3>1. cpc'[c] # "idle"
      BY <1>1 DEF SetCall, SetBump, SetAdd, SetTake, SetCheck, CallerTo
    <3>2. QED
      BY <1>4, <1>5, <3>1, StorageAssumption DEF IdsLast
  <2>2. CallInOrder(c, n) /\ KeptSoFar(n)
    BY <2>1, StorageAssumption DEF SetInOrder, IdsLast
  <2>3. 2^n \in Nat \ {0} /\ 2^(n + 1) = 2 * 2^n /\ 2^(n + 1) <= 2^IdBits /\ 2^IdBits \in Nat
    BY <2>1, PowersGrow
  <2> HIDE DEF n
  <2>4. CASE SetCall(c)
    BY <1>1, <1>2, <1>3, <1>4, <2>2, <2>4 DEF CallInOrder, KeptSoFar, SetCall, CallerTo, idVars
  <2>5. CASE SetBump(c)
    <3>1. Wrap(cval[c] + 1) = 2^n
      <4>1. cval[c] + 1 = 2^n /\ 2^n \in 0 .. 2^IdBits - 1
        BY <2>2, <2>3, <2>5 DEF CallInOrder, SetBump
      <4>2. QED
        BY <4>1, SmallUnwrapped
    <3>2. QED
      BY <1>1, <1>2, <1>3, <1>4, <2>2, <2>5, <3>1 DEF CallInOrder, KeptSoFar, SetBump, CallerTo
  <2>6. CASE SetAdd(c)
    <3>1. Wrap(sequence + cval[c]) = 2^(n + 1) - 1
      <4>1. sequence + cval[c] = 2^(n + 1) - 1 /\ 2^(n + 1) - 1 \in 0 .. 2^IdBits - 1
        BY <2>2, <2>3, <2>6 DEF CallInOrder, SetAdd
      <4>2. QED
        BY <4>1, SmallUnwrapped
    <3>2. QED
      BY <1>1, <1>2, <1>3, <1>4, <2>2, <2>6, <3>1 DEF CallInOrder, KeptSoFar, SetAdd, CallerTo
  <2>7. CASE SetTake(c)
    <3>1. cdef[c] \in Definitions /\ cdef[c] \notin Settled
      BY <1>1, <2>7, SoleCaller DEF SetTake
    <3>2. ids'[cdef[c]] = sequence /\ \A d \in Settled : ids'[d] = ids[d]
      BY <1>1, <2>7, <3>1, SoleCaller DEF SetTake
    <3>3. CallInOrder(c, n)'
      BY <1>1, <1>4, <2>2, <2>7, <3>2 DEF CallInOrder, SetTake, CallerTo
    <3>4. KeptSoFar(n)'
      BY <1>2, <1>3, <1>4, <2>2, <3>2 DEF KeptSoFar
    <3>5. QED
      BY <3>3, <3>4
  <2>8. CASE SetCheck(c)
    BY <1>1, <1>2, <1>3, <1>4, <2>2, <2>8 DEF CallInOrder, KeptSoFar, SetCheck, CallerTo, idVars
  <2>9. QED
    BY <2>4, <2>5, <2>6, <2>7, <2>8
<1>6. QED
  BY <1>2, <1>3, <1>4, <1>5 DEF SetInOrder

(* The last step of a call.                                                *)
LEMMA IdsByReturn ==
  ASSUME TypeInv, Sequential, NEW c \in Callers, SetInOrder(c),
         SetSchedule(c) \/ SetDirect(c) \/ SetStore(c)
  PROVE  SetInOrder(c)'
<1> DEFINE d == cdef[c]
           n == Cardinality(Settled)
<1>1. /\ cpc \in [Callers -> CallerPC] /\ ids \in [Definitions -> 0 .. 2^IdBits - 1]
      /\ cdef \in [Callers -> Definitions \cup {NoDef}] /\ cpc[c] \in {"put", "direct", "store"}
      /\ d \in Definitions /\ NoDef \notin Definitions
      /\ unset \subseteq Definitions
  BY StorageAssumption DEF TypeInv, TypeOK, StorageTypeOK, CallersOK, SetSchedule, SetDirect, SetStore
<1>2. /\ UNCHANGED <<sequence, ids, unset>> /\ cdef'[c] = NoDef /\ cpc'[c] = "idle"
  BY <1>1 DEF SetSchedule, SetDirect, SetStore, SetReturns, CallerTo, idVars
<1>3. d \notin Settled /\ d \notin unset /\ Settled' = Settled \cup {d}
  BY <1>1, <1>2, SoleCaller DEF SetInOrder
<1>4. /\ IsFiniteSet(Settled') /\ Cardinality(Settled') = n + 1
      /\ n \in Nat
  BY <1>3, FS_AddElement, FS_CardinalityType DEF SetInOrder
<1>5. schedules' \subseteq schedules \cup {d}
  BY DEF SetSchedule, SetDirect, SetStore
<1>6. ASSUME IdsLast(c, Cardinality(Settled))'
      PROVE  (CallInOrder(c, Cardinality(Settled)) /\ KeptSoFar(Cardinality(Settled)))'
  <2>1. n \in 0 .. IdBits - 1
    BY <1>4, <1>6, StorageAssumption DEF IdsLast
  <2>2. CallInOrder(c, n) /\ KeptSoFar(n)
    BY <2>1, StorageAssumption DEF SetInOrder, IdsLast
  <2>3. 2^n \in Nat \ {0} /\ 2^(n + 1) = 2 * 2^n
    BY <2>1, PowersGrow
  <2>4. ids[d] = 2^(n + 1) - 1 /\ sequence = 2^(n + 1) - 1
    BY <1>1, <2>2 DEF CallInOrder
  <2>5. \A e \in Settled : ids[e] \in Int /\ ids[e] < 2^n
    BY <1>1, <2>2 DEF KeptSoFar, Settled
  <2> HIDE DEF n, d
  <2>6. \A e \in Settled' : ids'[e] < 2^(n + 1)
    BY <1>2, <1>3, <2>3, <2>4, <2>5
  <2>7. d \in Recurrents => d \in schedules'
    <3> SUFFICES ASSUME d \in Recurrents PROVE d \in schedules'
      OBVIOUS
    <3>1. SetSchedule(c)
      <4>1. d \notin Singles
        BY StorageAssumption
      <4>2. QED
        BY <4>1 DEF SetDirect, SetStore, TypeInv, CallersOK, d
    <3>2. \A e \in schedules : ids[e] # ids[d]
      BY <2>3, <2>4, <2>5 DEF SetInOrder
    <3>3. QED
      BY <3>1, <3>2 DEF SetSchedule, d
  <2>8. schedules \subseteq schedules'
    BY DEF SetSchedule, SetDirect, SetStore
  <2>9. KeptSoFar(Cardinality(Settled))'
    BY <1>3, <1>4, <2>2, <2>6, <2>7, <2>8 DEF KeptSoFar
  <2>10. CallInOrder(c, Cardinality(Settled))'
    BY <1>2, <1>4, <2>4 DEF CallInOrder
  <2>11. QED
    BY <2>9, <2>10
<1>7. cdef'[c] \notin unset'
  BY <1>1, <1>2
<1>8. schedules' \subseteq Settled'
  BY <1>3, <1>5 DEF SetInOrder
<1>9. QED
  BY <1>4, <1>6, <1>7, <1>8 DEF SetInOrder

(* All other steps leave ids and schedules alone, unless Clean runs.       *)
LEMMA IdsByOther ==
  ASSUME TypeInv, CleanedBy, Sequential, NEW c \in Callers, SetInOrder(c),
         UNCHANGED vars \/ (\E d \in Definitions : TimePasses(d))
         \/ (\E p \in Pools : (Start(p) /\ UNCHANGED jobVars) \/ ManagerRuns(p))
         \/ (\E w \in Workers : WorkerStep(w))
  PROVE  SetInOrder(c)'
<1>1. UNCHANGED <<sequence, ids, unset, cpc, cdef, cval, schedules>>
  <2>1. CASE UNCHANGED vars
    BY <2>1 DEF vars, storageVars, idVars, callerVars
  <2>2. ASSUME NEW d \in Definitions, TimePasses(d)
        PROVE  UNCHANGED <<sequence, ids, unset, cpc, cdef, cval, schedules>>
    BY <2>2 DEF TimePasses, Occur, idVars, callerVars
  <2>3. ASSUME NEW p \in Pools, (Start(p) /\ UNCHANGED jobVars) \/ ManagerRuns(p)
        PROVE  UNCHANGED <<sequence, ids, unset, cpc, cdef, cval, schedules>>
    BY <2>3 DEF Start, ManagerRuns, ManagerStep, PeekCall, LockSchedules, CheckSchedule, EnqueueSchedule,
                UnlockSchedules, PeekItem, MarkEnqueued, PeekReturns, FillBuffer, callerSide, idVars,
                callerVars
  <2>4. ASSUME NEW w \in Workers, WorkerStep(w)
        PROVE  UNCHANGED <<sequence, ids, unset, cpc, cdef, cval, schedules>>
    <3>1. ~CleanSchedules(w)
      <4>1. wpc[w] = "clean3" => wdef[w] = NoDef
        BY DEF CleanedBy, Sequential
      <4>2. wpc[w] = "clean3" => wdef[w] # NoDef
        BY DEF TypeInv, WorkersOK
      <4>3. QED
        BY <4>1, <4>2 DEF CleanSchedules
    <3>2. UNCHANGED <<idVars, callerVars, schedules>>
      BY <2>4, <3>1 DEF WorkerStep, UpdateStatus, UpdateLoad, UpdateSave, UpdateNext, UpdateCheck, UpdateReset,
                        TakeWorkItem, ExecuteStart, CleanQueue, CleanRegistered, ExecuteComplete, ExecuteFail,
                        FailAgain, DoFail, ApplyPolicy, EndDelay, Requeue, storageVars, notStatus, offHistory
    <3>3. QED
      BY <3>2 DEF idVars, callerVars
  <2>5. QED
    BY <2>1, <2>2, <2>3, <2>4
<1>2. Settled' = Settled
  BY <1>1 DEF Settled
<1>3. QED
  BY <1>1, <1>2 DEF SetInOrder, IdsLast, CallInOrder, KeptSoFar

LEMMA CleanedByNext ==
  ASSUME TypeInv, CleanedBy, [Next]_vars
  PROVE  CleanedBy'
<1> SUFFICES ASSUME NEW w \in Workers, wpc'[w] \in {"clean2", "clean3"} PROVE wdef'[w] = CleanJob
  BY DEF CleanedBy
<1> USE DEF TypeInv, TypeOK
<1>1. ASSUME NEW v \in Workers, WorkerStep(v), v # w PROVE wpc'[w] = wpc[w] /\ wdef'[w] = wdef[w]
  BY <1>1 DEF WorkerStep, UpdateStatus, UpdateLoad, UpdateSave, UpdateNext, UpdateCheck, UpdateReset,
              TakeWorkItem, ExecuteStart, CleanQueue, CleanRegistered, CleanSchedules, ExecuteComplete,
              ExecuteFail, FailAgain, DoFail, ApplyPolicy, EndDelay, Requeue, Report, Return, Goto
<1>2. ASSUME WorkerStep(w) PROVE wdef'[w] = CleanJob
  <2>1. CASE CleanQueue(w) \/ CleanRegistered(w)
    BY <2>1 DEF CleanQueue, CleanRegistered, Goto, CleanedBy
  <2>2. CASE ~(CleanQueue(w) \/ CleanRegistered(w))
    <3>1. wnext[w] \in Targets
      OBVIOUS
    <3>2. wpc'[w] = wpc[w] \/ wpc'[w] \in Targets \cup {"got", "load", "save", "next", "check", "reset", "done"}
      BY <1>2, <2>2, <3>1
         DEF WorkerStep, UpdateStatus, UpdateLoad, UpdateSave, UpdateNext, UpdateCheck, UpdateReset,
             TakeWorkItem, ExecuteStart, CleanSchedules, ExecuteComplete, ExecuteFail, FailAgain, DoFail, ApplyPolicy,
             EndDelay, Requeue, Report, Return, Goto, Targets
    <3>3. wpc'[w] = wpc[w] => UNCHANGED <<wpc, wdef>>
      BY <1>2, <2>2, <3>1
         DEF WorkerStep, UpdateStatus, UpdateLoad, UpdateSave, UpdateNext, UpdateCheck, UpdateReset,
             TakeWorkItem, ExecuteStart, CleanSchedules, ExecuteComplete, ExecuteFail, FailAgain, DoFail, ApplyPolicy,
             EndDelay, Requeue, Report, Return, Goto, Targets
    <3>4. QED
      BY <3>2, <3>3 DEF CleanedBy, Targets
  <2>3. QED
    BY <2>1, <2>2
<1>3. ASSUME UNCHANGED workerVars PROVE wdef'[w] = CleanJob
  BY <1>3 DEF workerVars, CleanedBy
<1>4. CASE \E v \in Workers : WorkerStep(v)
  BY <1>1, <1>2, <1>4 DEF CleanedBy
<1>5. CASE ~\E v \in Workers : WorkerStep(v)
  BY <1>3, <1>5 DEF Next, vars, TimePasses, CallerRuns, ManagerRuns, jobVars
<1>6. QED
  BY <1>4, <1>5

LEMMA IdsNext ==
  ASSUME TypeInv, IdsInOrder, [Next]_vars
  PROVE  IdsInOrder'
<1>1. ASSUME Sequential, NEW c \in Callers, SetInOrder(c) PROVE SetInOrder(c)'
  <2>1. CASE \E b \in Callers : SetCall(b) \/ SetStep(b)
    <3>1. SetCall(c) \/ SetStep(c)
      BY <1>1, <2>1 DEF Sequential
    <3>2. QED
      BY <1>1, <3>1, IdsByCall, IdsByReturn DEF SetStep
  <2>2. CASE ~\E b \in Callers : SetCall(b) \/ SetStep(b)
    <3>1. UNCHANGED vars \/ (\E d \in Definitions : TimePasses(d))
          \/ (\E p \in Pools : (Start(p) /\ UNCHANGED jobVars) \/ ManagerRuns(p))
          \/ (\E w \in Workers : WorkerStep(w))
      BY <2>2 DEF Next, CallerRuns
    <3>2. QED
      BY <1>1, <3>1, IdsByOther DEF IdsInOrder
  <2>3. QED
    BY <2>1, <2>2
<1>2. QED
  BY <1>1, CleanedByNext DEF IdsInOrder, Sequential

(* As long as calls of Set do not overlap, and an id has bits for all of   *)
(* them, every Schedule that has returned has its schedule.                *)
THEOREM SchedulesAreKept == Spec => []NoScheduleDropped
<1>1. TypeInv /\ IdsInOrder => NoScheduleDropped
  <2> SUFFICES ASSUME TypeInv, IdsInOrder, Sequential, Cardinality(Definitions \ unset) <= IdBits,
                      NEW d \in Recurrents, d \notin unset, ~InSet(d)
               PROVE  d \in schedules
    BY DEF NoScheduleDropped, Sequential
  <2>1. PICK c \in Callers : Callers = {c} /\ SetInOrder(c)
    BY DEF Sequential, IdsInOrder
  <2> DEFINE n == Cardinality(Settled)
  <2>2. IsFiniteSet(Settled) /\ n \in Nat
    BY <2>1, FS_CardinalityType DEF SetInOrder
  <2>3. /\ cdef[c] \in Definitions \cup {NoDef} /\ NoDef \notin Definitions
        /\ cdef[c] # NoDef <=> cpc[c] # "idle"
        /\ Settled = (Definitions \ unset) \ {cdef[c]}
    BY <2>1, StorageAssumption, SoleCaller DEF TypeInv, TypeOK, StorageTypeOK, CallersOK
  <2>4. CASE cpc[c] = "idle"
    <3>1. Settled = Definitions \ unset
      BY <2>3, <2>4
    <3>2. IdsLast(c, n)
      BY <2>2, <2>4, <3>1, StorageAssumption DEF IdsLast
    <3>3. QED
      BY <2>1, <3>1, <3>2 DEF SetInOrder, KeptSoFar, Definitions
  <2>5. CASE cpc[c] # "idle"
    <3>1. Definitions \ unset = Settled \cup {cdef[c]} /\ cdef[c] \notin Settled
      BY <2>1, <2>3, <2>5 DEF SetInOrder
    <3>2. Cardinality(Definitions \ unset) = n + 1
      BY <2>2, <3>1, FS_AddElement
    <3>3. IdsLast(c, n)
      BY <2>2, <3>2, StorageAssumption DEF IdsLast
    <3>4. d \in Settled
      BY <2>1, <2>3 DEF InSet, Definitions
    <3>5. QED
      BY <2>1, <3>3, <3>4 DEF SetInOrder, KeptSoFar
  <2>6. QED
    BY <2>4, <2>5
<1>2. Init => TypeInv /\ IdsInOrder
  BY InitTyped, IdsInit
<1>3. TypeInv /\ IdsInOrder /\ [Next]_vars => (TypeInv /\ IdsInOrder)'
  BY NextTyped, IdsNext
<1>4. QED
  BY <1>1, <1>2, <1>3, PTL DEF Spec
=============================================================================
