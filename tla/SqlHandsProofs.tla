--------------------------- MODULE SqlHandsProofs ---------------------------
(***************************************************************************)
(* Proofs about SqlJobs: who has a job, what its row says, how jobs end.   *)
(***************************************************************************)
EXTENDS SqlJobsProofs

(* The call of Enqueue has the item, no buffer yet.                        *)
Taken(j) == j \in Singles /\ cpc[j] = "take"

Nobody(j) ==
  /\ ~Taken(j)
  /\ \A p \in Pools : ~InBuffer(p, j) /\ j \notin held[p]
  /\ \A w \in Workers : wJob[w] # j

Apart(j) ==
  /\ \A p, q \in Pools : InBuffer(p, j) /\ InBuffer(q, j) => p = q
  /\ \A p, q \in Pools : j \in held[p] /\ j \in held[q] => p = q
  /\ \A v, w \in Workers : wJob[v] = j /\ wJob[w] = j => v = w
  /\ \A p, q \in Pools : ~(InBuffer(p, j) /\ j \in held[q])
  /\ \A p \in Pools, w \in Workers : ~(InBuffer(p, j) /\ wJob[w] = j)
  /\ \A p \in Pools, w \in Workers : ~(j \in held[p] /\ wJob[w] = j)
  /\ Taken(j) => /\ \A p \in Pools : ~InBuffer(p, j) /\ j \notin held[p]
                 /\ \A w \in Workers : wJob[w] # j

(* A job nobody has begun waits, in its row or in its call.                *)
JobInv(j) ==
  /\ Apart(j)
  /\ status[j] = "WaitingProcess" => Nobody(j) /\ retryCount[j] = 0
  /\ row[j] = "WaitingProcess" => status[j] = "WaitingProcess"
  /\ j \in Singles /\ cpc[j] = "new" =>
       status[j] = "WaitingProcess" /\ row[j] # "WaitingProcess"
  /\ j \in Singles /\ cpc[j] = "mark" => status[j] # "WaitingProcess"
  /\ j \in Clones /\ row[j] = "none" => status[j] = "WaitingProcess"

HandInv ==
  /\ \A p \in Pools : NoCopies(buffer[p])
  /\ \A j \in Jobs : JobInv(j)

-----------------------------------------------------------------------------
(* Buffers                                                                 *)

LEMMA BufferAppend ==
  ASSUME TypeInv, NEW p \in Pools, NEW j \in Jobs, Buffered(p, j), ~InBuffer(p, j),
         NoCopies(buffer[p])
  PROVE  /\ \A i \in Jobs : InBuffer(p, i)' <=> InBuffer(p, i) \/ i = j
         /\ \A q \in Pools \ {p} : buffer'[q] = buffer[q]
         /\ NoCopies(buffer'[p])
<1> DEFINE s == buffer[p]
<1>1. s \in Seq(Jobs)
  BY DEF TypeInv, TypeOK, StorageTypeOK
<1>2. buffer'[p] = Append(s, j) /\ \A q \in Pools \ {p} : buffer'[q] = buffer[q]
  BY DEF TypeInv, TypeOK, StorageTypeOK, Buffered
<1>3. /\ DOMAIN s = 1 .. Len(s) /\ Len(s) \in Nat
      /\ DOMAIN Append(s, j) = 1 .. Len(s) + 1
      /\ \A k \in 1 .. Len(s) : Append(s, j)[k] = s[k]
      /\ Append(s, j)[Len(s) + 1] = j
  BY <1>1
<1>4. \A i \in Jobs : InBuffer(p, i)' <=> InBuffer(p, i) \/ i = j
  BY <1>2, <1>3 DEF InBuffer
<1>5. NoCopies(Append(s, j))
  BY <1>3 DEF NoCopies, InBuffer
<1>6. QED
  BY <1>2, <1>4, <1>5

LEMMA BufferTail ==
  ASSUME TypeInv, NEW p \in Pools, buffer[p] # <<>>, NoCopies(buffer[p]),
         buffer' = [buffer EXCEPT ![p] = Tail(@)]
  PROVE  /\ Head(buffer[p]) \in Jobs /\ InBuffer(p, Head(buffer[p]))
         /\ \A i \in Jobs : InBuffer(p, i)' => InBuffer(p, i) /\ i # Head(buffer[p])
         /\ \A q \in Pools \ {p} : buffer'[q] = buffer[q]
         /\ NoCopies(buffer'[p])
<1> DEFINE s == buffer[p]
<1>1. s \in Seq(Jobs) /\ s # <<>>
  BY DEF TypeInv, TypeOK, StorageTypeOK
<1>2. buffer'[p] = Tail(s) /\ \A q \in Pools \ {p} : buffer'[q] = buffer[q]
  BY DEF TypeInv, TypeOK, StorageTypeOK
<1>3. /\ DOMAIN s = 1 .. Len(s) /\ Len(s) \in Nat \ {0}
      /\ DOMAIN Tail(s) = 1 .. Len(s) - 1
      /\ \A k \in 1 .. Len(s) - 1 : Tail(s)[k] = s[k + 1]
      /\ Head(s) = s[1] /\ Head(s) \in Jobs
  BY <1>1
<1>4. 1 \in DOMAIN s /\ \A k \in 1 .. Len(s) - 1 : k + 1 \in DOMAIN s /\ k + 1 # 1
  BY <1>3
<1>5. \A i \in Jobs : InBuffer(p, i)' => InBuffer(p, i) /\ i # Head(s)
  <2>1. SUFFICES ASSUME NEW i \in Jobs, InBuffer(p, i)' PROVE InBuffer(p, i) /\ i # Head(s)
    OBVIOUS
  <2>2. PICK k \in 1 .. Len(s) - 1 : Tail(s)[k] = i
    BY <1>2, <1>3, <2>1 DEF InBuffer
  <2>3. s[k + 1] = i /\ k + 1 \in DOMAIN s /\ k + 1 # 1 /\ 1 \in DOMAIN s
    BY <1>3, <1>4, <2>2
  <2>4. QED
    BY <1>3, <2>3 DEF InBuffer, NoCopies
<1>6. NoCopies(Tail(s))
  <2> SUFFICES ASSUME NEW k \in 1 .. Len(s) - 1, NEW l \in 1 .. Len(s) - 1,
                      Tail(s)[k] = Tail(s)[l]
               PROVE  k = l
    BY <1>3 DEF NoCopies
  <2>1. k + 1 = l + 1
    BY <1>3, <1>4 DEF NoCopies
  <2>2. QED
    BY <2>1
<1>7. QED
  BY <1>2, <1>3, <1>4, <1>5, <1>6 DEF InBuffer

-----------------------------------------------------------------------------
(* Hands                                                                   *)

LEMMA HandInvImplies == HandInv => OneHand /\ WaitingUntouched
<1> SUFFICES ASSUME HandInv PROVE OneHand /\ WaitingUntouched
  OBVIOUS
<1>1. ASSUME NEW j \in Jobs, NEW a \in Hands(j), NEW b \in Hands(j) PROVE a = b
  <2>1. Apart(j)
    BY DEF HandInv, JobInv
  <2>2. QED
    BY <2>1 DEF Hands, Apart, Taken
<1>2. ASSUME NEW j \in Jobs, row[j] = "WaitingProcess" PROVE Hands(j) = {} /\ retryCount[j] = 0
  BY <1>2 DEF HandInv, JobInv, Nobody, Hands, Taken
<1>3. QED
  BY <1>1, <1>2 DEF OneHand, WaitingUntouched, HandInv

LEMMA InitHands == Init => HandInv
<1> SUFFICES ASSUME Init PROVE HandInv
  OBVIOUS
<1>1. /\ \A p \in Pools : buffer[p] = <<>> /\ held[p] = {}
      /\ \A w \in Workers : wJob[w] = NoJob
      /\ \A j \in Singles : cpc[j] = "new"
      /\ \A j \in Jobs : status[j] = "WaitingProcess" /\ row[j] = "none" /\ retryCount[j] = 0
  BY DEF Init, StorageInit
<1>2. \A p \in Pools : NoCopies(buffer[p]) /\ \A j \in Jobs : ~InBuffer(p, j)
  BY <1>1 DEF NoCopies, InBuffer
<1>3. \A j \in Jobs : Nobody(j)
  BY <1>1, <1>2, JobsAssumption DEF Nobody, Taken
<1>4. \A j \in Jobs : Apart(j)
  BY <1>3 DEF Nobody, Apart
<1>5. QED
  BY <1>1, <1>2, <1>3, <1>4 DEF HandInv, JobInv

(* Somebody has begun with the job.                                        *)
Begun(j) ==
  /\ status[j] # "WaitingProcess" /\ row[j] # "WaitingProcess"
  /\ j \in Singles => cpc[j] # "new"
  /\ j \in Clones => row[j] # "none"

(* A step that gives the job to nobody.                                    *)
NotGiven(j) ==
  /\ \A p \in Pools : /\ InBuffer(p, j)' => InBuffer(p, j)
                      /\ j \in held'[p] => j \in held[p]
  /\ \A w \in Workers : wJob'[w] = j => wJob[w] = j
  /\ Taken(j)' => Taken(j)

(* A step that leaves the definition of the job alone.                     *)
LeftAlone(j) ==
  /\ status'[j] = status[j] /\ retryCount'[j] = retryCount[j]
  /\ row'[j] = "none" => row[j] = "none"
  /\ row'[j] = "WaitingProcess" =>
       \/ row[j] = "WaitingProcess"
       \/ status[j] = "WaitingProcess" /\ (j \in Singles => cpc'[j] # "new")
  /\ j \in Singles => cpc'[j] = cpc[j] \/ cpc'[j] \notin {"new", "take", "mark"}

LEMMA SomebodyBegan ==
  ASSUME NEW j \in Jobs, JobInv(j), ~Nobody(j)
  PROVE  Begun(j)
  BY DEF JobInv, Begun

LEMMA WorkerBegan ==
  ASSUME TypeInv, HandInv, NEW w \in Workers, wpc[w] \notin {"off", "idle"}
  PROVE  /\ wJob[w] \in Jobs /\ Begun(wJob[w]) /\ Apart(wJob[w])
         /\ status[wJob[w]] \in Status
<1>1. wJob[w] \in Jobs
  BY DEF TypeInv, BusyOK
<1>2. JobInv(wJob[w]) /\ ~Nobody(wJob[w])
  BY <1>1 DEF HandInv, Nobody
<1>3. QED
  BY <1>1, <1>2, SomebodyBegan DEF JobInv, TypeInv, TypeOK, StorageTypeOK

LEMMA ApartKept ==
  ASSUME NEW j, NotGiven(j)
  PROVE  (Apart(j) => Apart(j)') /\ (Nobody(j) => Nobody(j)')
  BY DEF NotGiven, Apart, Nobody, InBuffer, Taken

(* What a step has to show: the jobs it touches are begun and with one     *)
(* hand, all others are left alone.                                        *)
LEMMA StepKeeps ==
  ASSUME HandInv, NEW H,
         \A p \in Pools : NoCopies(buffer'[p]),
         \A j \in Jobs \cap H : Apart(j)' /\ Begun(j)',
         \A j \in Jobs \ H : NotGiven(j) /\ LeftAlone(j)
  PROVE  HandInv'
<1>1. ASSUME NEW j \in Jobs, j \in H PROVE JobInv(j)'
  BY <1>1 DEF JobInv, Begun
<1>2. ASSUME NEW j \in Jobs, j \notin H PROVE JobInv(j)'
  <2>1. JobInv(j) /\ NotGiven(j) /\ LeftAlone(j)
    BY <1>2 DEF HandInv
  <2>2. Apart(j)' /\ (Nobody(j) => Nobody(j)')
    BY <2>1, ApartKept DEF JobInv
  <2>3. QED
    BY <2>1, <2>2 DEF JobInv, LeftAlone
<1>3. QED
  BY <1>1, <1>2 DEF HandInv

(* A step that hands nothing on.                                           *)
LEMMA NothingGiven ==
  ASSUME \A p \in Pools : /\ buffer'[p] \in {buffer[p], <<>>}
                          /\ held'[p] \subseteq held[p],
         \A w \in Workers : wJob'[w] \in {wJob[w], NoJob},
         \A j \in Singles : cpc'[j] = "take" => cpc[j] = "take"
  PROVE  /\ HandInv => \A p \in Pools : NoCopies(buffer'[p])
         /\ \A j \in Jobs : NotGiven(j)
<1>1. \A p \in Pools, j \in Jobs : InBuffer(p, j)' => InBuffer(p, j)
  BY DEF InBuffer
<1>2. \A w \in Workers, j \in Jobs : wJob'[w] = j => wJob[w] = j
  BY JobsAssumption
<1>3. HandInv => \A p \in Pools : NoCopies(buffer'[p])
  BY DEF HandInv, NoCopies
<1>4. QED
  BY <1>1, <1>2, <1>3 DEF NotGiven, Taken

(* A step that hands nothing on and touches no job.                        *)
LEMMA QuietStep ==
  ASSUME HandInv,
         \A p \in Pools : /\ buffer'[p] \in {buffer[p], <<>>}
                          /\ held'[p] \subseteq held[p],
         \A w \in Workers : wJob'[w] \in {wJob[w], NoJob},
         \A j \in Singles : cpc'[j] = "take" => cpc[j] = "take",
         \A j \in Jobs : LeftAlone(j)
  PROVE  HandInv'
<1>1. (\A p \in Pools : NoCopies(buffer'[p])) /\ \A j \in Jobs : NotGiven(j)
  BY NothingGiven
<1>2. /\ \A j \in Jobs \cap {} : Apart(j)' /\ Begun(j)'
      /\ \A j \in Jobs \ {} : NotGiven(j) /\ LeftAlone(j)
  BY <1>1
<1>3. QED
  BY <1>1, <1>2, StepKeeps

-----------------------------------------------------------------------------
(* Steps                                                                   *)

LEMMA CallerHands ==
  ASSUME TypeInv, HandInv,
         \/ \E d \in Delayed \cup Schedules : TimePasses(d)
         \/ \E x \in Schedules : SetSchedule(x) /\ UNCHANGED jobVars
         \/ \E j \in Singles : \/ SetCheck(j) /\ UNCHANGED jobVars
                               \/ CallerRuns(j)
                               \/ CallerThrows(j)
  PROVE  HandInv'
<1> USE DEF jobVars, workerVars, historyVars, callerRest, managerVars, scheduleVars, definitionVars
<1>0. /\ Singles \subseteq Jobs /\ Clones \cap Singles = {}
      /\ status \in [Jobs -> Status] /\ cpc \in [Singles -> CallerPC]
      /\ row \in [Jobs -> Status \cup {"none", "deleted"}]
  BY SqlAssumption DEF Jobs, TypeInv, TypeOK, StorageTypeOK
<1>1. ASSUME NEW d \in Delayed \cup Schedules, TimePasses(d) PROVE HandInv'
  <2>1. UNCHANGED <<row, definitionVars, cpc, buffer, managerVars, wJob>>
    BY <1>1 DEF TimePasses, Occur
  <2>2. \A j \in Jobs : LeftAlone(j)
    BY <2>1 DEF LeftAlone
  <2>3. QED
    BY <2>1, <2>2, QuietStep
<1>2. ASSUME NEW x \in Schedules, SetSchedule(x), UNCHANGED jobVars PROVE HandInv'
  <2>1. UNCHANGED <<row, definitionVars, cpc, buffer, managerVars, wJob>>
    BY <1>2 DEF SetSchedule
  <2>2. \A j \in Jobs : LeftAlone(j)
    BY <2>1 DEF LeftAlone
  <2>3. QED
    BY <2>1, <2>2, QuietStep
<1>3. ASSUME NEW j \in Singles, SetCheck(j), UNCHANGED jobVars PROVE HandInv'
  <2>1. UNCHANGED <<row, retryCount, buffer, held, wJob>> /\ cpc[j] = "new"
    BY <1>3 DEF SetCheck
  <2>2. JobInv(j) /\ Nobody(j) /\ row[j] # "WaitingProcess"
    BY <1>0, <2>1 DEF HandInv, JobInv
  <2>3. CASE status' = [status EXCEPT ![j] = "Enqueued"] /\ CallerTo(j, "take")
    <3>1. Apart(j)' /\ Begun(j)'
      BY <1>0, <2>1, <2>2, <2>3 DEF CallerTo, Nobody, Apart, Begun, InBuffer, Taken
    <3>2. \A i \in Jobs \ {j} : NotGiven(i) /\ LeftAlone(i)
      BY <1>0, <2>1, <2>3 DEF CallerTo, NotGiven, LeftAlone, InBuffer, Taken
    <3>3. QED
      BY <2>1, <3>1, <3>2, StepKeeps DEF HandInv
  <2>4. CASE status' = [status EXCEPT ![j] = "Enqueued"] /\ CallerTo(j, "threw")
    <3>1. Apart(j)' /\ Begun(j)'
      BY <1>0, <2>1, <2>2, <2>4 DEF CallerTo, Nobody, Apart, Begun, InBuffer, Taken
    <3>2. \A i \in Jobs \ {j} : NotGiven(i) /\ LeftAlone(i)
      BY <1>0, <2>1, <2>4 DEF CallerTo, NotGiven, LeftAlone, InBuffer, Taken
    <3>3. QED
      BY <2>1, <3>1, <3>2, StepKeeps DEF HandInv
  <2>5. CASE status' = status /\ CallerTo(j, "insert")
    <3>1. \A i \in Jobs : LeftAlone(i)
      BY <1>0, <2>1, <2>5 DEF CallerTo, LeftAlone
    <3>2. \A i \in Singles : cpc'[i] = "take" => cpc[i] = "take"
      BY <1>0, <2>5 DEF CallerTo
    <3>3. QED
      BY <2>1, <3>1, <3>2, QuietStep
  <2>6. QED
    BY <1>3, <2>3, <2>4, <2>5 DEF SetCheck, Mark, TakenStatus
<1>4. ASSUME NEW j \in Singles, SetTake(j), UNCHANGED jobVars PROVE HandInv'
  <2>1. UNCHANGED <<row, status, retryCount, held, wJob>> /\ cpc[j] = "take"
    BY <1>4 DEF SetTake
  <2>2. PICK p \in Pools : Buffered(p, j)
    BY <1>4 DEF SetTake, PoolFor
  <2>3. j \in Jobs /\ Taken(j) /\ JobInv(j) /\ ~Nobody(j)
    BY <1>0, <2>1 DEF Taken, HandInv, Nobody
  <2>4. Begun(j) /\ ~InBuffer(p, j) /\ NoCopies(buffer[p])
    BY <2>3, SomebodyBegan DEF JobInv, Apart, HandInv
  <2>5. /\ \A i \in Jobs : InBuffer(p, i)' <=> InBuffer(p, i) \/ i = j
        /\ \A q \in Pools \ {p} : buffer'[q] = buffer[q]
        /\ NoCopies(buffer'[p])
    BY <2>2, <2>3, <2>4, BufferAppend
  <2>6. cpc' = [cpc EXCEPT ![j] = "mark"]
    BY <1>4 DEF SetTake, CallerTo
  <2>7. \A q \in Pools : NoCopies(buffer'[q])
    BY <2>5 DEF HandInv
  <2>8. Apart(j)' /\ Begun(j)'
    <3>1. Begun(j)'
      BY <1>0, <2>1, <2>4, <2>6 DEF Begun
    <3>2. \A q \in Pools : InBuffer(q, j)' => q = p
      BY <2>3, <2>5 DEF JobInv, Apart, InBuffer
    <3>3. \A q \in Pools : j \notin held'[q]
      BY <2>1, <2>3 DEF JobInv, Apart
    <3>4. \A w \in Workers : wJob'[w] # j
      BY <2>1, <2>3 DEF JobInv, Apart
    <3>5. ~Taken(j)'
      BY <1>0, <2>6 DEF Taken
    <3>6. QED
      BY <3>1, <3>2, <3>3, <3>4, <3>5 DEF Apart
  <2>9. \A i \in Jobs \ {j} : NotGiven(i) /\ LeftAlone(i)
    <3>1. \A i \in Jobs \ {j} : LeftAlone(i)
      BY <1>0, <2>1, <2>6 DEF LeftAlone
    <3>2. \A i \in Jobs \ {j}, q \in Pools : InBuffer(q, i)' => InBuffer(q, i)
      BY <2>5 DEF InBuffer
    <3>3. \A i \in Jobs \ {j} : Taken(i)' => Taken(i)
      BY <1>0, <2>6 DEF Taken
    <3>4. QED
      BY <2>1, <3>1, <3>2, <3>3 DEF NotGiven
  <2>10. QED
    BY <2>3, <2>7, <2>8, <2>9, StepKeeps
<1>5. ASSUME NEW j \in Singles, SetMark(j), UNCHANGED jobVars PROVE HandInv'
  <2>1. UNCHANGED <<row, retryCount, buffer, held, wJob>> /\ cpc[j] = "mark"
    BY <1>5 DEF SetMark
  <2>2. JobInv(j)
    BY <1>0 DEF HandInv
  <2>3. status' = [status EXCEPT ![j] = "Enqueued"] /\ cpc' = [cpc EXCEPT ![j] = "insert"]
    BY <1>5 DEF SetMark, Mark, TakenStatus, CallerTo
  <2>4. Begun(j)'
    BY <1>0, <2>1, <2>2, <2>3 DEF JobInv, Begun
  <2>5. \A i \in Jobs \ {j} : LeftAlone(i)
    BY <1>0, <2>1, <2>3 DEF LeftAlone
  <2>6. \A i \in Singles : cpc'[i] = "take" => cpc[i] = "take"
    BY <1>0, <2>3
  <2>7. (\A p \in Pools : NoCopies(buffer'[p])) /\ \A i \in Jobs : NotGiven(i)
    BY <2>1, <2>6, NothingGiven
  <2>8. Apart(j)'
    BY <1>0, <2>2, <2>7, ApartKept DEF JobInv
  <2>9. QED
    BY <2>4, <2>5, <2>7, <2>8, StepKeeps
<1>6. ASSUME NEW j \in Singles, SetInsert(j), UNCHANGED jobVars PROVE HandInv'
  <2>1. UNCHANGED <<status, retryCount, buffer, held, wJob>>
    BY <1>6 DEF SetInsert
  <2>2. row' = [row EXCEPT ![j] = status[j]] /\ cpc' = [cpc EXCEPT ![j] = "returned"]
    BY <1>6 DEF SetInsert, Insert, CallerTo
  <2>3. status[j] # "none"
    BY <1>0 DEF Status
  <2>4. \A i \in Jobs : LeftAlone(i)
    BY <1>0, <2>1, <2>2, <2>3 DEF LeftAlone
  <2>5. \A i \in Singles : cpc'[i] = "take" => cpc[i] = "take"
    BY <1>0, <2>2
  <2>6. QED
    BY <2>1, <2>4, <2>5, QuietStep
<1>7. ASSUME NEW j \in Singles, CallerThrows(j) PROVE HandInv'
  <2>1. UNCHANGED <<row, status, retryCount, buffer, held, wJob>>
    BY <1>7 DEF CallerThrows, SetThrows
  <2>2. cpc' = [cpc EXCEPT ![j] = "threw"]
    BY <1>7 DEF CallerThrows, SetThrows, CallerTo
  <2>3. \A i \in Jobs : LeftAlone(i)
    BY <1>0, <2>1, <2>2 DEF LeftAlone
  <2>4. \A i \in Singles : cpc'[i] = "take" => cpc[i] = "take"
    BY <1>0, <2>2
  <2>5. QED
    BY <2>1, <2>3, <2>4, QuietStep
<1>8. QED
  BY <1>1, <1>2, <1>3, <1>4, <1>5, <1>6, <1>7 DEF CallerRuns, SetStep

LEMMA ManagerHands ==
  ASSUME TypeInv, HandInv, NEW p \in Pools,
         ManagerRuns(p) \/ ManagerDies(p) \/ \E j \in Jobs : ManagerDrops(p, j)
  PROVE  HandInv'
<1> USE DEF jobVars, workerVars, historyVars, managerRest, definitionVars
<1>0. /\ Clones \subseteq Jobs /\ Clones \cap Singles = {}
      /\ status \in [Jobs -> Status] /\ held \in [Pools -> SUBSET Jobs]
      /\ row \in [Jobs -> Status \cup {"none", "deleted"}]
  BY SqlAssumption DEF Jobs, TypeInv, TypeOK, StorageTypeOK
<1>1. ASSUME PeekCall(p), UNCHANGED jobVars PROVE HandInv'
  <2>1. UNCHANGED <<row, definitionVars, cpc, buffer, held, wJob>>
    BY <1>1 DEF PeekCall
  <2>2. \A i \in Jobs : LeftAlone(i)
    BY <2>1 DEF LeftAlone
  <2>3. QED
    BY <2>1, <2>2, QuietStep
<1>2. ASSUME CheckSchedules(p), UNCHANGED jobVars PROVE HandInv'
  <2>1. UNCHANGED <<row, definitionVars, cpc, buffer, held, wJob>>
    BY <1>2 DEF CheckSchedules
  <2>2. \A i \in Jobs : LeftAlone(i)
    BY <2>1 DEF LeftAlone
  <2>3. QED
    BY <2>1, <2>2, QuietStep
<1>3. ASSUME CheckSchedule(p), UNCHANGED jobVars PROVE HandInv'
  <2>1. UNCHANGED <<row, definitionVars, cpc, buffer, held, wJob>>
    BY <1>3 DEF CheckSchedule
  <2>2. \A i \in Jobs : LeftAlone(i)
    BY <2>1 DEF LeftAlone
  <2>3. QED
    BY <2>1, <2>2, QuietStep
<1>4. ASSUME CalculateNextRun(p), UNCHANGED jobVars PROVE HandInv'
  <2>1. UNCHANGED <<row, definitionVars, cpc, buffer, held, wJob>>
    BY <1>4 DEF CalculateNextRun
  <2>2. \A i \in Jobs : LeftAlone(i)
    BY <2>1 DEF LeftAlone
  <2>3. QED
    BY <2>1, <2>2, QuietStep
<1>5. ASSUME SchedulesChecked(p), UNCHANGED jobVars PROVE HandInv'
  <2>1. UNCHANGED <<row, definitionVars, cpc, buffer, held, wJob>>
    BY <1>5 DEF SchedulesChecked
  <2>2. \A i \in Jobs : LeftAlone(i)
    BY <2>1 DEF LeftAlone
  <2>3. QED
    BY <2>1, <2>2, QuietStep
<1>6. ASSUME PeekReturns(p), UNCHANGED jobVars PROVE HandInv'
  <2>1. UNCHANGED <<row, definitionVars, cpc, buffer, held, wJob>>
    BY <1>6 DEF PeekReturns
  <2>2. \A i \in Jobs : LeftAlone(i)
    BY <2>1 DEF LeftAlone
  <2>3. QED
    BY <2>1, <2>2, QuietStep
<1>7. ASSUME CloneSchedule(p), UNCHANGED jobVars PROVE HandInv'
  <2>1. UNCHANGED <<retryCount, cpc, buffer, wJob>>
    BY <1>7 DEF CloneSchedule
  <2>2. PICK k \in Clones :
          /\ row[k] = "none"
          /\ row' = [row EXCEPT ![k] = "Enqueued"]
          /\ status' = [status EXCEPT ![k] = "Enqueued"]
          /\ held' = [held EXCEPT ![p] = @ \cup {k}]
    BY <1>7 DEF CloneSchedule, Unused, Mark, CloneStatus
  <2>3. Nobody(k)
    BY <1>0, <2>2 DEF HandInv, JobInv
  <2>4. Apart(k)' /\ Begun(k)'
    <3>1. \A q \in Pools : k \in held'[q] => q = p
      BY <1>0, <2>2, <2>3 DEF Nobody
    <3>2. \A q \in Pools : ~InBuffer(q, k)'
      BY <2>1, <2>3 DEF Nobody, InBuffer
    <3>3. \A w \in Workers : wJob'[w] # k
      BY <2>1, <2>3 DEF Nobody
    <3>4. ~Taken(k)'
      BY <1>0, <2>2 DEF Taken
    <3>5. Apart(k)'
      BY <3>1, <3>2, <3>3, <3>4 DEF Apart
    <3>6. QED
      BY <1>0, <2>2, <3>5 DEF Begun
  <2>5. \A i \in Jobs \ {k} : NotGiven(i) /\ LeftAlone(i)
    BY <1>0, <2>1, <2>2 DEF NotGiven, LeftAlone, InBuffer, Taken
  <2>6. QED
    BY <2>1, <2>4, <2>5, StepKeeps DEF HandInv
<1>8. ASSUME Peek(p), UNCHANGED jobVars PROVE HandInv'
  <2>1. UNCHANGED <<cpc, buffer, wJob>>
    BY <1>8 DEF Peek
  <2>2. PICK S \in SUBSET Peekable(p) :
          /\ row' = [j \in Jobs |-> IF j \in S THEN "Enqueuing" ELSE row[j]]
          /\ status' = [j \in Jobs |-> IF j \in S THEN "Enqueuing" ELSE status[j]]
          /\ retryCount' = [j \in Jobs |-> IF j \in S THEN 0 ELSE retryCount[j]]
          /\ held' = [held EXCEPT ![p] = @ \cup S]
    BY <1>8 DEF Peek, Chosen, PeekedRow
  <2>3. ASSUME NEW j \in Jobs \cap S PROVE Apart(j)' /\ Begun(j)'
    <3>1. row[j] = "WaitingProcess" /\ JobInv(j) /\ Nobody(j)
      BY <2>2, <2>3 DEF Peekable, HandInv, JobInv
    <3>2. \A q \in Pools : j \in held'[q] => q = p
      BY <1>0, <2>2, <3>1 DEF Nobody
    <3>3. \A q \in Pools : ~InBuffer(q, j)'
      BY <2>1, <3>1 DEF Nobody, InBuffer
    <3>4. \A w \in Workers : wJob'[w] # j
      BY <2>1, <3>1 DEF Nobody
    <3>5. ~Taken(j)'
      BY <2>1, <3>1 DEF Taken, Nobody
    <3>6. Apart(j)'
      BY <3>2, <3>3, <3>4, <3>5 DEF Apart
    <3>7. Begun(j)'
      BY <2>1, <2>2, <3>1 DEF Begun, JobInv
    <3>8. QED
      BY <3>6, <3>7
  <2>4. \A i \in Jobs \ S : NotGiven(i) /\ LeftAlone(i)
    BY <1>0, <2>1, <2>2 DEF NotGiven, LeftAlone, InBuffer, Taken
  <2>5. QED
    BY <2>1, <2>3, <2>4, StepKeeps DEF HandInv
<1>9. ASSUME NEW j \in Jobs, MapFails(p, j), UNCHANGED jobVars PROVE HandInv'
  <2>1. UNCHANGED <<definitionVars, cpc, buffer, wJob>>
    BY <1>9 DEF MapFails
  <2>2. row' = [row EXCEPT ![j] = "Fail"] /\ held' = [held EXCEPT ![p] = @ \ {j}]
    BY <1>9 DEF MapFails
  <2>3. \A i \in Jobs : LeftAlone(i)
    BY <1>0, <2>1, <2>2 DEF LeftAlone
  <2>4. \A q \in Pools : held'[q] \subseteq held[q]
    BY <1>0, <2>2
  <2>5. QED
    BY <2>1, <2>3, <2>4, QuietStep
<1>10. ASSUME NEW j \in Jobs, FillBuffer(p, j), UNCHANGED jobVars PROVE HandInv'
  <2>1. UNCHANGED <<row, definitionVars, cpc, wJob>> /\ j \in held[p] /\ Buffered(p, j)
    BY <1>10 DEF FillBuffer
  <2>2. held' = [held EXCEPT ![p] = @ \ {j}]
    BY <1>10 DEF FillBuffer, FillLoop
  <2>3. JobInv(j) /\ ~Nobody(j)
    BY <2>1 DEF HandInv, Nobody
  <2>4. Begun(j) /\ ~InBuffer(p, j) /\ NoCopies(buffer[p])
    BY <2>1, <2>3, SomebodyBegan DEF JobInv, Apart, HandInv
  <2>5. /\ \A i \in Jobs : InBuffer(p, i)' <=> InBuffer(p, i) \/ i = j
        /\ \A q \in Pools \ {p} : buffer'[q] = buffer[q]
        /\ NoCopies(buffer'[p])
    BY <2>1, <2>4, BufferAppend
  <2>6. \A q \in Pools : NoCopies(buffer'[q])
    BY <2>5 DEF HandInv
  <2>7. Apart(j)' /\ Begun(j)'
    <3>1. Begun(j)'
      BY <2>1, <2>4 DEF Begun
    <3>2. \A q \in Pools : InBuffer(q, j)' => q = p
      BY <2>1, <2>3, <2>5 DEF JobInv, Apart, InBuffer
    <3>3. \A q \in Pools : j \notin held'[q]
      BY <1>0, <2>1, <2>2, <2>3 DEF JobInv, Apart
    <3>4. \A w \in Workers : wJob'[w] # j
      BY <2>1, <2>3 DEF JobInv, Apart
    <3>5. ~Taken(j)'
      BY <2>1, <2>3 DEF Taken, JobInv, Apart
    <3>6. QED
      BY <3>1, <3>2, <3>3, <3>4, <3>5 DEF Apart
  <2>8. \A i \in Jobs \ {j} : NotGiven(i) /\ LeftAlone(i)
    <3>1. \A i \in Jobs \ {j} : LeftAlone(i)
      BY <2>1 DEF LeftAlone
    <3>2. \A i \in Jobs \ {j}, q \in Pools : InBuffer(q, i)' => InBuffer(q, i)
      BY <2>5 DEF InBuffer
    <3>3. \A q \in Pools : held'[q] \subseteq held[q]
      BY <1>0, <2>2
    <3>4. QED
      BY <2>1, <3>1, <3>2, <3>3 DEF NotGiven, Taken
  <2>9. QED
    BY <2>6, <2>7, <2>8, StepKeeps
<1>11. ASSUME NEW j \in Jobs, FillFails(p, j), UNCHANGED jobVars PROVE HandInv'
  <2>1. UNCHANGED <<retryCount, cpc, buffer, wJob>> /\ j \in held[p]
    BY <1>11 DEF FillFails
  <2>2. /\ row' = [row EXCEPT ![j] = "Fail"] /\ status' = [status EXCEPT ![j] = "Fail"]
        /\ held' = [held EXCEPT ![p] = @ \ {j}]
    BY <1>11 DEF FillFails, Mark, FillLoop
  <2>3. JobInv(j) /\ Begun(j)
    BY <2>1, SomebodyBegan DEF HandInv, Nobody
  <2>4. \A q \in Pools : held'[q] \subseteq held[q]
    BY <1>0, <2>2
  <2>5. (\A q \in Pools : NoCopies(buffer'[q])) /\ \A i \in Jobs : NotGiven(i)
    BY <2>1, <2>4, NothingGiven
  <2>6. Apart(j)'
    BY <2>3, <2>5, ApartKept DEF JobInv
  <2>7. Begun(j)'
    BY <1>0, <2>1, <2>2, <2>3 DEF Begun
  <2>8. \A i \in Jobs \ {j} : LeftAlone(i)
    BY <1>0, <2>1, <2>2 DEF LeftAlone
  <2>9. QED
    BY <2>5, <2>6, <2>7, <2>8, StepKeeps
<1>12. CASE ManagerDies(p)
  <2>1. UNCHANGED <<row, definitionVars, cpc, buffer, wJob>> /\ held' = [held EXCEPT ![p] = {}]
    BY <1>12 DEF ManagerDies, ManagerThrows
  <2>2. \A i \in Jobs : LeftAlone(i)
    BY <2>1 DEF LeftAlone
  <2>3. \A q \in Pools : held'[q] \subseteq held[q]
    BY <1>0, <2>1
  <2>4. QED
    BY <2>1, <2>2, <2>3, QuietStep
<1>13. ASSUME NEW j \in Jobs, ManagerDrops(p, j) PROVE HandInv'
  <2>1. UNCHANGED <<row, definitionVars, cpc, buffer, wJob>>
        /\ held' = [held EXCEPT ![p] = @ \ {j}]
    BY <1>13 DEF ManagerDrops, MapThrows
  <2>2. \A i \in Jobs : LeftAlone(i)
    BY <2>1 DEF LeftAlone
  <2>3. \A q \in Pools : held'[q] \subseteq held[q]
    BY <1>0, <2>1
  <2>4. QED
    BY <2>1, <2>2, <2>3, QuietStep
<1>14. QED
  BY <1>1, <1>2, <1>3, <1>4, <1>5, <1>6, <1>7, <1>8, <1>9, <1>10, <1>11, <1>12, <1>13
     DEF ManagerRuns, ManagerStep

LEMMA GoDownHands ==
  ASSUME TypeInv, HandInv, NEW s \in Servers, GoDown(s)
  PROVE  HandInv'
<1>1. UNCHANGED <<row, definitionVars>>
  BY DEF GoDown
<1>2. \A i \in Singles : cpc'[i] \in {cpc[i], "lost"}
  BY DEF GoDown
<1>3. \A q \in Pools : buffer'[q] \in {buffer[q], <<>>} /\ held'[q] \subseteq held[q]
  BY DEF GoDown
<1>4. \A v \in Workers : wJob'[v] \in {wJob[v], NoJob}
  BY DEF GoDown
<1>5. \A i \in Jobs : LeftAlone(i)
  BY <1>1, <1>2 DEF LeftAlone, definitionVars
<1>6. QED
  BY <1>2, <1>3, <1>4, <1>5, QuietStep

(* A worker writes the status of the job it has.                           *)
LEMMA WorkerWrites ==
  ASSUME TypeInv, HandInv, NEW w \in Workers, NEW s \in Status \ {"WaitingProcess"},
         wJob[w] \in Jobs, Begun(wJob[w]), Apart(wJob[w]),
         Mark(wJob[w], s), row' \in {row, Updated(wJob[w])},
         status[wJob[w]] \in Status,
         \A i \in Jobs \ {wJob[w]} : retryCount'[i] = retryCount[i],
         UNCHANGED <<cpc, buffer, held, wJob>>
  PROVE  HandInv'
<1> DEFINE j == wJob[w]
<1>0. /\ status \in [Jobs -> Status]
      /\ row \in [Jobs -> Status \cup {"none", "deleted"}]
  BY DEF TypeInv, TypeOK, StorageTypeOK
<1>1. status' = [status EXCEPT ![j] = s]
  BY DEF Mark
<1>2. /\ row'[j] \in {row[j], status[j]}
      /\ \A i \in Jobs \ {j} : row'[i] = row[i]
  BY <1>0 DEF Updated
<1>3. (\A q \in Pools : NoCopies(buffer'[q])) /\ \A i \in Jobs : NotGiven(i)
  BY NothingGiven
<1>4. Apart(j)'
  BY DEF Apart, InBuffer, Taken
<1>5. Begun(j)'
  <2>1. status[j] \notin {"WaitingProcess", "none"}
    BY DEF Begun, Status
  <2>2. QED
    BY <1>0, <1>1, <1>2, <2>1 DEF Begun
<1>6. \A i \in Jobs \ {j} : LeftAlone(i)
  BY <1>0, <1>1, <1>2 DEF LeftAlone
<1>7. \A i \in Jobs \cap {j} : Apart(i)' /\ Begun(i)'
  <2>1. ASSUME NEW i \in Jobs \cap {j} PROVE Apart(i)' /\ Begun(i)'
    <3>1. i = j /\ j' = j
      BY <2>1
    <3>2. QED
      BY <3>1, <1>4, <1>5 DEF Apart, Begun, InBuffer, Taken
  <2>2. QED
    BY <2>1
<1>8. QED
  BY <1>3, <1>6, <1>7, StepKeeps

LEMMA WorkerHands ==
  ASSUME TypeInv, HandInv, NEW w \in Workers,
         WorkerStep(w) \/ UpdateThrows(w) \/ UpdateKills(w)
  PROVE  HandInv'
<1> USE DEF historyVars, workerRest, managerVars, scheduleVars
<1>0. /\ PoolOf[w] \in Pools
      /\ status \in [Jobs -> Status] /\ retryCount \in [Jobs -> Nat]
      /\ wJob \in [Workers -> Jobs \cup {NoJob}]
      /\ {"Processing", "Completed", "Fail", "Enqueued", "Enqueuing"}
           \subseteq Status \ {"WaitingProcess"}
  BY JobsAssumption DEF Status, TypeInv, TypeOK, StorageTypeOK
<1>1. CASE TakeWorkItem(w)
  <2> DEFINE p == PoolOf[w]
             j == Head(buffer[p])
  <2>1. UNCHANGED <<row, status, retryCount, cpc, held>> /\ buffer[p] # <<>>
    BY <1>1 DEF TakeWorkItem
  <2>2. buffer' = [buffer EXCEPT ![p] = Tail(@)] /\ wJob' = [wJob EXCEPT ![w] = j]
    BY <1>1 DEF TakeWorkItem
  <2>3. NoCopies(buffer[p])
    BY <1>0 DEF HandInv
  <2>4. /\ j \in Jobs /\ InBuffer(p, j)
        /\ \A i \in Jobs : InBuffer(p, i)' => InBuffer(p, i) /\ i # j
        /\ \A q \in Pools \ {p} : buffer'[q] = buffer[q]
        /\ NoCopies(buffer'[p])
    BY <1>0, <2>1, <2>2, <2>3, BufferTail
  <2>5. JobInv(j) /\ Begun(j)
    BY <1>0, <2>4, SomebodyBegan DEF HandInv, Nobody
  <2>6. \A q \in Pools : NoCopies(buffer'[q])
    BY <2>4 DEF HandInv
  <2>7. ASSUME NEW i \in Jobs, i = j PROVE Apart(i)' /\ Begun(i)'
    <3>1. Begun(i)'
      BY <2>1, <2>5, <2>7 DEF Begun
    <3>2. \A q \in Pools : ~InBuffer(q, i)'
      BY <1>0, <2>4, <2>5, <2>7 DEF JobInv, Apart, InBuffer
    <3>3. \A q \in Pools : i \notin held'[q]
      BY <1>0, <2>1, <2>4, <2>5, <2>7 DEF JobInv, Apart
    <3>4. \A v \in Workers : wJob'[v] = i => v = w
      BY <1>0, <2>2, <2>4, <2>5, <2>7 DEF JobInv, Apart
    <3>5. ~Taken(i)'
      BY <1>0, <2>1, <2>4, <2>5, <2>7 DEF Taken, JobInv, Apart
    <3>6. QED
      BY <3>1, <3>2, <3>3, <3>4, <3>5 DEF Apart
  <2>8. ASSUME NEW i \in Jobs, i # j PROVE NotGiven(i) /\ LeftAlone(i)
    <3>1. LeftAlone(i)
      BY <2>1 DEF LeftAlone
    <3>2. \A q \in Pools : InBuffer(q, i)' => InBuffer(q, i)
      BY <2>4 DEF InBuffer
    <3>3. \A v \in Workers : wJob'[v] = i => wJob[v] = i
      BY <1>0, <2>2, <2>8
    <3>4. QED
      BY <2>1, <3>1, <3>2, <3>3 DEF NotGiven, Taken
  <2>9. /\ \A i \in Jobs \cap {j} : Apart(i)' /\ Begun(i)'
        /\ \A i \in Jobs \ {j} : NotGiven(i) /\ LeftAlone(i)
    BY <2>7, <2>8
  <2>10. QED
    BY <2>6, <2>9, StepKeeps
<1>2. CASE ExecuteStart(w)
  <2>1. /\ wJob[w] \in Jobs /\ Begun(wJob[w]) /\ Apart(wJob[w])
        /\ status[wJob[w]] \in Status
    BY <1>2, WorkerBegan DEF ExecuteStart
  <2>2. Mark(wJob[w], "Processing") /\ UNCHANGED <<row, cpc, buffer, held, wJob>>
    BY <1>2 DEF ExecuteStart, Write
  <2>3. \A i \in Jobs \ {wJob[w]} : retryCount'[i] = retryCount[i]
    BY <1>0, <1>2 DEF ExecuteStart
  <2>4. QED
    BY <1>0, <2>1, <2>2, <2>3, WorkerWrites
<1>3. CASE ExecuteComplete(w)
  <2>1. /\ wJob[w] \in Jobs /\ Begun(wJob[w]) /\ Apart(wJob[w])
        /\ status[wJob[w]] \in Status
    BY <1>3, WorkerBegan DEF ExecuteComplete
  <2>2. Mark(wJob[w], "Completed") /\ UNCHANGED <<row, retryCount, cpc, buffer, held, wJob>>
    BY <1>3 DEF ExecuteComplete, Write
  <2>3. QED
    BY <1>0, <2>1, <2>2, WorkerWrites
<1>4. CASE ExecuteFail(w)
  <2>1. /\ wJob[w] \in Jobs /\ Begun(wJob[w]) /\ Apart(wJob[w])
        /\ status[wJob[w]] \in Status
    BY <1>4, WorkerBegan DEF ExecuteFail
  <2>2. Mark(wJob[w], "Fail") /\ UNCHANGED <<row, retryCount, cpc, buffer, held, wJob>>
    BY <1>4 DEF ExecuteFail, Write
  <2>3. QED
    BY <1>0, <2>1, <2>2, WorkerWrites
<1>5. CASE FailAgain(w)
  <2>1. /\ wJob[w] \in Jobs /\ Begun(wJob[w]) /\ Apart(wJob[w])
        /\ status[wJob[w]] \in Status
    BY <1>5, WorkerBegan DEF FailAgain
  <2>2. Mark(wJob[w], "Fail") /\ UNCHANGED <<row, retryCount, cpc, buffer, held, wJob>>
    BY <1>5 DEF FailAgain, Write
  <2>3. QED
    BY <1>0, <2>1, <2>2, WorkerWrites
<1>5a. CASE DoFail(w)
  <2>1. /\ wJob[w] \in Jobs /\ Begun(wJob[w]) /\ Apart(wJob[w])
        /\ status[wJob[w]] \in Status
    BY <1>5a, WorkerBegan DEF DoFail
  <2>2. Mark(wJob[w], "Fail") /\ UNCHANGED <<row, retryCount, cpc, buffer, held, wJob>>
    BY <1>5a DEF DoFail, Write
  <2>3. QED
    BY <1>0, <2>1, <2>2, WorkerWrites
<1>6. CASE EndDelay(w)
  <2>1. /\ wJob[w] \in Jobs /\ Begun(wJob[w]) /\ Apart(wJob[w])
        /\ status[wJob[w]] \in Status
    BY <1>6, WorkerBegan DEF EndDelay
  <2>2. Mark(wJob[w], "Enqueued") /\ UNCHANGED <<row, retryCount, cpc, buffer, held, wJob>>
    BY <1>6 DEF EndDelay, Write
  <2>3. QED
    BY <1>0, <2>1, <2>2, WorkerWrites
<1>7. CASE Requeue(w)
  <2> DEFINE p == PoolOf[w]
             j == wJob[w]
  <2>1. UNCHANGED <<row, status, retryCount, cpc, held>> /\ Buffered(p, j)
        /\ wJob' = [wJob EXCEPT ![w] = NoJob]
    BY <1>7 DEF Requeue, Free
  <2>2. j \in Jobs /\ Begun(j) /\ Apart(j)
    BY <1>7, WorkerBegan DEF Requeue
  <2>3. ~InBuffer(p, j) /\ NoCopies(buffer[p])
    BY <1>0, <2>2 DEF Apart, HandInv
  <2>4. /\ \A i \in Jobs : InBuffer(p, i)' <=> InBuffer(p, i) \/ i = j
        /\ \A q \in Pools \ {p} : buffer'[q] = buffer[q]
        /\ NoCopies(buffer'[p])
    BY <1>0, <2>1, <2>2, <2>3, BufferAppend
  <2>5. \A q \in Pools : NoCopies(buffer'[q])
    BY <2>4 DEF HandInv
  <2>6. ASSUME NEW i \in Jobs, i = j PROVE Apart(i)' /\ Begun(i)'
    <3>1. Begun(i)'
      BY <2>1, <2>2, <2>6 DEF Begun
    <3>2. \A q \in Pools : InBuffer(q, i)' => q = p
      BY <2>2, <2>4, <2>6 DEF Apart, InBuffer
    <3>3. \A q \in Pools : i \notin held'[q]
      BY <2>1, <2>2, <2>6 DEF Apart
    <3>4. \A v \in Workers : wJob'[v] # i
      BY <1>0, <2>1, <2>2, <2>6, JobsAssumption DEF Apart
    <3>5. ~Taken(i)'
      BY <2>1, <2>2, <2>6 DEF Taken, Apart
    <3>6. QED
      BY <3>1, <3>2, <3>3, <3>4, <3>5 DEF Apart
  <2>7. ASSUME NEW i \in Jobs, i # j PROVE NotGiven(i) /\ LeftAlone(i)
    <3>1. LeftAlone(i)
      BY <2>1 DEF LeftAlone
    <3>2. \A q \in Pools : InBuffer(q, i)' => InBuffer(q, i)
      BY <2>4, <2>7 DEF InBuffer
    <3>3. \A v \in Workers : wJob'[v] = i => wJob[v] = i
      BY <1>0, <2>1, JobsAssumption
    <3>4. QED
      BY <2>1, <3>1, <3>2, <3>3 DEF NotGiven, Taken
  <2>8. /\ \A i \in Jobs \cap {j} : Apart(i)' /\ Begun(i)'
        /\ \A i \in Jobs \ {j} : NotGiven(i) /\ LeftAlone(i)
    BY <2>6, <2>7
  <2>9. QED
    BY <2>5, <2>8, StepKeeps
<1>8. CASE UpdateStatus(w)
  <2>1. wJob[w] \in Jobs /\ Begun(wJob[w]) /\ status[wJob[w]] \in Status
    BY <1>8, WorkerBegan DEF UpdateStatus, Reported
  <2>2. row' = Updated(wJob[w]) /\ UNCHANGED <<status, retryCount, cpc, buffer, held, wJob>>
    BY <1>8 DEF UpdateStatus
  <2>3. \A i \in Jobs : LeftAlone(i)
    BY <2>1, <2>2 DEF LeftAlone, Updated, Begun, Status, TypeInv, TypeOK, StorageTypeOK
  <2>4. QED
    BY <2>2, <2>3, QuietStep
<1>9. CASE UpdateAndRetry(w)
  <2>1. /\ wJob[w] \in Jobs /\ Begun(wJob[w]) /\ Apart(wJob[w])
        /\ status[wJob[w]] \in Status
    BY <1>9, WorkerBegan DEF UpdateAndRetry
  <2>2. /\ Mark(wJob[w], "Enqueuing") /\ row' = Updated(wJob[w])
        /\ UNCHANGED <<retryCount, cpc, buffer, held, wJob>>
    BY <1>9 DEF UpdateAndRetry, Write
  <2>3. QED
    BY <1>0, <2>1, <2>2, WorkerWrites
<1>10. CASE LastUpdate(w)
  <2>1. wJob[w] \in Jobs /\ Begun(wJob[w]) /\ status[wJob[w]] \in Status
    BY <1>10, WorkerBegan DEF LastUpdate
  <2>2. /\ row' = Updated(wJob[w]) /\ wJob' = [wJob EXCEPT ![w] = NoJob]
        /\ UNCHANGED <<status, retryCount, cpc, buffer, held>>
    BY <1>10 DEF LastUpdate, Free
  <2>3. \A i \in Jobs : LeftAlone(i)
    BY <2>1, <2>2 DEF LeftAlone, Updated, Begun, Status, TypeInv, TypeOK, StorageTypeOK
  <2>4. \A v \in Workers : wJob'[v] \in {wJob[v], NoJob}
    BY <1>0, <2>2
  <2>5. QED
    BY <2>2, <2>3, <2>4, QuietStep
<1>11. CASE UpdateThrows(w)
  <2>1. /\ wJob[w] \in Jobs /\ Begun(wJob[w]) /\ Apart(wJob[w])
        /\ status[wJob[w]] \in Status
    BY <1>11, WorkerBegan DEF UpdateThrows
  <2>2. UNCHANGED <<row, retryCount, cpc, buffer, held, wJob>>
    BY <1>11 DEF UpdateThrows
  <2>3. CASE UNCHANGED status
    <3>1. \A i \in Jobs : LeftAlone(i)
      BY <2>2, <2>3 DEF LeftAlone
    <3>2. QED
      BY <2>2, <3>1, QuietStep
  <2>4. CASE Mark(wJob[w], "Fail")
    BY <1>0, <2>1, <2>2, <2>4, WorkerWrites
  <2>5. QED
    BY <1>11, <2>3, <2>4 DEF UpdateThrows, Write
<1>12. CASE UpdateKills(w)
  <2>1. ServerOf[PoolOf[w]] \in Servers /\ GoDown(ServerOf[PoolOf[w]])
    BY <1>0, <1>12, SqlAssumption DEF UpdateKills
  <2>2. QED
    BY <2>1, GoDownHands
<1>13. QED
  BY <1>1, <1>2, <1>3, <1>4, <1>5, <1>5a, <1>6, <1>7, <1>8, <1>9, <1>10, <1>11, <1>12
     DEF WorkerStep

LEMMA ServerHands ==
  ASSUME TypeInv, HandInv, (\E s \in Servers : Crash(s) \/ Restart(s)) \/ Clean
  PROVE  HandInv'
<1>1. ASSUME NEW s \in Servers, Crash(s) PROVE HandInv'
  BY <1>1, GoDownHands DEF Crash
<1>2. ASSUME NEW s \in Servers, Restart(s) PROVE HandInv'
  <2>1. UNCHANGED <<row, definitionVars, cpc, buffer, held, wJob>>
    BY <1>2 DEF Restart
  <2>2. \A i \in Jobs : LeftAlone(i)
    BY <2>1 DEF LeftAlone, definitionVars
  <2>3. QED
    BY <2>1, <2>2, QuietStep
<1>3. CASE Clean
  <2>1. UNCHANGED <<definitionVars, cpc, buffer, held, wJob>>
    BY <1>3 DEF Clean, managerVars, workerVars
  <2>2. \A i \in Jobs : row'[i] \in {row[i], "deleted"}
    BY <1>3 DEF Clean
  <2>3. \A i \in Jobs : LeftAlone(i)
    BY <2>1, <2>2 DEF LeftAlone, definitionVars
  <2>4. QED
    BY <2>1, <2>3, QuietStep
<1>4. QED
  BY <1>1, <1>2, <1>3

LEMMA NextHands == TypeInv /\ HandInv /\ [Next]_vars => HandInv'
<1> SUFFICES ASSUME TypeInv, HandInv, [Next]_vars PROVE HandInv'
  OBVIOUS
<1>1. CASE UNCHANGED vars
  <2>1. UNCHANGED <<row, definitionVars, cpc, buffer, held, wJob>>
    BY <1>1 DEF vars, storageVars, managerVars, workerVars
  <2>2. \A i \in Jobs : LeftAlone(i)
    BY <2>1 DEF LeftAlone, definitionVars
  <2>3. QED
    BY <2>1, <2>2, QuietStep
<1>2. QED
  BY <1>1, CallerHands, ManagerHands, WorkerHands, ServerHands DEF Next

-----------------------------------------------------------------------------

(* However direct enqueue, the peeks of several servers, retries, commands *)
(* that throw and crashes interleave, no job is in two hands.              *)
THEOREM NoJobInTwoHands == Spec => []OneHand
<1>1. QED
  BY InitTyped, NextTyped, InitHands, NextHands, HandInvImplies, PTL DEF Spec

(* What PeekOrWait would take is with nobody and was never begun.          *)
THEOREM WaitingRowsAreUntouched == Spec => []WaitingUntouched
<1>1. QED
  BY InitTyped, NextTyped, InitHands, NextHands, HandInvImplies, PTL DEF Spec

-----------------------------------------------------------------------------
(* Jobs that have completed are not run again, and rows say how their jobs *)
(* ended.                                                                  *)

(* Completed and still to be reported, or in nobody's hands.               *)
Done(j) ==
  /\ status[j] # "WaitingProcess" /\ ~Taken(j)
  /\ \A p \in Pools : ~InBuffer(p, j) /\ j \notin held[p]
  /\ \A w \in Workers : wJob[w] = j => wpc[w] = "completed"

Calling(j) == j \in Singles /\ cpc[j] \in {"new", "take", "mark", "insert"}

(* Only a job that went past the table may be run before it has a row.     *)
RowInv(j) ==
  /\ row[j] # "none" => hasId[j]
  /\ Calling(j) => ~hasId[j]
  /\ \A p \in Pools : /\ j \in held[p] => hasId[j]
                      /\ InBuffer(p, j) => hasId[j] \/ j \in direct
  /\ \A w \in Workers : wJob[w] = j => hasId[j] \/ j \in direct
  /\ j \in Singles /\ cpc[j] = "mark" => j \in direct
  /\ j \in Singles /\ cpc[j] = "insert" => j \in direct \/ status[j] = "WaitingProcess"
  /\ status[j] = "Completed" \/ row[j] \in {"Completed", "deleted"} => j \in completed

ReportInv(j) ==
  /\ j \in completed \ unreported => Done(j)
  /\ j \notin direct \cup unreported =>
       \A w \in Workers :
         /\ wJob[w] = j /\ wpc[w] = "completed" => status[j] = "Completed"
         /\ wJob[w] = j /\ wpc[w] = "filtered" => status[j] = "Fail"

EndedInv(j) ==
  j \in ended \ (direct \cup unreported) =>
    /\ Nobody(j) /\ status[j] # "WaitingProcess"
    /\ row[j] \in (IF j \in completed THEN {"Completed", "deleted"} ELSE {"Fail"})

JobOutcome(j) == RowInv(j) /\ ReportInv(j) /\ EndedInv(j)

DownInv ==
  \A w \in Workers : ServerOf[PoolOf[w]] \notin up => wpc[w] = "off" /\ wJob[w] = NoJob

OutcomeInv == DownInv /\ \A j \in Jobs : JobOutcome(j)

Inv == TypeInv /\ HandInv /\ OutcomeInv

-----------------------------------------------------------------------------

LEMMA InitOutcome == Init => OutcomeInv
<1> SUFFICES ASSUME Init PROVE OutcomeInv
  OBVIOUS
<1>1. /\ \A p \in Pools : buffer[p] = <<>> /\ held[p] = {}
      /\ \A w \in Workers : wJob[w] = NoJob /\ ServerOf[PoolOf[w]] \in up
      /\ \A j \in Singles : cpc[j] = "new"
      /\ \A j \in Jobs : status[j] = "WaitingProcess" /\ row[j] = "none" /\ hasId[j] = FALSE
      /\ completed = {} /\ ended = {}
  BY SqlAssumption, JobsAssumption DEF Init, StorageInit
<1>2. \A p \in Pools, j \in Jobs : ~InBuffer(p, j)
  BY <1>1 DEF InBuffer
<1>3. \A j \in Jobs : RowInv(j) /\ ReportInv(j) /\ EndedInv(j)
  BY <1>1, <1>2, JobsAssumption DEF RowInv, ReportInv, EndedInv, Calling
<1>4. QED
  BY <1>1, <1>3 DEF OutcomeInv, DownInv, JobOutcome

LEMMA OutcomeInvImplies == Inv => NotRunAgain /\ OutcomeRecorded
<1> SUFFICES ASSUME Inv PROVE NotRunAgain /\ OutcomeRecorded
  OBVIOUS
<1>1. NotRunAgain
  <2>1. \A w \in Workers : wpc[w] = "run" => wJob[w] \in Jobs
    BY DEF Inv, TypeInv, BusyOK
  <2>2. QED
    BY <2>1 DEF Inv, OutcomeInv, JobOutcome, ReportInv, Done, NotRunAgain
<1>2. OutcomeRecorded
  BY DEF Inv, OutcomeInv, JobOutcome, EndedInv, OutcomeRecorded, TypeInv, TypeOK
<1>3. QED
  BY <1>1, <1>2

(* A step that has nothing to do with the job.                             *)
NotTouched(j) ==
  /\ status'[j] = status[j] /\ row'[j] = row[j] /\ hasId'[j] = hasId[j]
  /\ j \in Singles => cpc'[j] = cpc[j] \/ cpc'[j] \notin {"new", "take", "mark", "insert"}
  /\ NotGiven(j)
  /\ \A w \in Workers : wJob'[w] = j => wpc'[w] = wpc[w]
  /\ j \in completed' <=> j \in completed
  /\ j \in ended' => j \in ended

LEMMA NotTouchedKeeps ==
  ASSUME NEW j \in Jobs, JobOutcome(j), NotTouched(j),
         direct \subseteq direct', unreported \subseteq unreported'
  PROVE  JobOutcome(j)'
<1> USE DEF JobOutcome, NotTouched, NotGiven
<1>1. RowInv(j)'
  BY DEF RowInv, Calling, InBuffer
<1>2. Done(j) => Done(j)'
  BY DEF Done, InBuffer, Taken
<1>3. ReportInv(j)'
  BY <1>2 DEF ReportInv
<1>4. Nobody(j) => Nobody(j)'
  BY ApartKept
<1>5. EndedInv(j)'
  BY <1>4 DEF EndedInv
<1>6. QED
  BY <1>1, <1>3, <1>5

(* A job that still waits is neither completed nor ended.                  *)
LEMMA WaitingIsFresh ==
  ASSUME Inv, NEW j \in Jobs, status[j] = "WaitingProcess"
  PROVE  Nobody(j) /\ j \notin completed \ unreported /\ j \notin ended \ (direct \cup unreported)
  BY DEF Inv, HandInv, JobInv, OutcomeInv, JobOutcome, ReportInv, EndedInv, Done

LEMMA CallerOutcome ==
  ASSUME Inv,
         \/ \E d \in Delayed \cup Schedules : TimePasses(d)
         \/ \E x \in Schedules : SetSchedule(x) /\ UNCHANGED jobVars
         \/ \E j \in Singles : \/ SetCheck(j) /\ UNCHANGED jobVars
                               \/ CallerRuns(j)
                               \/ CallerThrows(j)
  PROVE  \A i \in Jobs : JobOutcome(i)'
<1> USE DEF jobVars, workerVars, historyVars, callerRest, managerVars, scheduleVars, definitionVars
<1>0. /\ Singles \subseteq Jobs /\ Clones \cap Singles = {}
      /\ status \in [Jobs -> Status] /\ cpc \in [Singles -> CallerPC]
      /\ row \in [Jobs -> Status \cup {"none", "deleted"}] /\ hasId \in [Jobs -> BOOLEAN]
      /\ \A i \in Jobs : JobInv(i) /\ JobOutcome(i)
  BY SqlAssumption DEF Jobs, Inv, TypeInv, TypeOK, StorageTypeOK, HandInv, OutcomeInv
<1>1. ASSUME NEW d \in Delayed \cup Schedules, TimePasses(d) PROVE \A i \in Jobs : JobOutcome(i)'
  <2>1. UNCHANGED <<row, definitionVars, cpc, buffer, held, wpc, wJob, direct, historyVars>>
    BY <1>1 DEF TimePasses, Occur
  <2>2. \A i \in Jobs : NotTouched(i)
    BY <2>1 DEF NotTouched, NotGiven, InBuffer, Taken
  <2>3. QED
    BY <1>0, <2>1, <2>2, NotTouchedKeeps
<1>2. ASSUME NEW x \in Schedules, SetSchedule(x), UNCHANGED jobVars PROVE \A i \in Jobs : JobOutcome(i)'
  <2>1. UNCHANGED <<row, definitionVars, cpc, buffer, held, wpc, wJob, direct, historyVars>>
    BY <1>2 DEF SetSchedule
  <2>2. \A i \in Jobs : NotTouched(i)
    BY <2>1 DEF NotTouched, NotGiven, InBuffer, Taken
  <2>3. QED
    BY <1>0, <2>1, <2>2, NotTouchedKeeps
<1>3. ASSUME NEW j \in Singles, SetCheck(j), UNCHANGED jobVars PROVE \A i \in Jobs : JobOutcome(i)'
  <2>1. UNCHANGED <<row, hasId, buffer, held, wpc, wJob, direct, historyVars>> /\ cpc[j] = "new"
    BY <1>3 DEF SetCheck
  <2>2. PICK label \in {"take", "threw", "insert"} :
          /\ cpc' = [cpc EXCEPT ![j] = label]
          /\ \/ status' = [status EXCEPT ![j] = "Enqueued"] /\ label # "insert"
             \/ status' = status
    BY <1>3 DEF SetCheck, Mark, TakenStatus, CallerTo
  <2>3. status[j] = "WaitingProcess" /\ Nobody(j) /\ RowInv(j)
        /\ j \notin completed \ unreported /\ j \notin ended \ (direct \cup unreported)
    BY <1>0, <2>1, WaitingIsFresh DEF JobInv, JobOutcome
  <2>4. RowInv(j)'
    BY <1>0, <2>1, <2>2, <2>3 DEF RowInv, Calling, InBuffer
  <2>5. ReportInv(j)' /\ EndedInv(j)'
    BY <2>1, <2>3 DEF ReportInv, EndedInv, Nobody
  <2>6. \A i \in Jobs \ {j} : NotTouched(i)
    BY <1>0, <2>1, <2>2 DEF NotTouched, NotGiven, InBuffer, Taken
  <2>7. \A i \in Jobs \ {j} : JobOutcome(i)'
    BY <1>0, <2>1, <2>6, NotTouchedKeeps
  <2>8. QED
    BY <2>4, <2>5, <2>7 DEF JobOutcome
<1>4. ASSUME NEW j \in Singles, SetTake(j), UNCHANGED jobVars PROVE \A i \in Jobs : JobOutcome(i)'
  <2>1. UNCHANGED <<row, status, hasId, held, wpc, wJob, historyVars>> /\ cpc[j] = "take"
    BY <1>4 DEF SetTake
  <2>2. direct' = direct \cup {j} /\ cpc' = [cpc EXCEPT ![j] = "mark"]
    BY <1>4 DEF SetTake, CallerTo
  <2>3. PICK p \in Pools : Buffered(p, j)
    BY <1>4 DEF SetTake, PoolFor
  <2>4. /\ \A i \in Jobs : InBuffer(p, i)' <=> InBuffer(p, i) \/ i = j
        /\ \A q \in Pools \ {p} : buffer'[q] = buffer[q]
    <3>1. ~InBuffer(p, j) /\ NoCopies(buffer[p])
      BY <1>0, <2>1 DEF JobInv, Apart, Taken, Inv, HandInv
    <3>2. QED
      BY <1>0, <2>3, <3>1, BufferAppend DEF Inv
  <2>5. RowInv(j) /\ ~Done(j) /\ ~Nobody(j) /\ ReportInv(j)
    BY <1>0, <2>1 DEF JobOutcome, Done, Nobody, Taken
  <2>6. RowInv(j)'
    BY <1>0, <2>1, <2>2, <2>5 DEF RowInv, Calling
  <2>7. ReportInv(j)' /\ EndedInv(j)'
    BY <2>1, <2>2, <2>5 DEF ReportInv, EndedInv
  <2>8. \A i \in Jobs \ {j} : NotTouched(i)
    <3>1. \A i \in Jobs \ {j}, q \in Pools : InBuffer(q, i)' => InBuffer(q, i)
      BY <2>4 DEF InBuffer
    <3>2. QED
      BY <1>0, <2>1, <2>2, <3>1 DEF NotTouched, NotGiven, Taken
  <2>9. \A i \in Jobs \ {j} : JobOutcome(i)'
    BY <1>0, <2>1, <2>2, <2>8, NotTouchedKeeps
  <2>10. QED
    BY <2>6, <2>7, <2>9 DEF JobOutcome
<1>5. ASSUME NEW j \in Singles, SetMark(j), UNCHANGED jobVars PROVE \A i \in Jobs : JobOutcome(i)'
  <2>1. UNCHANGED <<row, hasId, buffer, held, wpc, wJob, direct, historyVars>> /\ cpc[j] = "mark"
    BY <1>5 DEF SetMark
  <2>2. status' = [status EXCEPT ![j] = "Enqueued"] /\ cpc' = [cpc EXCEPT ![j] = "insert"]
    BY <1>5 DEF SetMark, Mark, TakenStatus, CallerTo
  <2>3. RowInv(j) /\ ReportInv(j) /\ j \in direct
    BY <1>0, <2>1 DEF JobOutcome, RowInv
  <2>4. RowInv(j)'
    BY <1>0, <2>1, <2>2, <2>3 DEF RowInv, Calling, InBuffer
  <2>5. ReportInv(j)' /\ EndedInv(j)'
    BY <1>0, <2>1, <2>2, <2>3 DEF ReportInv, EndedInv, Done, InBuffer, Taken
  <2>6. \A i \in Jobs \ {j} : NotTouched(i)
    BY <1>0, <2>1, <2>2 DEF NotTouched, NotGiven, InBuffer, Taken
  <2>7. \A i \in Jobs \ {j} : JobOutcome(i)'
    BY <1>0, <2>1, <2>6, NotTouchedKeeps
  <2>8. QED
    BY <2>4, <2>5, <2>7 DEF JobOutcome
<1>6. ASSUME NEW j \in Singles, SetInsert(j), UNCHANGED jobVars PROVE \A i \in Jobs : JobOutcome(i)'
  <2>1. UNCHANGED <<status, buffer, held, wpc, wJob, direct, historyVars>> /\ cpc[j] = "insert"
    BY <1>6 DEF SetInsert
  <2>2. /\ row' = [row EXCEPT ![j] = status[j]] /\ hasId' = [hasId EXCEPT ![j] = TRUE]
        /\ cpc' = [cpc EXCEPT ![j] = "returned"]
    BY <1>6 DEF SetInsert, Insert, CallerTo
  <2>3. RowInv(j) /\ ReportInv(j) /\ EndedInv(j) /\ status[j] \in Status
        /\ (j \in direct \/ status[j] = "WaitingProcess")
    BY <1>0, <2>1 DEF JobOutcome, RowInv
  <2>4. RowInv(j)'
    BY <1>0, <2>1, <2>2, <2>3 DEF RowInv, Calling, InBuffer, Status
  <2>5. ReportInv(j)' /\ EndedInv(j)'
    BY <1>0, <2>1, <2>2, <2>3 DEF ReportInv, EndedInv, Done, InBuffer, Taken
  <2>6. \A i \in Jobs \ {j} : NotTouched(i)
    BY <1>0, <2>1, <2>2 DEF NotTouched, NotGiven, InBuffer, Taken
  <2>7. \A i \in Jobs \ {j} : JobOutcome(i)'
    BY <1>0, <2>1, <2>6, NotTouchedKeeps
  <2>8. QED
    BY <2>4, <2>5, <2>7 DEF JobOutcome
<1>7. ASSUME NEW j \in Singles, CallerThrows(j) PROVE \A i \in Jobs : JobOutcome(i)'
  <2>1. /\ UNCHANGED <<row, definitionVars, buffer, held, wpc, wJob, direct, completed, ended>>
        /\ unreported \subseteq unreported'
    BY <1>7 DEF CallerThrows, SetThrows
  <2>2. cpc' = [cpc EXCEPT ![j] = "threw"]
    BY <1>7 DEF CallerThrows, SetThrows, CallerTo
  <2>3. \A i \in Jobs : NotTouched(i)
    BY <1>0, <2>1, <2>2 DEF NotTouched, NotGiven, InBuffer, Taken
  <2>4. QED
    BY <1>0, <2>1, <2>3, NotTouchedKeeps
<1>8. QED
  BY <1>1, <1>2, <1>3, <1>4, <1>5, <1>6, <1>7 DEF CallerRuns, SetStep

(* What a manager has, or a buffer, is not completed, nor ended.           *)
LEMMA HeldIsOpen ==
  ASSUME Inv, NEW j \in Jobs, \E p \in Pools : j \in held[p] \/ InBuffer(p, j)
  PROVE  j \notin completed \ unreported /\ j \notin ended \ (direct \cup unreported)
  BY DEF Inv, OutcomeInv, JobOutcome, ReportInv, EndedInv, Done, Nobody

LEMMA ManagerOutcome ==
  ASSUME Inv, NEW p \in Pools,
         ManagerRuns(p) \/ ManagerDies(p) \/ \E j \in Jobs : ManagerDrops(p, j)
  PROVE  \A i \in Jobs : JobOutcome(i)'
<1> USE DEF jobVars, workerVars, historyVars, managerRest, definitionVars
<1>0. /\ Clones \subseteq Jobs /\ Clones \cap Singles = {}
      /\ status \in [Jobs -> Status] /\ held \in [Pools -> SUBSET Jobs]
      /\ row \in [Jobs -> Status \cup {"none", "deleted"}] /\ hasId \in [Jobs -> BOOLEAN]
      /\ \A i \in Jobs : JobInv(i) /\ JobOutcome(i)
  BY SqlAssumption DEF Jobs, Inv, TypeInv, TypeOK, StorageTypeOK, HandInv, OutcomeInv
<1>1. ASSUME PeekCall(p), UNCHANGED jobVars PROVE \A i \in Jobs : JobOutcome(i)'
  <2>1. UNCHANGED <<row, definitionVars, cpc, buffer, held, wpc, wJob, direct, historyVars>>
    BY <1>1 DEF PeekCall
  <2>2. \A i \in Jobs : NotTouched(i)
    BY <2>1 DEF NotTouched, NotGiven, InBuffer, Taken
  <2>3. QED
    BY <1>0, <2>1, <2>2, NotTouchedKeeps
<1>2. ASSUME CheckSchedules(p), UNCHANGED jobVars PROVE \A i \in Jobs : JobOutcome(i)'
  <2>1. UNCHANGED <<row, definitionVars, cpc, buffer, held, wpc, wJob, direct, historyVars>>
    BY <1>2 DEF CheckSchedules
  <2>2. \A i \in Jobs : NotTouched(i)
    BY <2>1 DEF NotTouched, NotGiven, InBuffer, Taken
  <2>3. QED
    BY <1>0, <2>1, <2>2, NotTouchedKeeps
<1>3. ASSUME CheckSchedule(p), UNCHANGED jobVars PROVE \A i \in Jobs : JobOutcome(i)'
  <2>1. UNCHANGED <<row, definitionVars, cpc, buffer, held, wpc, wJob, direct, historyVars>>
    BY <1>3 DEF CheckSchedule
  <2>2. \A i \in Jobs : NotTouched(i)
    BY <2>1 DEF NotTouched, NotGiven, InBuffer, Taken
  <2>3. QED
    BY <1>0, <2>1, <2>2, NotTouchedKeeps
<1>4. ASSUME CalculateNextRun(p), UNCHANGED jobVars PROVE \A i \in Jobs : JobOutcome(i)'
  <2>1. UNCHANGED <<row, definitionVars, cpc, buffer, held, wpc, wJob, direct, historyVars>>
    BY <1>4 DEF CalculateNextRun
  <2>2. \A i \in Jobs : NotTouched(i)
    BY <2>1 DEF NotTouched, NotGiven, InBuffer, Taken
  <2>3. QED
    BY <1>0, <2>1, <2>2, NotTouchedKeeps
<1>5. ASSUME SchedulesChecked(p), UNCHANGED jobVars PROVE \A i \in Jobs : JobOutcome(i)'
  <2>1. UNCHANGED <<row, definitionVars, cpc, buffer, held, wpc, wJob, direct, historyVars>>
    BY <1>5 DEF SchedulesChecked
  <2>2. \A i \in Jobs : NotTouched(i)
    BY <2>1 DEF NotTouched, NotGiven, InBuffer, Taken
  <2>3. QED
    BY <1>0, <2>1, <2>2, NotTouchedKeeps
<1>6. ASSUME PeekReturns(p), UNCHANGED jobVars PROVE \A i \in Jobs : JobOutcome(i)'
  <2>1. UNCHANGED <<row, definitionVars, cpc, buffer, held, wpc, wJob, direct, historyVars>>
    BY <1>6 DEF PeekReturns
  <2>2. \A i \in Jobs : NotTouched(i)
    BY <2>1 DEF NotTouched, NotGiven, InBuffer, Taken
  <2>3. QED
    BY <1>0, <2>1, <2>2, NotTouchedKeeps
<1>7. ASSUME CloneSchedule(p), UNCHANGED jobVars PROVE \A i \in Jobs : JobOutcome(i)'
  <2>1. UNCHANGED <<cpc, buffer, wpc, wJob, direct, historyVars>>
    BY <1>7 DEF CloneSchedule
  <2>2. PICK k \in Clones :
          /\ row[k] = "none"
          /\ row' = [row EXCEPT ![k] = "Enqueued"]
          /\ status' = [status EXCEPT ![k] = "Enqueued"]
          /\ hasId' = [hasId EXCEPT ![k] = TRUE]
          /\ held' = [held EXCEPT ![p] = @ \cup {k}]
    BY <1>7 DEF CloneSchedule, Unused, Mark, CloneStatus
  <2>3. Nobody(k) /\ k \notin completed \ unreported /\ k \notin ended \ (direct \cup unreported)
    BY <1>0, <2>2, WaitingIsFresh DEF JobInv
  <2>4. RowInv(k)'
    BY <1>0, <2>1, <2>2, <2>3 DEF RowInv, Calling, InBuffer
  <2>5. ReportInv(k)' /\ EndedInv(k)'
    BY <2>1, <2>3 DEF ReportInv, EndedInv, Nobody
  <2>6. \A i \in Jobs \ {k} : NotTouched(i)
    BY <1>0, <2>1, <2>2 DEF NotTouched, NotGiven, InBuffer, Taken
  <2>7. \A i \in Jobs \ {k} : JobOutcome(i)'
    BY <1>0, <2>1, <2>6, NotTouchedKeeps
  <2>8. QED
    BY <2>4, <2>5, <2>7 DEF JobOutcome
<1>8. ASSUME Peek(p), UNCHANGED jobVars PROVE \A i \in Jobs : JobOutcome(i)'
  <2>1. UNCHANGED <<hasId, cpc, buffer, wpc, wJob, direct, historyVars>>
    BY <1>8 DEF Peek
  <2>2. PICK S \in SUBSET Peekable(p) :
          /\ row' = [j \in Jobs |-> IF j \in S THEN "Enqueuing" ELSE row[j]]
          /\ status' = [j \in Jobs |-> IF j \in S THEN "Enqueuing" ELSE status[j]]
          /\ held' = [held EXCEPT ![p] = @ \cup S]
    BY <1>8 DEF Peek, Chosen, PeekedRow
  <2>3. ASSUME NEW j \in Jobs, j \in S PROVE JobOutcome(j)'
    <3>1. row[j] = "WaitingProcess" /\ status[j] = "WaitingProcess"
      BY <1>0, <2>2, <2>3 DEF Peekable, JobInv
    <3>2. Nobody(j) /\ j \notin completed \ unreported /\ j \notin ended \ (direct \cup unreported)
      BY <3>1, WaitingIsFresh
    <3>3. hasId[j] /\ RowInv(j) /\ ~Calling(j)
      BY <1>0, <3>1 DEF JobOutcome, RowInv
    <3>4. RowInv(j)'
      BY <1>0, <2>1, <2>2, <2>3, <3>2, <3>3 DEF RowInv, Calling, InBuffer
    <3>5. ReportInv(j)' /\ EndedInv(j)'
      BY <2>1, <3>2 DEF ReportInv, EndedInv, Nobody
    <3>6. QED
      BY <3>4, <3>5 DEF JobOutcome
  <2>4. \A i \in Jobs \ S : NotTouched(i)
    BY <1>0, <2>1, <2>2 DEF NotTouched, NotGiven, InBuffer, Taken
  <2>5. \A i \in Jobs \ S : JobOutcome(i)'
    BY <1>0, <2>1, <2>4, NotTouchedKeeps
  <2>6. QED
    BY <2>3, <2>5
<1>9. ASSUME NEW j \in Jobs, MapFails(p, j), UNCHANGED jobVars PROVE \A i \in Jobs : JobOutcome(i)'
  <2>1. UNCHANGED <<definitionVars, cpc, buffer, wpc, wJob, direct, historyVars>> /\ j \in held[p]
    BY <1>9 DEF MapFails
  <2>2. row' = [row EXCEPT ![j] = "Fail"] /\ held' = [held EXCEPT ![p] = @ \ {j}]
    BY <1>9 DEF MapFails
  <2>3. /\ RowInv(j) /\ ReportInv(j) /\ hasId[j]
        /\ j \notin completed \ unreported /\ j \notin ended \ (direct \cup unreported)
    BY <1>0, <2>1, HeldIsOpen DEF JobOutcome, RowInv
  <2>4. RowInv(j)'
    BY <1>0, <2>1, <2>2, <2>3 DEF RowInv, Calling, InBuffer
  <2>5. ReportInv(j)' /\ EndedInv(j)'
    BY <2>1, <2>3 DEF ReportInv, EndedInv
  <2>6. \A i \in Jobs \ {j} : NotTouched(i)
    BY <1>0, <2>1, <2>2 DEF NotTouched, NotGiven, InBuffer, Taken
  <2>7. \A i \in Jobs \ {j} : JobOutcome(i)'
    BY <1>0, <2>1, <2>6, NotTouchedKeeps
  <2>8. QED
    BY <2>4, <2>5, <2>7 DEF JobOutcome
<1>10. ASSUME NEW j \in Jobs, FillBuffer(p, j), UNCHANGED jobVars PROVE \A i \in Jobs : JobOutcome(i)'
  <2>1. /\ UNCHANGED <<row, definitionVars, cpc, wpc, wJob, direct, historyVars>>
        /\ j \in held[p] /\ Buffered(p, j)
    BY <1>10 DEF FillBuffer
  <2>2. held' = [held EXCEPT ![p] = @ \ {j}]
    BY <1>10 DEF FillBuffer, FillLoop
  <2>3. /\ RowInv(j) /\ ReportInv(j) /\ hasId[j]
        /\ j \notin completed \ unreported /\ j \notin ended \ (direct \cup unreported)
    BY <1>0, <2>1, HeldIsOpen DEF JobOutcome, RowInv
  <2>4. /\ \A i \in Jobs : InBuffer(p, i)' <=> InBuffer(p, i) \/ i = j
        /\ \A q \in Pools \ {p} : buffer'[q] = buffer[q]
    <3>1. ~InBuffer(p, j) /\ NoCopies(buffer[p])
      BY <1>0, <2>1 DEF JobInv, Apart, Inv, HandInv
    <3>2. QED
      BY <2>1, <3>1, BufferAppend DEF Inv
  <2>5. RowInv(j)'
    BY <1>0, <2>1, <2>2, <2>3 DEF RowInv, Calling
  <2>6. ReportInv(j)' /\ EndedInv(j)'
    BY <2>1, <2>3 DEF ReportInv, EndedInv
  <2>7. \A i \in Jobs \ {j} : NotTouched(i)
    <3>1. \A i \in Jobs \ {j}, q \in Pools : InBuffer(q, i)' => InBuffer(q, i)
      BY <2>4 DEF InBuffer
    <3>2. \A q \in Pools : held'[q] \subseteq held[q]
      BY <1>0, <2>2
    <3>3. QED
      BY <2>1, <3>1, <3>2 DEF NotTouched, NotGiven, Taken
  <2>8. \A i \in Jobs \ {j} : JobOutcome(i)'
    BY <1>0, <2>1, <2>7, NotTouchedKeeps
  <2>9. QED
    BY <2>5, <2>6, <2>8 DEF JobOutcome
<1>11. ASSUME NEW j \in Jobs, FillFails(p, j), UNCHANGED jobVars PROVE \A i \in Jobs : JobOutcome(i)'
  <2>1. UNCHANGED <<hasId, cpc, buffer, wpc, wJob, direct, historyVars>> /\ j \in held[p]
    BY <1>11 DEF FillFails
  <2>2. /\ row' = [row EXCEPT ![j] = "Fail"] /\ status' = [status EXCEPT ![j] = "Fail"]
        /\ held' = [held EXCEPT ![p] = @ \ {j}]
    BY <1>11 DEF FillFails, Mark, FillLoop
  <2>3. /\ RowInv(j) /\ hasId[j] /\ ~Calling(j) /\ \A w \in Workers : wJob[w] # j
        /\ j \notin completed \ unreported /\ j \notin ended \ (direct \cup unreported)
    BY <1>0, <2>1, HeldIsOpen DEF JobOutcome, RowInv, JobInv, Apart
  <2>4. RowInv(j)'
    BY <1>0, <2>1, <2>2, <2>3 DEF RowInv, Calling, InBuffer
  <2>5. ReportInv(j)' /\ EndedInv(j)'
    BY <2>1, <2>3 DEF ReportInv, EndedInv
  <2>6. \A i \in Jobs \ {j} : NotTouched(i)
    BY <1>0, <2>1, <2>2 DEF NotTouched, NotGiven, InBuffer, Taken
  <2>7. \A i \in Jobs \ {j} : JobOutcome(i)'
    BY <1>0, <2>1, <2>6, NotTouchedKeeps
  <2>8. QED
    BY <2>4, <2>5, <2>7 DEF JobOutcome
<1>12. CASE ManagerDies(p)
  <2>1. /\ UNCHANGED <<row, definitionVars, cpc, buffer, wpc, wJob, direct, completed, ended, unreported>>
        /\ held' = [held EXCEPT ![p] = {}]
    BY <1>12 DEF ManagerDies, ManagerThrows
  <2>2. \A i \in Jobs : NotTouched(i)
    BY <1>0, <2>1 DEF NotTouched, NotGiven, InBuffer, Taken
  <2>3. QED
    BY <1>0, <2>1, <2>2, NotTouchedKeeps
<1>13. ASSUME NEW j \in Jobs, ManagerDrops(p, j) PROVE \A i \in Jobs : JobOutcome(i)'
  <2>1. /\ UNCHANGED <<row, definitionVars, cpc, buffer, wpc, wJob, direct, completed, ended, unreported>>
        /\ held' = [held EXCEPT ![p] = @ \ {j}]
    BY <1>13 DEF ManagerDrops, MapThrows
  <2>2. \A i \in Jobs : NotTouched(i)
    BY <1>0, <2>1 DEF NotTouched, NotGiven, InBuffer, Taken
  <2>3. QED
    BY <1>0, <2>1, <2>2, NotTouchedKeeps
<1>14. QED
  BY <1>1, <1>2, <1>3, <1>4, <1>5, <1>6, <1>7, <1>8, <1>9, <1>10, <1>11, <1>12, <1>13
     DEF ManagerRuns, ManagerStep

(* A worker goes on with its job, or fails to report it.                   *)
LEMMA WorkerGoesOn ==
  ASSUME Inv, NEW w \in Workers, wpc[w] \notin {"off", "idle"},
         wpc[w] # "completed" \/ wJob[w] \in unreported',
         NEW s \in Status \ {"WaitingProcess"}, NEW label,
         status' = [status EXCEPT ![wJob[w]] = s],
         s = "Completed" => status[wJob[w]] = "Completed",
         row' \in {row, Updated(wJob[w])},
         wpc' = [wpc EXCEPT ![w] = label],
         label # "completed", label = "filtered" => s = "Fail",
         unreported \subseteq unreported',
         UNCHANGED <<hasId, cpc, buffer, held, wJob, direct, completed, ended>>
  PROVE  \A i \in Jobs : JobOutcome(i)'
<1> DEFINE j == wJob[w]
<1>0. /\ status \in [Jobs -> Status] /\ row \in [Jobs -> Status \cup {"none", "deleted"}]
      /\ hasId \in [Jobs -> BOOLEAN] /\ wpc \in [Workers -> WorkerPC]
  BY DEF Inv, TypeInv, TypeOK, StorageTypeOK
<1>1. j \in Jobs /\ Begun(j) /\ Apart(j)
  BY WorkerBegan DEF Inv
<1>2. RowInv(j) /\ ReportInv(j) /\ EndedInv(j)
  BY <1>1 DEF Inv, OutcomeInv, JobOutcome
<1>3. /\ row'[j] \in {row[j], status[j]}
      /\ row'[j] # row[j] => hasId[j]
      /\ \A i \in Jobs \ {j} : row'[i] = row[i]
  BY <1>0, <1>1 DEF Updated
<1>4. RowInv(j)'
  <2>1. status'[j] = s /\ (s = "Completed" => j \in completed)
    BY <1>0, <1>1, <1>2 DEF RowInv
  <2>2. row'[j] # "none" => hasId[j]
    BY <1>2, <1>3 DEF RowInv
  <2>3. row'[j] \in {"Completed", "deleted"} => j \in completed
    BY <1>0, <1>1, <1>2, <1>3 DEF RowInv, Status
  <2>4. j \in Singles /\ cpc[j] = "insert" => j \in direct
    BY <1>1, <1>2 DEF RowInv, Begun
  <2>5. QED
    BY <1>2, <2>1, <2>2, <2>3, <2>4 DEF RowInv, Calling, InBuffer
<1>5. ReportInv(j)'
  <2>1. j \notin completed \ unreported'
    BY <1>2 DEF ReportInv, Done
  <2>2. \A v \in Workers : wJob[v] = j => v = w
    BY <1>1 DEF Apart
  <2>3. wpc'[w] = label /\ status'[j] = s
    BY <1>0, <1>1
  <2>4. QED
    BY <2>1, <2>2, <2>3 DEF ReportInv
<1>6. EndedInv(j)'
  BY <1>2 DEF EndedInv, Nobody
<1>7. \A i \in Jobs \ {j} : NotTouched(i)
  <2>1. \A v \in Workers, i \in Jobs \ {j} : wJob'[v] = i => wpc'[v] = wpc[v]
    BY <1>0
  <2>2. QED
    BY <1>0, <1>3, <2>1 DEF NotTouched, NotGiven, InBuffer, Taken
<1>8. \A i \in Jobs \ {j} : JobOutcome(i)'
  BY <1>7, NotTouchedKeeps DEF Inv, OutcomeInv
<1>9. JobOutcome(j)'
  BY <1>4, <1>5, <1>6 DEF JobOutcome, RowInv, ReportInv, EndedInv, Done, Calling, InBuffer, Taken, Nobody
<1>10. QED
  BY <1>8, <1>9 DEF JobOutcome, RowInv, ReportInv, EndedInv, Done, Calling, InBuffer, Taken, Nobody

LEMMA GoDownOutcome ==
  ASSUME Inv, NEW s \in Servers, GoDown(s), unreported \subseteq unreported'
  PROVE  \A i \in Jobs : JobOutcome(i)'
<1>1. UNCHANGED <<row, definitionVars, direct, completed, ended>>
  BY DEF GoDown
<1>2. \A i \in Singles : cpc'[i] \in {cpc[i], "lost"}
  BY DEF GoDown
<1>3. \A q \in Pools : buffer'[q] \in {buffer[q], <<>>} /\ held'[q] \subseteq held[q]
  BY DEF GoDown
<1>4. \A v \in Workers : wJob'[v] = NoJob \/ (wJob'[v] = wJob[v] /\ wpc'[v] = wpc[v])
  BY DEF GoDown
<1>5. \A i \in Jobs : NotGiven(i)
  BY <1>2, <1>3, <1>4, NothingGiven
<1>6. \A i \in Jobs : NotTouched(i)
  BY <1>1, <1>2, <1>4, <1>5, JobsAssumption DEF NotTouched, definitionVars
<1>7. QED
  BY <1>1, <1>6, NotTouchedKeeps DEF Inv, OutcomeInv

LEMMA WorkerOutcome ==
  ASSUME Inv, NEW w \in Workers, WorkerStep(w) \/ UpdateThrows(w) \/ UpdateKills(w)
  PROVE  \A i \in Jobs : JobOutcome(i)'
<1> USE DEF historyVars, workerRest, managerVars, scheduleVars
<1>0. /\ PoolOf[w] \in Pools
      /\ status \in [Jobs -> Status] /\ row \in [Jobs -> Status \cup {"none", "deleted"}]
      /\ hasId \in [Jobs -> BOOLEAN] /\ wpc \in [Workers -> WorkerPC]
      /\ wJob \in [Workers -> Jobs \cup {NoJob}]
      /\ {"Processing", "Completed", "Fail", "Enqueued", "Enqueuing"}
           \subseteq Status \ {"WaitingProcess"}
      /\ \A i \in Jobs : JobInv(i) /\ JobOutcome(i)
  BY JobsAssumption DEF Status, Inv, TypeInv, TypeOK, StorageTypeOK, HandInv, OutcomeInv
<1> DEFINE p == PoolOf[w]
           j == wJob[w]
<1>a. wpc[w] \notin {"off", "idle"} => j \in Jobs /\ Begun(j) /\ Apart(j) /\ status[j] \in Status
  BY WorkerBegan DEF Inv
<1>1. CASE TakeWorkItem(w)
  <2> DEFINE k == Head(buffer[p])
  <2>1. UNCHANGED <<row, status, hasId, cpc, held, direct, historyVars>> /\ buffer[p] # <<>>
    BY <1>1 DEF TakeWorkItem
  <2>2. /\ buffer' = [buffer EXCEPT ![p] = Tail(@)] /\ wJob' = [wJob EXCEPT ![w] = k]
        /\ wpc' = [wpc EXCEPT ![w] = "got"]
    BY <1>1 DEF TakeWorkItem, Goto
  <2>3. /\ k \in Jobs /\ InBuffer(p, k)
        /\ \A i \in Jobs : InBuffer(p, i)' => InBuffer(p, i) /\ i # k
        /\ \A q \in Pools \ {p} : buffer'[q] = buffer[q]
    <3>1. NoCopies(buffer[p])
      BY <1>0 DEF Inv, HandInv
    <3>2. QED
      BY <1>0, <2>1, <2>2, <3>1, BufferTail DEF Inv
  <2>4. ASSUME NEW i \in Jobs, i = k PROVE JobOutcome(i)'
    <3>1. /\ RowInv(i) /\ (hasId[i] \/ i \in direct) /\ \A v \in Workers : wJob[v] # i
          /\ i \notin completed \ unreported /\ i \notin ended \ (direct \cup unreported)
      BY <1>0, <2>3, <2>4, HeldIsOpen DEF JobOutcome, RowInv, JobInv, Apart
    <3>2. \A q \in Pools : InBuffer(q, i)' => InBuffer(q, i)
      BY <2>3, <2>4 DEF InBuffer
    <3>3. RowInv(i)'
      BY <2>1, <3>1, <3>2 DEF RowInv, Calling
    <3>4. ReportInv(i)' /\ EndedInv(i)'
      BY <1>0, <2>1, <2>2, <3>1 DEF ReportInv, EndedInv
    <3>5. QED
      BY <3>3, <3>4 DEF JobOutcome
  <2>5. ASSUME NEW i \in Jobs, i # k PROVE JobOutcome(i)'
    <3>1. \A q \in Pools : InBuffer(q, i)' => InBuffer(q, i)
      BY <2>3 DEF InBuffer
    <3>2. \A v \in Workers : wJob'[v] = i => wJob[v] = i /\ wpc'[v] = wpc[v]
      BY <1>0, <2>2, <2>5
    <3>3. NotTouched(i)
      BY <2>1, <3>1, <3>2 DEF NotTouched, NotGiven, Taken
    <3>4. QED
      BY <1>0, <2>1, <3>3, NotTouchedKeeps
  <2>6. QED
    BY <2>4, <2>5
<1>2. CASE ExecuteStart(w)
  <2>1. wpc[w] \notin {"off", "idle", "completed"}
    BY <1>2 DEF ExecuteStart
  <2>2. /\ status' = [status EXCEPT ![j] = "Processing"] /\ row' = row
        /\ wpc' = [wpc EXCEPT ![w] = "started"]
        /\ UNCHANGED <<hasId, cpc, buffer, held, wJob, direct, historyVars>>
    BY <1>2 DEF ExecuteStart, Write, Mark, Goto
  <2>3. QED
    BY <1>0, <2>1, <2>2, WorkerGoesOn
<1>3. CASE ExecuteFail(w)
  <2>1. wpc[w] \notin {"off", "idle", "completed"}
    BY <1>3 DEF ExecuteFail
  <2>2. /\ status' = [status EXCEPT ![j] = "Fail"] /\ row' = row
        /\ wpc' = [wpc EXCEPT ![w] = "caught"]
        /\ UNCHANGED <<hasId, cpc, buffer, held, wJob, direct, historyVars>>
    BY <1>3 DEF ExecuteFail, Write, Mark, Goto
  <2>3. QED
    BY <1>0, <2>1, <2>2, WorkerGoesOn
<1>4. CASE FailAgain(w)
  <2>1. wpc[w] \notin {"off", "idle", "completed"}
    BY <1>4 DEF FailAgain
  <2>2. /\ status' = [status EXCEPT ![j] = "Fail"] /\ row' = row
        /\ wpc' = [wpc EXCEPT ![w] = "failed"]
        /\ UNCHANGED <<hasId, cpc, buffer, held, wJob, direct, historyVars>>
    BY <1>4 DEF FailAgain, Write, Mark, Goto
  <2>3. QED
    BY <1>0, <2>1, <2>2, WorkerGoesOn
<1>4a. CASE DoFail(w)
  <2>1. wpc[w] \notin {"off", "idle", "completed"}
    BY <1>4a DEF DoFail
  <2>2. /\ status' = [status EXCEPT ![j] = "Fail"] /\ row' = row
        /\ wpc' = [wpc EXCEPT ![w] = "filtered"]
        /\ UNCHANGED <<hasId, cpc, buffer, held, wJob, direct, historyVars>>
    BY <1>4a DEF DoFail, Write, Mark, Goto
  <2>3. QED
    BY <1>0, <2>1, <2>2, WorkerGoesOn
<1>5. CASE EndDelay(w)
  <2>1. wpc[w] \notin {"off", "idle", "completed"}
    BY <1>5 DEF EndDelay
  <2>2. /\ status' = [status EXCEPT ![j] = "Enqueued"] /\ row' = row
        /\ wpc' = [wpc EXCEPT ![w] = "resumed"]
        /\ UNCHANGED <<hasId, cpc, buffer, held, wJob, direct, historyVars>>
    BY <1>5 DEF EndDelay, Write, Mark, Goto
  <2>3. QED
    BY <1>0, <2>1, <2>2, WorkerGoesOn
<1>6. CASE UpdateAndRetry(w)
  <2>1. wpc[w] \notin {"off", "idle", "completed"}
    BY <1>6 DEF UpdateAndRetry
  <2>2. /\ status' = [status EXCEPT ![j] = "Enqueuing"] /\ row' = Updated(j)
        /\ wpc' = [wpc EXCEPT ![w] = "waiting"]
        /\ UNCHANGED <<hasId, cpc, buffer, held, wJob, direct, historyVars>>
    BY <1>6 DEF UpdateAndRetry, Write, Mark, Goto
  <2>3. QED
    BY <1>0, <2>1, <2>2, WorkerGoesOn
<1>7. CASE UpdateStatus(w)
  <2>1. wpc[w] \in {"started", "caught", "failed", "waiting", "resumed"}
    BY <1>7 DEF UpdateStatus, Reported
  <2>2. /\ status' = status /\ row' = Updated(j)
        /\ wpc' = [wpc EXCEPT ![w] = Reported[wpc[w]]]
        /\ UNCHANGED <<hasId, cpc, buffer, held, wJob, direct, historyVars>>
    BY <1>7 DEF UpdateStatus, Goto
  <2>3. Reported[wpc[w]] \notin {"completed", "filtered"}
    BY <2>1 DEF Reported
  <2>4. status' = [status EXCEPT ![j] = status[j]] /\ status[j] \in Status \ {"WaitingProcess"}
    BY <1>0, <1>a, <2>1, <2>2 DEF Begun
  <2>5. QED
    BY <2>1, <2>2, <2>3, <2>4, WorkerGoesOn
<1>8. CASE UpdateThrows(w)
  <2>1. /\ wpc[w] \notin {"off", "idle"} /\ unreported' = unreported \cup {j} /\ row' = row
        /\ UNCHANGED <<hasId, cpc, buffer, held, wJob, direct, completed, ended>>
    BY <1>8 DEF UpdateThrows
  <2>2. CASE wpc' = [wpc EXCEPT ![w] = "thrown"] /\ UNCHANGED status
    <3>1. status' = [status EXCEPT ![j] = status[j]] /\ status[j] \in Status \ {"WaitingProcess"}
      BY <1>0, <1>a, <2>1, <2>2 DEF Begun
    <3>2. QED
      BY <2>1, <2>2, <3>1, WorkerGoesOn
  <2>3. CASE wpc' = [wpc EXCEPT ![w] = "caught"] /\ status' = [status EXCEPT ![j] = "Fail"]
    BY <1>0, <2>1, <2>3, WorkerGoesOn
  <2>4. QED
    BY <1>8, <2>2, <2>3 DEF UpdateThrows, Write, Mark, Goto
<1>9. CASE ExecuteComplete(w)
  <2>1. /\ wpc[w] = "run" /\ completed' = completed \cup {j}
        /\ status' = [status EXCEPT ![j] = "Completed"] /\ wpc' = [wpc EXCEPT ![w] = "completed"]
        /\ UNCHANGED <<row, hasId, cpc, buffer, held, wJob, direct, ended, unreported>>
    BY <1>9 DEF ExecuteComplete, Write, Mark, Goto
  <2>2. ASSUME NEW i \in Jobs, i = j PROVE JobOutcome(i)'
    <3>1. /\ RowInv(i) /\ EndedInv(i) /\ Begun(i) /\ Apart(i) /\ ~Nobody(i)
          /\ \A v \in Workers : wJob[v] = i => v = w
      BY <1>0, <1>a, <2>1, <2>2 DEF JobOutcome, Apart, Nobody
    <3>2. status'[i] = "Completed" /\ wpc'[w] = "completed"
      BY <1>0, <2>1, <2>2
    <3>3. RowInv(i)'
      BY <2>1, <2>2, <3>1, <3>2 DEF RowInv, Calling, InBuffer, Begun
    <3>4. Done(i)'
      BY <2>1, <2>2, <3>1, <3>2 DEF Done, Apart, InBuffer, Taken
    <3>5. ReportInv(i)'
      BY <2>1, <3>1, <3>2, <3>4 DEF ReportInv
    <3>6. EndedInv(i)'
      BY <2>1, <3>1 DEF EndedInv
    <3>7. QED
      BY <3>3, <3>5, <3>6 DEF JobOutcome
  <2>3. ASSUME NEW i \in Jobs, i # j PROVE JobOutcome(i)'
    <3>1. \A v \in Workers : wJob'[v] = i => wpc'[v] = wpc[v]
      BY <1>0, <2>1, <2>3
    <3>2. NotTouched(i)
      BY <1>0, <2>1, <2>3, <3>1 DEF NotTouched, NotGiven, InBuffer, Taken
    <3>3. QED
      BY <1>0, <2>1, <3>2, NotTouchedKeeps
  <2>4. QED
    BY <2>2, <2>3
<1>10. CASE Requeue(w)
  <2>1. /\ UNCHANGED <<row, status, hasId, cpc, held, direct, historyVars>>
        /\ wpc[w] = "requeue" /\ Buffered(p, j)
        /\ wJob' = [wJob EXCEPT ![w] = NoJob] /\ wpc' = [wpc EXCEPT ![w] = "idle"]
    BY <1>10 DEF Requeue, Free, Goto
  <2>2. /\ \A i \in Jobs : InBuffer(p, i)' <=> InBuffer(p, i) \/ i = j
        /\ \A q \in Pools \ {p} : buffer'[q] = buffer[q]
    <3>1. j \in Jobs /\ ~InBuffer(p, j) /\ NoCopies(buffer[p])
      BY <1>0, <1>a, <2>1 DEF Apart, Inv, HandInv
    <3>2. QED
      BY <1>0, <2>1, <3>1, BufferAppend DEF Inv
  <2>3. ASSUME NEW i \in Jobs, i = j PROVE JobOutcome(i)'
    <3>1. /\ RowInv(i) /\ ReportInv(i) /\ EndedInv(i) /\ ~Nobody(i)
          /\ (hasId[i] \/ i \in direct) /\ i \notin completed \ unreported
          /\ \A v \in Workers : wJob'[v] # i
      <4>1. \A v \in Workers : wJob[v] = i => v = w
        BY <1>a, <2>1, <2>3 DEF Apart
      <4>2. \A v \in Workers : wJob'[v] # i
        BY <1>0, <2>1, <4>1, JobsAssumption
      <4>3. QED
        BY <1>0, <2>1, <2>3, <4>2 DEF JobOutcome, RowInv, ReportInv, Done, Nobody
    <3>2. RowInv(i)'
      BY <2>1, <3>1 DEF RowInv, Calling
    <3>3. ReportInv(i)' /\ EndedInv(i)'
      BY <2>1, <3>1 DEF ReportInv, EndedInv
    <3>4. QED
      BY <3>2, <3>3 DEF JobOutcome
  <2>4. ASSUME NEW i \in Jobs, i # j PROVE JobOutcome(i)'
    <3>1. \A q \in Pools : InBuffer(q, i)' => InBuffer(q, i)
      BY <2>2, <2>4 DEF InBuffer
    <3>2. \A v \in Workers : wJob'[v] = i => wJob[v] = i /\ wpc'[v] = wpc[v]
      BY <1>0, <2>1, JobsAssumption
    <3>3. NotTouched(i)
      BY <2>1, <3>1, <3>2 DEF NotTouched, NotGiven, Taken
    <3>4. QED
      BY <1>0, <2>1, <3>3, NotTouchedKeeps
  <2>5. QED
    BY <2>3, <2>4
<1>11. CASE LastUpdate(w)
  <2>1. /\ wpc[w] \in {"completed", "filtered"} /\ row' = Updated(j) /\ ended' = ended \cup {j}
        /\ UNCHANGED <<status, hasId, cpc, buffer, held, direct, completed, unreported>>
        /\ wJob' = [wJob EXCEPT ![w] = NoJob] /\ wpc' = [wpc EXCEPT ![w] = "idle"]
    BY <1>11 DEF LastUpdate, Free, Goto
  <2>2. /\ row'[j] = IF hasId[j] /\ row[j] # "deleted" THEN status[j] ELSE row[j]
        /\ \A i \in Jobs \ {j} : row'[i] = row[i]
    BY <1>0, <1>a, <2>1 DEF Updated
  <2>3. ASSUME NEW i \in Jobs, i = j PROVE JobOutcome(i)'
    <3>1. RowInv(i) /\ ReportInv(i) /\ Begun(i) /\ Apart(i)
      BY <1>0, <1>a, <2>1, <2>3 DEF JobOutcome
    <3>2. \A v \in Workers : wJob'[v] # i
      BY <1>0, <2>1, <2>3, <3>1, JobsAssumption DEF Apart
    <3>3. hasId[i] \/ i \in direct
      BY <2>3, <3>1 DEF RowInv
    <3>4. RowInv(i)'
      <4>1. row'[i] # "none" => hasId[i]
        BY <2>2, <2>3, <3>1 DEF RowInv
      <4>2. row'[i] \in {"Completed", "deleted"} => i \in completed
        BY <1>0, <2>2, <2>3, <3>1 DEF RowInv, Status
      <4>3. QED
        BY <2>1, <3>1, <3>2, <4>1, <4>2 DEF RowInv, Calling, InBuffer
    <3>5. Nobody(i)'
      BY <2>1, <2>3, <3>1, <3>2 DEF Nobody, Apart, InBuffer, Taken
    <3>6. ReportInv(i)'
      BY <2>1, <3>1, <3>2, <3>5 DEF ReportInv, Done, Nobody
    <3>7. ASSUME i \notin direct \cup unreported
          PROVE  row'[i] \in (IF i \in completed THEN {"Completed", "deleted"} ELSE {"Fail"})
      <4>1. hasId[i] /\ row'[i] = IF row[i] # "deleted" THEN status[i] ELSE "deleted"
        BY <2>2, <2>3, <3>3, <3>7
      <4>2. CASE wpc[w] = "completed"
        BY <2>3, <3>1, <3>7, <4>1, <4>2 DEF ReportInv, RowInv
      <4>3. CASE wpc[w] = "filtered"
        <5>1. i \notin completed /\ status[i] = "Fail"
          BY <2>3, <3>1, <3>7, <4>3 DEF ReportInv, Done
        <5>2. QED
          BY <3>1, <4>1, <5>1 DEF RowInv
      <4>4. QED
        BY <2>1, <4>2, <4>3
    <3>8. EndedInv(i)'
      BY <2>1, <3>1, <3>5, <3>7 DEF EndedInv, Begun
    <3>9. QED
      BY <3>4, <3>6, <3>8 DEF JobOutcome
  <2>4. ASSUME NEW i \in Jobs, i # j PROVE JobOutcome(i)'
    <3>1. \A v \in Workers : wJob'[v] = i => wJob[v] = i /\ wpc'[v] = wpc[v]
      BY <1>0, <2>1, JobsAssumption
    <3>2. NotTouched(i)
      BY <2>1, <2>2, <2>4, <3>1 DEF NotTouched, NotGiven, InBuffer, Taken
    <3>3. QED
      BY <1>0, <2>1, <3>2, NotTouchedKeeps
  <2>5. QED
    BY <2>3, <2>4
<1>12. CASE UpdateKills(w)
  <2>1. ServerOf[PoolOf[w]] \in Servers /\ GoDown(ServerOf[PoolOf[w]])
    BY <1>0, <1>12, SqlAssumption DEF UpdateKills
  <2>2. unreported \subseteq unreported'
    BY <1>12 DEF UpdateKills
  <2>3. QED
    BY <2>1, <2>2, GoDownOutcome
<1>13. QED
  BY <1>1, <1>2, <1>3, <1>4, <1>4a, <1>5, <1>6, <1>7, <1>8, <1>9, <1>10, <1>11, <1>12
     DEF WorkerStep

LEMMA ServerOutcome ==
  ASSUME Inv, (\E s \in Servers : Crash(s) \/ Restart(s)) \/ Clean
  PROVE  \A i \in Jobs : JobOutcome(i)'
<1>0. \A i \in Jobs : JobOutcome(i)
  BY DEF Inv, OutcomeInv
<1>1. ASSUME NEW s \in Servers, Crash(s) PROVE \A i \in Jobs : JobOutcome(i)'
  BY <1>1, GoDownOutcome DEF Crash
<1>2. ASSUME NEW s \in Servers, Restart(s) PROVE \A i \in Jobs : JobOutcome(i)'
  <2>1. UNCHANGED <<row, definitionVars, cpc, buffer, held, wJob, direct, historyVars>>
    BY <1>2 DEF Restart
  <2>2. \A w \in Workers, i \in Jobs : wJob'[w] = i => wpc'[w] = wpc[w]
    BY <1>2, JobsAssumption DEF Restart, Inv, OutcomeInv, DownInv
  <2>3. \A i \in Jobs : NotTouched(i)
    BY <2>1, <2>2 DEF NotTouched, NotGiven, InBuffer, Taken, definitionVars, historyVars
  <2>4. QED
    BY <1>0, <2>1, <2>3, NotTouchedKeeps DEF historyVars
<1>3. CASE Clean
  <2>1. UNCHANGED <<definitionVars, cpc, buffer, held, wpc, wJob, direct, historyVars>>
    BY <1>3 DEF Clean, managerVars, workerVars
  <2>2. \A i \in Jobs : row'[i] = row[i] \/ (row[i] = "Completed" /\ row'[i] = "deleted")
    BY <1>3 DEF Clean
  <2>3. ASSUME NEW i \in Jobs, row[i] = "Completed", row'[i] = "deleted" PROVE JobOutcome(i)'
    <3>1. RowInv(i) /\ ReportInv(i) /\ EndedInv(i) /\ i \in completed /\ hasId[i]
      BY <1>0, <2>3 DEF JobOutcome, RowInv
    <3>2. RowInv(i)'
      BY <2>1, <2>3, <3>1 DEF RowInv, Calling, InBuffer, definitionVars, historyVars
    <3>3. ReportInv(i)'
      BY <2>1, <3>1 DEF ReportInv, Done, InBuffer, Taken, definitionVars, historyVars
    <3>4. EndedInv(i)'
      BY <2>1, <2>3, <3>1 DEF EndedInv, Nobody, InBuffer, Taken, definitionVars, historyVars
    <3>5. QED
      BY <3>2, <3>3, <3>4 DEF JobOutcome
  <2>4. ASSUME NEW i \in Jobs, row'[i] = row[i] PROVE JobOutcome(i)'
    <3>1. NotTouched(i)
      BY <2>1, <2>4 DEF NotTouched, NotGiven, InBuffer, Taken, definitionVars, historyVars
    <3>2. QED
      BY <1>0, <2>1, <3>1, NotTouchedKeeps DEF historyVars
  <2>5. QED
    BY <2>2, <2>3, <2>4
<1>4. QED
  BY <1>1, <1>2, <1>3

(* A server that is down has no worker with a job.                         *)
LEMMA NextDown ==
  ASSUME TypeInv, DownInv, [Next]_vars
  PROVE  DownInv'
<1> USE DEF jobVars, workerVars, historyVars, callerRest, managerRest, workerRest, managerVars,
            scheduleVars, definitionVars
<1>0. /\ wpc \in [Workers -> WorkerPC] /\ wJob \in [Workers -> Jobs \cup {NoJob}]
      /\ up \subseteq Servers
      /\ \A w \in Workers : PoolOf[w] \in Pools /\ ServerOf[PoolOf[w]] \in Servers
  BY SqlAssumption, JobsAssumption DEF TypeInv, TypeOK, StorageTypeOK
<1>1. ASSUME up' = up, wpc' = wpc, wJob' = wJob PROVE DownInv'
  BY <1>1 DEF DownInv
<1>2. ASSUME NEW s \in Servers, GoDown(s) PROVE DownInv'
  BY <1>0, <1>2 DEF GoDown, DownInv
<1>3. ASSUME NEW s \in Servers, Restart(s) PROVE DownInv'
  BY <1>0, <1>3 DEF Restart, DownInv
<1>4. ASSUME NEW w \in Workers, WorkerStep(w) \/ UpdateThrows(w) PROVE DownInv'
  <2>1. /\ up' = up /\ wpc[w] # "off"
        /\ \A v \in Workers \ {w} : wpc'[v] = wpc[v] /\ wJob'[v] = wJob[v]
    <3>1. CASE TakeWorkItem(w) \/ ExecuteStart(w) \/ ExecuteComplete(w) \/ ExecuteFail(w)
      BY <1>0, <3>1 DEF TakeWorkItem, ExecuteStart, ExecuteComplete, ExecuteFail, Write, Goto
    <3>2. CASE FailAgain(w) \/ DoFail(w) \/ EndDelay(w) \/ Requeue(w) \/ UpdateAndRetry(w)
      BY <1>0, <3>2 DEF FailAgain, DoFail, EndDelay, Requeue, UpdateAndRetry, Write, Goto, Free
    <3>3. CASE UpdateStatus(w) \/ LastUpdate(w) \/ UpdateThrows(w)
      BY <1>0, <3>3 DEF UpdateStatus, LastUpdate, UpdateThrows, Reported, Write, Goto, Free
    <3>4. QED
      BY <1>4, <3>1, <3>2, <3>3 DEF WorkerStep
  <2>2. QED
    BY <2>1 DEF DownInv
<1>5. ASSUME NEW j \in Singles,
             (SetCheck(j) /\ UNCHANGED jobVars) \/ CallerRuns(j) \/ CallerThrows(j)
      PROVE  DownInv'
  BY <1>1, <1>5 DEF SetCheck, CallerRuns, SetStep, SetTake, SetMark, SetInsert, CallerThrows, SetThrows
<1>6. ASSUME NEW p \in Pools, ManagerRuns(p) \/ ManagerDies(p) \/ \E j \in Jobs : ManagerDrops(p, j)
      PROVE  DownInv'
  <2>1. CASE \/ PeekCall(p) \/ CheckSchedules(p) \/ CheckSchedule(p)
             \/ CloneSchedule(p) \/ CalculateNextRun(p) \/ SchedulesChecked(p)
    <3>1. up' = up
      BY <2>1 DEF PeekCall, CheckSchedules, CheckSchedule, CloneSchedule, CalculateNextRun, SchedulesChecked
    <3>2. QED
      BY <1>1, <1>6, <3>1 DEF ManagerRuns, ManagerDies, ManagerDrops
  <2>2. CASE \/ Peek(p) \/ PeekReturns(p)
             \/ \E j \in Jobs : MapFails(p, j) \/ FillBuffer(p, j) \/ FillFails(p, j)
    <3>1. up' = up
      BY <2>2 DEF Peek, PeekReturns, MapFails, FillBuffer, FillFails
    <3>2. QED
      BY <1>1, <1>6, <3>1 DEF ManagerRuns, ManagerDies, ManagerDrops
  <2>3. CASE ManagerDies(p) \/ \E j \in Jobs : ManagerDrops(p, j)
    BY <1>1, <2>3 DEF ManagerDies, ManagerDrops, ManagerThrows, MapThrows
  <2>4. QED
    BY <1>6, <2>1, <2>2, <2>3 DEF ManagerRuns, ManagerStep
<1>7. CASE \/ \E d \in Delayed \cup Schedules : TimePasses(d)
           \/ \E x \in Schedules : SetSchedule(x) /\ UNCHANGED jobVars
           \/ Clean \/ UNCHANGED vars
  BY <1>1, <1>7 DEF TimePasses, Occur, SetSchedule, Clean, vars, storageVars
<1>8. ASSUME NEW w \in Workers, UpdateKills(w) PROVE DownInv'
  BY <1>0, <1>2, <1>8 DEF UpdateKills
<1>9. ASSUME NEW s \in Servers, Crash(s) PROVE DownInv'
  BY <1>2, <1>9 DEF Crash
<1>10. QED
  BY <1>3, <1>4, <1>5, <1>6, <1>7, <1>8, <1>9 DEF Next

LEMMA NextOutcome == Inv /\ [Next]_vars => OutcomeInv'
<1> SUFFICES ASSUME Inv, [Next]_vars PROVE OutcomeInv'
  OBVIOUS
<1>1. DownInv'
  BY NextDown DEF Inv, OutcomeInv
<1>2. CASE UNCHANGED vars
  <2>1. UNCHANGED <<row, definitionVars, cpc, buffer, held, wpc, wJob, direct, historyVars>>
    BY <1>2 DEF vars, storageVars, managerVars, workerVars
  <2>2. \A i \in Jobs : NotTouched(i)
    BY <2>1 DEF NotTouched, NotGiven, InBuffer, Taken, definitionVars, historyVars
  <2>3. \A i \in Jobs : JobOutcome(i)'
    BY <2>1, <2>2, NotTouchedKeeps DEF Inv, OutcomeInv, historyVars
  <2>4. QED
    BY <1>1, <2>3 DEF OutcomeInv
<1>3. CASE Next
  <2>1. \A i \in Jobs : JobOutcome(i)'
    BY <1>3, CallerOutcome, ManagerOutcome, WorkerOutcome, ServerOutcome DEF Next
  <2>2. QED
    BY <1>1, <2>1 DEF OutcomeInv
<1>4. QED
  BY <1>2, <1>3

LEMMA SqlInvariant == Spec => []Inv
<1>1. Init => Inv
  BY InitTyped, InitHands, InitOutcome DEF Inv
<1>2. Inv /\ [Next]_vars => Inv'
  BY NextTyped, NextHands, NextOutcome DEF Inv
<1>3. QED
  BY <1>1, <1>2, PTL DEF Spec

-----------------------------------------------------------------------------

(* A job whose Execute has returned runs again only when a command about   *)
(* it has thrown, whatever goes down and is started again.                 *)
THEOREM CompletedIsNotRunAgain == Spec => []NotRunAgain
<1>1. QED
  BY SqlInvariant, OutcomeInvImplies, PTL

(* What becomes of the row of a job that is over.                          *)
THEOREM OutcomesAreRecorded == Spec => []OutcomeRecorded
<1>1. QED
  BY SqlInvariant, OutcomeInvImplies, PTL
=============================================================================
