--------------------------- MODULE WorkPoolProofs ---------------------------
(***************************************************************************)
(* Proofs about WorkPool, for every number of items, workers and threads,  *)
(* every buffer length and every retry count.                              *)
(***************************************************************************)
EXTENDS WorkPool, FiniteSetTheorems, TLAPS

Holding == {"got", "run", "delay"}

(* A worker's local work item is set exactly while it has one to deal with *)
HoldOK == \A w \in Workers : wpc[w] \in Holding <=> wItem[w] # NoItem

(* While Control or Manager deals with a worker, target names it; a worker *)
(* yet to be started is the target of one of them only.                    *)
Aiming == {"start", "dispose", "dwait", "dmark", "dterm", "remove", "wait", "mark"}
TargetOK ==
  /\ \A t \in Threads : pc[t] \in Aiming => target[t] \in Workers
  /\ \A t \in Threads : pc[t] = "start" => wpc[target[t]] = "created"
  /\ \A s, t \in Threads :
       pc[s] = "start" /\ pc[t] = "start" /\ target[s] = target[t] => s = t

TypeInv == TypeOK /\ HoldOK /\ TargetOK

LEMMA TargetKept ==
  ASSUME TargetOK, pc' = pc, target' = target,
         \A w \in Workers : wpc[w] = "created" => wpc'[w] = "created"
  PROVE  TargetOK'
  BY DEF TargetOK, Aiming

LEMMA InitTypeInv == Init => TypeInv
<1> SUFFICES ASSUME Init PROVE TypeInv
  OBVIOUS
<1>1. WorkerTypeOK
  BY DEF Init, WorkerInit, WorkerTypeOK, PoolStatus, WorkerStatus, Outcome,
         WorkerPC
<1>2. TypeOK
  <2>1. /\ stored \in Seq(Items)
        /\ epc \in [Items -> EnqueuePC]
        /\ workers \subseteq Workers
        /\ disposing \subseteq Workers
        /\ toStop \subseteq Workers
        /\ peeked \in Seq(Items)
    BY DEF Init, EnqueuePC
  <2>5. registered \in BOOLEAN
    BY DEF Init
  <2>2. /\ pc \in [Threads -> ControlPC \cup ManagerPC \cup FleetPC]
        /\ pc["Control"] \notin ManagerPC
        /\ pc["Manager"] \notin ControlPC
        /\ target \in [Threads -> Workers \cup {NoWorker}]
    BY DEF Init, ControlPC, ManagerPC, FleetPC, Threads
  <2>3. room \in Nat /\ starts \in Nat /\ stops \in Nat
    BY DEF Init
  <2>4. QED
    BY <1>1, <2>1, <2>2, <2>3, <2>5 DEF TypeOK
<1>3. HoldOK
  BY DEF Init, WorkerInit, HoldOK, Holding
<1>4. TargetOK
  BY DEF Init, TargetOK, Aiming, Threads
<1>5. QED
  BY <1>2, <1>3, <1>4 DEF TypeInv

LEMMA EnqueueTypeInv ==
  ASSUME TypeInv, NEW i \in Items, EnqueueCheck(i) \/ EnqueueStep(i)
  PROVE  TypeInv'
<1> USE DEF TypeInv, TypeOK, HoldOK, TargetOK, WorkerTypeOK, itemVars,
            threadVars, fleetVars, managerVars, countVars, At, EnqueuePC
<1>1. CASE EnqueueCheck(i)
  BY <1>1 DEF EnqueueCheck
<1>2. CASE EnqueueDirect(i)
  <2>1. CASE At(i, "rejected") /\ UNCHANGED buffer
    BY <1>2, <2>1 DEF EnqueueDirect
  <2>2. CASE At(i, "done") /\ buffer' = Append(buffer, i)
    BY <1>2, <2>2 DEF EnqueueDirect
  <2>3. QED
    BY <1>2, <2>1, <2>2 DEF EnqueueDirect
<1>3. CASE EnqueueStore(i)
  BY <1>3 DEF EnqueueStore
<1>4. QED
  BY <1>1, <1>2, <1>3 DEF EnqueueStep

LEMMA WorkerTypeInv ==
  ASSUME TypeInv, NEW w \in Workers, WorkerRuns(w)
  PROVE  TypeInv'
<1> USE WorkerAssumption
    DEF TypeInv, TypeOK, HoldOK, TargetOK, Holding, WorkerTypeOK, itemVars,
        threadVars, enqueueVars, fleetVars, managerVars, countVars, poolVars, Goto,
        WorkerStatus, WorkerPC, WorkerRuns
<1>1. CASE LookForWork(w)
  BY <1>1 DEF LookForWork
<1>2. CASE Exit(w)
  BY <1>2 DEF Exit
<1>3. CASE TakeWorkItem(w)
  BY <1>3 DEF TakeWorkItem, Dequeued
<1>4. CASE NothingToTake(w)
  BY <1>4 DEF NothingToTake
<1>5. CASE WaitOrGiveUp(w)
  BY <1>5 DEF WaitOrGiveUp
<1>6. CASE ExecuteStart(w)
  BY <1>6 DEF ExecuteStart
<1>7. CASE ExecuteComplete(w)
  BY <1>7 DEF ExecuteComplete, Outcome
<1>8. CASE FinallyTest(w)
  BY <1>8 DEF FinallyTest
<1>9. CASE FinallySetIdle(w)
  BY <1>9 DEF FinallySetIdle
<1>10. CASE ExecuteFail(w)
  <2>1. /\ wStatus' = [wStatus EXCEPT ![w] = StatusAfterFailure]
        /\ \/ outcome' = outcome
           \/ outcome' = [outcome EXCEPT ![wItem[w]] = "failed"]
    BY <1>10 DEF ExecuteFail
  <2>2. \/ wpc' = [wpc EXCEPT ![w] = "delay"] /\ wItem' = wItem
        \/ /\ wpc' = [wpc EXCEPT ![w] = "loop"]
           /\ wItem' = [wItem EXCEPT ![w] = NoItem]
    BY <1>10 DEF ExecuteFail
  <2>3. wpc[w] = "run" /\ pc' = pc /\ target' = target
    BY <1>10 DEF ExecuteFail
  <2>7. /\ wStatus \in [Workers -> WorkerStatus] /\ outcome \in [Items -> Outcome]
        /\ wItem \in [Workers -> Items \cup {NoItem}] /\ wpc \in [Workers -> WorkerPC]
    OBVIOUS
  <2>8. wStatus' \in [Workers -> WorkerStatus]
    BY <2>1 DEF StatusAfterFailure
  <2>9. outcome' \in [Items -> Outcome]
    <3> HIDE DEF TypeInv
    <3>1. QED
      BY <2>1, <2>7 DEF Outcome
  <2>10. wItem' \in [Workers -> Items \cup {NoItem}] /\ wpc' \in [Workers -> WorkerPC]
    <3> HIDE DEF TypeInv
    <3>1. QED
      BY <2>2, <2>7
  <2>4. HoldOK'
    BY <2>2, <2>3
  <2>5. TargetOK'
    <3>1. \A v \in Workers : wpc[v] = "created" => wpc'[v] = "created"
      BY <2>2, <2>3
    <3>2. QED
      BY <2>3, <3>1, TargetKept
  <2>6. TypeOK'
    BY <1>10, <2>8, <2>9, <2>10 DEF ExecuteFail
  <2>11. QED
    BY <2>4, <2>5, <2>6
<1>11. CASE Requeue(w)
  BY <1>11 DEF Requeue
<1>12. QED
  BY <1>1, <1>2, <1>3, <1>4, <1>5, <1>6, <1>7, <1>8, <1>9, <1>10, <1>11
     DEF WorkerStep

LEMMA FleetTypeInv ==
  ASSUME TypeInv, NEW t \in Threads, CheckWorkers(t)
  PROVE  TypeInv'
<1> USE DEF TypeInv, TypeOK, HoldOK, TargetOK, Aiming, Holding, WorkerTypeOK,
            itemVars, threadVars, enqueueVars, fleetVars, managerVars, countVars, Jump,
            Aim, Goto, Return, Threads, ControlPC, ManagerPC, FleetPC
<1>1. CASE CountWorkers(t)
  BY <1>1 DEF CountWorkers
<1>2. CASE AddWorker(t)
  BY <1>2 DEF AddWorker, WorkerPC
<1>3. CASE StartNewWorker(t)
  BY <1>3 DEF StartNewWorker, StartWorker, WorkerStatus, WorkerPC
<1>4. CASE CheckExcess(t)
  BY <1>4 DEF CheckExcess
<1>5. CASE PickExcess(t)
  BY <1>5 DEF PickExcess, Enabled
<1>6. CASE Dispose(t)
  BY <1>6 DEF Dispose, AskToStop, WorkerStatus
<1>7. CASE DisposeWait(t)
  BY <1>7 DEF DisposeWait
<1>7a. CASE DisposeMark(t)
  BY <1>7a DEF DisposeMark, MarkStopped, WorkerStatus
<1>8. CASE DisposeTerminate(t)
  BY <1>8 DEF DisposeTerminate, MarkTerminated, WorkerStatus
<1>9. CASE RemoveWorker(t)
  BY <1>9 DEF RemoveWorker
<1>10. QED
  BY <1>1, <1>2, <1>3, <1>4, <1>5, <1>6, <1>7, <1>7a, <1>8, <1>9 DEF CheckWorkers

LEMMA ControlTypeInv ==
  ASSUME TypeInv, Start \/ Stop \/ StopRound \/ StopAsk \/ StopWait \/ StopMark \/ StopDecide
  PROVE  TypeInv'
<1> USE DEF TypeInv, TypeOK, HoldOK, TargetOK, Aiming, WorkerTypeOK, itemVars,
            threadVars, enqueueVars, fleetVars, managerVars, countVars, Jump,
            Aim, Threads, ControlPC, ManagerPC, FleetPC
<1>1. CASE Start
  BY <1>1 DEF Start, PoolStatus
<1>2. CASE Stop
  BY <1>2 DEF Stop, PoolStatus
<1>3. CASE StopRound
  BY <1>3 DEF StopRound
<1>4. CASE StopAsk
  BY <1>4 DEF StopAsk, AskToStop, WorkerStatus
<1>5. CASE StopWait
  BY <1>5 DEF StopWait
<1>5a. CASE StopMark
  BY <1>5a DEF StopMark, MarkStopped, WorkerStatus
<1>6. CASE StopDecide
  BY <1>6 DEF StopDecide, PoolStatus
<1>7. QED
  BY <1>1, <1>2, <1>3, <1>4, <1>5, <1>5a, <1>6

LEMMA ManagerTypeInv ==
  ASSUME TypeInv, ManagerWakes \/ ManagerChecks \/ ManagerAsks \/ PeekItem
                  \/ PeekReturns \/ FillBuffer
  PROVE  TypeInv'
<1> USE PoolAssumption
    DEF TypeInv, TypeOK, HoldOK, TargetOK, Aiming, WorkerTypeOK, itemVars,
        threadVars, enqueueVars, fleetVars, managerVars, countVars, Jump,
        Threads, ControlPC, ManagerPC, FleetPC, AfterPeek
<1>1. CASE ManagerWakes
  BY <1>1 DEF ManagerWakes
<1>2. CASE ManagerChecks
  BY <1>2 DEF ManagerChecks
<1>3. CASE ManagerAsks
  BY <1>3 DEF ManagerAsks, Allowance, BufferHasRoom
<1>4. CASE PeekItem
  BY <1>4 DEF PeekItem
<1>5. CASE PeekReturns
  BY <1>5 DEF PeekReturns
<1>6. CASE FillBuffer
  <2>1. peeked' \in Seq(Items) /\ Head(peeked) \in Items
    BY <1>6 DEF FillBuffer
  <2>2. buffer' \in Seq(Items)
    <3>1. buffer' = buffer \/ buffer' = Append(buffer, Head(peeked))
      BY <1>6 DEF FillBuffer
    <3>2. CASE buffer' = buffer
      BY <3>2
    <3>3. CASE buffer' = Append(buffer, Head(peeked))
      BY <2>1, <3>3
    <3>4. QED
      BY <3>1, <3>2, <3>3
  <2>3. outcome' \in [Items -> Outcome]
    BY <1>6 DEF FillBuffer, Outcome
  <2>4. QED
    BY <1>6, <2>1, <2>2, <2>3 DEF FillBuffer
<1>7. QED
  BY <1>1, <1>2, <1>3, <1>4, <1>5, <1>6

LEMMA StutterTypeInv == TypeInv /\ UNCHANGED vars => TypeInv'
  BY DEF TypeInv, TypeOK, HoldOK, TargetOK, WorkerTypeOK, vars, itemVars,
         threadVars, enqueueVars, fleetVars, managerVars, countVars

(* TypeInv, the inductive form of TypeOK, holds in every behaviour: a      *)
(* worker holds an item exactly between its dequeue and its end, and the   *)
(* two threads that manage workers aim at workers that exist.              *)
THEOREM TypeInvariant == Spec => []TypeInv
<1>1. TypeInv /\ [Next]_vars => TypeInv'
  <2> SUFFICES ASSUME TypeInv, [Next]_vars PROVE TypeInv'
    OBVIOUS
  <2>1. CASE \E i \in Items : EnqueueCheck(i) \/ EnqueueStep(i)
    BY <2>1, EnqueueTypeInv
  <2>2. CASE \E w \in Workers : WorkerRuns(w)
    BY <2>2, WorkerTypeInv
  <2>3. CASE Start \/ Stop \/ ControlStep
    BY <2>3, ControlTypeInv, FleetTypeInv DEF ControlStep, Threads
  <2>4. CASE ManagerStep
    BY <2>4, ManagerTypeInv, FleetTypeInv DEF ManagerStep, Threads
  <2>5. CASE UNCHANGED vars
    BY <2>5, StutterTypeInv
  <2>6. QED
    BY <2>1, <2>2, <2>3, <2>4, <2>5 DEF Next
<1>2. QED
  BY InitTypeInv, <1>1, PTL DEF Spec

(* Every variable keeps its type, whatever the threads of the pool do.     *)
THEOREM TypeCorrect == Spec => []TypeOK
  BY TypeInvariant, PTL DEF TypeInv

-----------------------------------------------------------------------------
(* The number of workers.  Control and Manager each test the number before *)
(* they add a worker; what keeps the sum bounded is that a thread past its *)
(* test has room for its own worker, and two such threads for both.        *)

Adding(t) == pc[t] = "add"

FleetInv ==
  /\ Cardinality(workers) <= ThreadCount + 1
  /\ \A t \in Threads : Adding(t) => Cardinality(workers) <= ThreadCount
  /\ (\A t \in Threads : Adding(t)) => Cardinality(workers) + 1 <= ThreadCount

LEMMA WorkersFinite ==
  ASSUME TypeInv
  PROVE  IsFiniteSet(workers) /\ Cardinality(workers) \in Nat
  BY PoolAssumption, FS_Subset, FS_CardinalityType DEF TypeInv, TypeOK

(* A step that adds no worker and lets nobody pass the test.               *)
LEMMA FleetKept ==
  ASSUME TypeInv, TypeInv', FleetInv, workers' \subseteq workers,
         \A t \in Threads : Adding(t)' => Adding(t)
  PROVE  FleetInv'
<1>1. /\ Cardinality(workers') <= Cardinality(workers)
      /\ IsFiniteSet(workers')
  BY WorkersFinite, FS_Subset
<1>2. /\ Cardinality(workers) \in Nat
      /\ Cardinality(workers') \in Nat
  BY <1>1, WorkersFinite, FS_CardinalityType
<1>3. QED
  BY <1>1, <1>2, PoolAssumption DEF FleetInv

LEMMA FleetStep ==
  ASSUME TypeInv, TypeInv', FleetInv, [Next]_vars
  PROVE  FleetInv'
<1> USE DEF Adding
<1>1. CASE \E i \in Items : EnqueueCheck(i) \/ EnqueueStep(i)
  BY <1>1, FleetKept
     DEF EnqueueCheck, EnqueueStep, EnqueueDirect, EnqueueStore, fleetVars
<1>2. CASE \E w \in Workers : WorkerRuns(w)
  BY <1>2, FleetKept DEF WorkerRuns, poolVars, fleetVars
<1>3. CASE UNCHANGED vars
  BY <1>3, FleetKept DEF vars, fleetVars
<1>4. CASE Start \/ Stop \/ StopRound \/ StopAsk \/ StopWait \/ StopMark \/ StopDecide
  BY <1>4, FleetKept
     DEF TypeInv, TypeOK, Start, Stop, StopRound, StopAsk, StopWait, StopMark,
         StopDecide, fleetVars, Jump, Threads
<1>5. CASE ManagerWakes \/ ManagerChecks \/ ManagerAsks \/ PeekItem
           \/ PeekReturns \/ FillBuffer
  BY <1>5, FleetKept
     DEF TypeInv, TypeOK, ManagerWakes, ManagerChecks, ManagerAsks, PeekItem,
         PeekReturns, FillBuffer, AfterPeek, fleetVars, Jump, Threads
<1>6. ASSUME NEW t \in Threads, CheckWorkers(t) PROVE FleetInv'
  <2>1. CASE CountWorkers(t)
    <3>1. CASE TooFew
      BY <2>1, <3>1, WorkersFinite, PoolAssumption
         DEF CountWorkers, TooFew, Jump, FleetInv, fleetVars, TypeInv, TypeOK
    <3>2. CASE ~TooFew
      BY <2>1, <3>2, FleetKept
         DEF CountWorkers, Jump, fleetVars, TypeInv, TypeOK
    <3>3. QED
      BY <3>1, <3>2
  <2>2. CASE AddWorker(t)
    <3>1. PICK w \in Workers : workers' = workers \cup {w}
      BY <2>2 DEF AddWorker
    <3>2. /\ Cardinality(workers) \in Nat
          /\ Cardinality(workers') \in Nat
          /\ Cardinality(workers') <= Cardinality(workers) + 1
      <4>1. /\ IsFiniteSet(workers \cup {w})
            /\ Cardinality(workers \cup {w}) \in
                 {Cardinality(workers), Cardinality(workers) + 1}
        BY WorkersFinite, FS_AddElement
      <4>2. Cardinality(workers \cup {w}) \in Nat
        BY <4>1, FS_CardinalityType
      <4>3. QED
        BY <3>1, <4>1, <4>2, WorkersFinite
    <3>3. pc[t] = "add" /\ pc' = [pc EXCEPT ![t] = "start"]
      BY <2>2 DEF AddWorker, Jump
    <3>4. \A s \in Threads : pc'[s] = "add" => pc[s] = "add" /\ s # t
      BY <3>3 DEF TypeInv, TypeOK
    <3>5. \A s \in Threads :
            pc'[s] = "add" => Cardinality(workers) + 1 <= ThreadCount
      BY <3>3, <3>4 DEF FleetInv, Threads
    <3>6. ~ \A s \in Threads : pc'[s] = "add"
      BY <3>4
    <3>7. QED
      BY <3>2, <3>3, <3>5, <3>6, PoolAssumption DEF FleetInv
  <2>3. CASE StartNewWorker(t) \/ CheckExcess(t) \/ PickExcess(t)
             \/ Dispose(t) \/ DisposeWait(t) \/ DisposeMark(t) \/ DisposeTerminate(t)
             \/ RemoveWorker(t)
    BY <2>3, FleetKept
       DEF TypeInv, TypeOK, StartNewWorker, CheckExcess, PickExcess, Dispose,
           DisposeWait, DisposeMark, DisposeTerminate, RemoveWorker, Return, fleetVars, Jump
  <2>4. QED
    BY <1>6, <2>1, <2>2, <2>3 DEF CheckWorkers
<1>7. QED
  BY <1>1, <1>2, <1>3, <1>4, <1>5, <1>6
     DEF Next, ControlStep, ManagerStep, Threads

(* Whatever the interleaving of StartAsync, the manager thread and the     *)
(* removal of workers, a pool never has more than ThreadCount + 1 workers. *)
THEOREM FleetIsBounded == Spec => []FleetBounded
<1>1. Init => FleetInv
  BY PoolAssumption, FS_EmptySet DEF Init, FleetInv, Adding, Threads
<1>2. TypeInv /\ TypeInv' /\ FleetInv /\ [Next]_vars => FleetInv'
  BY FleetStep
<1>3. FleetInv => FleetBounded
  BY DEF FleetInv, FleetBounded
<1>4. QED
  BY <1>1, <1>2, <1>3, TypeInvariant, PTL DEF Spec

-----------------------------------------------------------------------------
(* The jobs of a pool: where each is, and how often it is tried.           *)

(* Queues.                                                                 *)

LEMMA InAppend ==
  ASSUME NEW S, NEW s \in Seq(S), NEW x \in S, NEW i
  PROVE  InSeq(i, Append(s, x)) <=> InSeq(i, s) \/ i = x
<1>1. /\ DOMAIN s = 1..Len(s)
      /\ DOMAIN Append(s, x) = 1..(Len(s) + 1)
      /\ Len(s) \in Nat
      /\ \A k \in 1..Len(s) : Append(s, x)[k] = s[k]
      /\ Append(s, x)[Len(s) + 1] = x
  OBVIOUS
<1>2. QED
  BY <1>1 DEF InSeq

LEMMA NoCopiesAppend ==
  ASSUME NEW S, NEW s \in Seq(S), NEW x \in S, NoCopies(s), ~InSeq(x, s)
  PROVE  NoCopies(Append(s, x))
<1>1. /\ DOMAIN s = 1..Len(s)
      /\ DOMAIN Append(s, x) = 1..(Len(s) + 1)
      /\ Len(s) \in Nat
      /\ \A k \in 1..Len(s) : Append(s, x)[k] = s[k]
      /\ Append(s, x)[Len(s) + 1] = x
  OBVIOUS
<1>2. QED
  BY <1>1 DEF InSeq, NoCopies

LEMMA HeadIn ==
  ASSUME NEW S, NEW s \in Seq(S), s # <<>>
  PROVE  Head(s) \in S /\ InSeq(Head(s), s)
  BY DEF InSeq

LEMMA InTail ==
  ASSUME NEW S, NEW s \in Seq(S), s # <<>>, NoCopies(s), NEW i
  PROVE  InSeq(i, Tail(s)) <=> InSeq(i, s) /\ i # Head(s)
<1>1. /\ DOMAIN s = 1..Len(s)
      /\ DOMAIN Tail(s) = 1..(Len(s) - 1)
      /\ Len(s) \in Nat \ {0}
      /\ \A k \in 1..(Len(s) - 1) : Tail(s)[k] = s[k + 1]
      /\ Head(s) = s[1]
  OBVIOUS
<1>2. ASSUME InSeq(i, Tail(s)) PROVE InSeq(i, s) /\ i # Head(s)
  <2>1. PICK k \in 1..(Len(s) - 1) : s[k + 1] = i
    BY <1>1, <1>2 DEF InSeq
  <2>2. k + 1 \in 1..Len(s) /\ 1 \in 1..Len(s) /\ k + 1 # 1
    BY <1>1
  <2>3. QED
    BY <1>1, <2>1, <2>2 DEF InSeq, NoCopies
<1>3. ASSUME InSeq(i, s), i # Head(s) PROVE InSeq(i, Tail(s))
  <2>1. PICK k \in 1..Len(s) : s[k] = i
    BY <1>1, <1>3 DEF InSeq
  <2>2. k - 1 \in 1..(Len(s) - 1) /\ Tail(s)[k - 1] = i
    BY <1>1, <1>3, <2>1
  <2>3. QED
    BY <1>1, <2>2 DEF InSeq
<1>4. QED
  BY <1>2, <1>3

LEMMA NoCopiesTail ==
  ASSUME NEW S, NEW s \in Seq(S), s # <<>>, NoCopies(s)
  PROVE  NoCopies(Tail(s))
<1>1. /\ DOMAIN s = 1..Len(s)
      /\ DOMAIN Tail(s) = 1..(Len(s) - 1)
      /\ Len(s) \in Nat \ {0}
      /\ \A k \in 1..(Len(s) - 1) : Tail(s)[k] = s[k + 1]
  OBVIOUS
<1>2. ASSUME NEW j \in 1..(Len(s) - 1), NEW k \in 1..(Len(s) - 1),
             s[j + 1] = s[k + 1]
      PROVE  j = k
  <2>1. j + 1 \in 1..Len(s) /\ k + 1 \in 1..Len(s)
    BY <1>1
  <2>2. j + 1 = k + 1
    BY <1>1, <1>2, <2>1 DEF NoCopies
  <2>3. QED
    BY <2>2
<1>3. QED
  BY <1>1, <1>2 DEF NoCopies

-----------------------------------------------------------------------------
(* Where an item is.  The six predicates are those of Whereabouts.         *)

InStored(i) == InSeq(i, stored)
InPeeked(i) == InSeq(i, peeked)
InBuffer(i) == InSeq(i, buffer)
Held(i) == \E w \in Workers : wItem[w] = i

InOne(i) ==
  /\ NotAccepted(i) \/ InStored(i) \/ InPeeked(i) \/ InBuffer(i) \/ Held(i)
       \/ Ended(i)
  /\ NotAccepted(i) => ~InStored(i) /\ ~InPeeked(i) /\ ~InBuffer(i) /\ ~Held(i)
                         /\ ~Ended(i)
  /\ InStored(i) => ~InPeeked(i) /\ ~InBuffer(i) /\ ~Held(i) /\ ~Ended(i)
  /\ InPeeked(i) => ~InBuffer(i) /\ ~Held(i) /\ ~Ended(i)
  /\ InBuffer(i) => ~Held(i) /\ ~Ended(i)
  /\ Held(i) => ~Ended(i)

OneHolder ==
  \A v, w \in Workers : wItem[v] = wItem[w] /\ wItem[v] # NoItem => v = w

OwnInv ==
  /\ \A i \in Items : InOne(i)
  /\ NoCopies(stored) /\ NoCopies(peeked) /\ NoCopies(buffer)
  /\ OneHolder

LEMMA OwnInvImplies == OwnInv => InOnePlace
<1> SUFFICES ASSUME OwnInv PROVE InOnePlace
  OBVIOUS
<1>1. ASSUME NEW i \in Items PROVE \E p \in Places : Whereabouts(i) = {p}
  <2> InOne(i)
    BY DEF OwnInv
  <2>1. CASE NotAccepted(i)
    <3>1. Whereabouts(i) = {"caller"}
      BY <2>1 DEF Whereabouts, Places, InOne, InStored, InPeeked, InBuffer, Held
    <3>2. QED
      BY <3>1 DEF Places
  <2>2. CASE InStored(i)
    <3>1. Whereabouts(i) = {"stored"}
      BY <2>2 DEF Whereabouts, Places, InOne, InStored, InPeeked, InBuffer, Held
    <3>2. QED
      BY <3>1 DEF Places
  <2>3. CASE InPeeked(i)
    <3>1. Whereabouts(i) = {"peeked"}
      BY <2>3 DEF Whereabouts, Places, InOne, InStored, InPeeked, InBuffer, Held
    <3>2. QED
      BY <3>1 DEF Places
  <2>4. CASE InBuffer(i)
    <3>1. Whereabouts(i) = {"buffer"}
      BY <2>4 DEF Whereabouts, Places, InOne, InStored, InPeeked, InBuffer, Held
    <3>2. QED
      BY <3>1 DEF Places
  <2>5. CASE Held(i)
    <3>1. Whereabouts(i) = {"worker"}
      BY <2>5 DEF Whereabouts, Places, InOne, InStored, InPeeked, InBuffer, Held
    <3>2. QED
      BY <3>1 DEF Places
  <2>6. CASE Ended(i)
    <3>1. Whereabouts(i) = {"ended"}
      BY <2>6 DEF Whereabouts, Places, InOne, InStored, InPeeked, InBuffer, Held
    <3>2. QED
      BY <3>1 DEF Places
  <2>7. QED
    BY <2>1, <2>2, <2>3, <2>4, <2>5, <2>6 DEF InOne
<1>2. QED
  BY <1>1 DEF OwnInv, InOnePlace, OneHolder

LEMMA InitOwnInv == Init => OwnInv
<1> SUFFICES ASSUME Init PROVE OwnInv
  OBVIOUS
<1>1. stored = <<>> /\ peeked = <<>> /\ buffer = <<>>
  BY DEF Init, WorkerInit
<1>2. \A w \in Workers : wItem[w] = NoItem
  BY DEF Init, WorkerInit
<1>3. \A i \in Items : epc[i] = "new" /\ outcome[i] = "none"
  BY DEF Init, WorkerInit
<1>4. QED
  BY <1>1, <1>2, <1>3, WorkerAssumption
     DEF OwnInv, InOne, OneHolder, NotAccepted, InStored, InPeeked, InBuffer,
         Held, Ended, InSeq, NoCopies

(* A step that touches neither the queues nor what workers hold, nor how   *)
(* items end, and in which no call of Enqueue accepts or refuses an item.  *)
LEMMA OwnKept ==
  ASSUME OwnInv,
         UNCHANGED <<stored, peeked, buffer, wItem, outcome>>,
         \A i \in Items : NotAccepted(i)' <=> NotAccepted(i),
         \A i \in Items : epc'[i] = "rejected" <=> epc[i] = "rejected"
  PROVE  OwnInv'
  BY DEF OwnInv, InOne, OneHolder, InStored, InPeeked, InBuffer, Held, Ended

LEMMA EnqueueOwnInv ==
  ASSUME TypeInv, OwnInv, NEW i \in Items, EnqueueCheck(i) \/ EnqueueStep(i)
  PROVE  OwnInv'
<1> /\ buffer \in Seq(Items)
    /\ stored \in Seq(Items)
    /\ epc \in [Items -> EnqueuePC]
  BY DEF TypeInv, TypeOK, WorkerTypeOK
<1>1. CASE EnqueueCheck(i)
  <2>1. \A j \in Items : NotAccepted(j)' <=> NotAccepted(j)
    BY <1>1 DEF EnqueueCheck, At, NotAccepted
  <2>2. \A j \in Items : epc'[j] = "rejected" <=> epc[j] = "rejected"
    BY <1>1 DEF EnqueueCheck, At
  <2>3. QED
    BY <1>1, <2>1, <2>2, OwnKept
       DEF EnqueueCheck, threadVars, itemVars, managerVars
<1>2. CASE EnqueueDirect(i)
  <2>1. /\ NotAccepted(i)
        /\ UNCHANGED <<stored, peeked, wItem, outcome>>
    BY <1>2
       DEF EnqueueDirect, NotAccepted, threadVars, itemVars, managerVars
  <2>2. CASE At(i, "rejected") /\ UNCHANGED buffer
    <3>1. \A j \in Items : /\ NotAccepted(j)' <=> NotAccepted(j) /\ j # i
                           /\ Ended(j)' <=> Ended(j) \/ j = i
      BY <2>1, <2>2 DEF At, NotAccepted, Ended
    <3>2. QED
      BY <2>1, <2>2, <3>1
         DEF OwnInv, InOne, OneHolder, InStored, InPeeked, InBuffer, Held
  <2>3. CASE At(i, "done") /\ buffer' = Append(buffer, i)
    <3>1. \A j \in Items : /\ NotAccepted(j)' <=> NotAccepted(j) /\ j # i
                           /\ Ended(j)' <=> Ended(j)
      BY <2>1, <2>3 DEF At, NotAccepted, Ended
    <3>2. \A j \in Items : InBuffer(j)' <=> InBuffer(j) \/ j = i
      BY <2>3, InAppend DEF InBuffer
    <3>3. NoCopies(buffer')
      BY <2>1, <2>3, NoCopiesAppend DEF OwnInv, InOne, InBuffer
    <3>4. QED
      BY <2>1, <3>1, <3>2, <3>3
         DEF OwnInv, InOne, OneHolder, InStored, InPeeked, Held
  <2>4. QED
    BY <1>2, <2>2, <2>3 DEF EnqueueDirect
<1>3. CASE EnqueueStore(i)
  <2>1. /\ NotAccepted(i)
        /\ UNCHANGED <<buffer, peeked, wItem, outcome>>
        /\ At(i, "done") /\ stored' = Append(stored, i)
    BY <1>3 DEF EnqueueStore, NotAccepted, threadVars, itemVars, managerVars
  <2>2. \A j \in Items : /\ NotAccepted(j)' <=> NotAccepted(j) /\ j # i
                         /\ Ended(j)' <=> Ended(j)
    BY <2>1 DEF At, NotAccepted, Ended
  <2>3. \A j \in Items : InStored(j)' <=> InStored(j) \/ j = i
    BY <2>1, InAppend DEF InStored
  <2>4. NoCopies(stored')
    BY <2>1, NoCopiesAppend DEF OwnInv, InOne, InStored
  <2>5. QED
    BY <2>1, <2>2, <2>3, <2>4
       DEF OwnInv, InOne, OneHolder, InBuffer, InPeeked, Held
<1>4. QED
  BY <1>1, <1>2, <1>3 DEF EnqueueStep

(* What a worker holds, and how items end, when worker w lets go of item i *)
LEMMA LetGo ==
  ASSUME TypeInv, OwnInv, NEW w \in Workers, wItem[w] # NoItem,
         wItem' = [wItem EXCEPT ![w] = NoItem]
  PROVE  /\ \A j \in Items : Held(j)' <=> Held(j) /\ j # wItem[w]
         /\ OneHolder'
         /\ wItem[w] \in Items /\ Held(wItem[w])
<1>1. wItem \in [Workers -> Items \cup {NoItem}]
  BY DEF TypeInv, TypeOK, WorkerTypeOK
<1>2. OneHolder
  BY DEF OwnInv
<1>3. wItem[w] \in Items /\ Held(wItem[w])
  BY <1>1 DEF Held
<1>4. \A v \in Workers : wItem'[v] = IF v = w THEN NoItem ELSE wItem[v]
  BY <1>1
<1>5. OneHolder'
  BY <1>2, <1>4 DEF OneHolder
<1>6. ASSUME NEW j \in Items PROVE Held(j)' <=> Held(j) /\ j # wItem[w]
  BY <1>2, <1>3, <1>4, WorkerAssumption DEF OneHolder, Held
<1>7. QED
  BY <1>3, <1>5, <1>6

LEMMA WorkerOwnInv ==
  ASSUME TypeInv, OwnInv, NEW w \in Workers, WorkerRuns(w)
  PROVE  OwnInv'
<1> /\ buffer \in Seq(Items)
    /\ wItem \in [Workers -> Items \cup {NoItem}]
    /\ outcome \in [Items -> Outcome]
    /\ wpc[w] \in Holding <=> wItem[w] # NoItem
  BY DEF TypeInv, TypeOK, WorkerTypeOK, HoldOK
<1>1. UNCHANGED <<stored, peeked, epc>>
  BY DEF WorkerRuns, poolVars, enqueueVars, managerVars
<1>2. \A j \in Items : /\ NotAccepted(j)' <=> NotAccepted(j)
                       /\ epc'[j] = "rejected" <=> epc[j] = "rejected"
  BY <1>1 DEF NotAccepted
<1>3. CASE UNCHANGED <<buffer, wItem, outcome>>
  BY <1>1, <1>2, <1>3, OwnKept
<1>4. CASE TakeWorkItem(w)
  <2> DEFINE i == Head(buffer)
  <2>1. /\ buffer # <<>>
        /\ buffer' = Tail(buffer)
        /\ wItem' = [wItem EXCEPT ![w] = i]
        /\ outcome' = outcome
        /\ wItem[w] = NoItem
    BY <1>4 DEF TakeWorkItem, Dequeued, itemVars, Holding
  <2>2. i \in Items /\ InBuffer(i) /\ ~Held(i) /\ ~Ended(i)
    BY <2>1, HeadIn DEF OwnInv, InOne, InBuffer
  <2>3. \A j \in Items : InBuffer(j)' <=> InBuffer(j) /\ j # i
    BY <2>1, InTail DEF InBuffer, OwnInv
  <2>4. NoCopies(buffer')
    BY <2>1, NoCopiesTail DEF OwnInv
  <2> HIDE DEF i
  <2>5. \A v \in Workers : wItem'[v] = IF v = w THEN i ELSE wItem[v]
    BY <2>1
  <2>6. \A j \in Items : Held(j)' <=> Held(j) \/ j = i
    BY <2>1, <2>5, WorkerAssumption DEF Held
  <2>7. OneHolder'
    BY <2>2, <2>5 DEF OwnInv, OneHolder, Held
  <2>8. \A j \in Items : Ended(j)' <=> Ended(j)
    BY <1>1, <2>1 DEF Ended
  <2>9. QED
    BY <1>1, <1>2, <2>2, <2>3, <2>4, <2>6, <2>7, <2>8
       DEF OwnInv, InOne, InStored, InPeeked
<1>5. ASSUME wpc[w] = "run", buffer' = buffer,
             wItem' = [wItem EXCEPT ![w] = NoItem],
             NEW o \in Outcome \ {"none"},
             outcome' = [outcome EXCEPT ![wItem[w]] = o]
      PROVE  OwnInv'
  <2>1. /\ \A j \in Items : Held(j)' <=> Held(j) /\ j # wItem[w]
        /\ OneHolder'
        /\ wItem[w] \in Items /\ Held(wItem[w])
    BY <1>5, LetGo DEF Holding
  <2>2. \A j \in Items : Ended(j)' <=> Ended(j) \/ j = wItem[w]
    BY <1>1, <1>5, <2>1 DEF Ended
  <2>3. QED
    BY <1>1, <1>2, <1>5, <2>1, <2>2
       DEF OwnInv, InOne, InStored, InPeeked, InBuffer
<1>6. CASE ExecuteComplete(w)
  BY <1>5, <1>6 DEF ExecuteComplete, Outcome
<1>7. CASE ExecuteFail(w)
  <2>1. \/ UNCHANGED <<buffer, wItem, outcome>>
        \/ /\ wItem' = [wItem EXCEPT ![w] = NoItem]
           /\ outcome' = [outcome EXCEPT ![wItem[w]] = "failed"]
    BY <1>7 DEF ExecuteFail
  <2>2. QED
    BY <1>3, <1>5, <1>7, <2>1 DEF ExecuteFail, Outcome
<1>8. CASE Requeue(w)
  <2>1. /\ wItem' = [wItem EXCEPT ![w] = NoItem]
        /\ buffer' = Append(buffer, wItem[w])
        /\ outcome' = outcome
        /\ wItem[w] # NoItem
    BY <1>8 DEF Requeue, Holding
  <2>2. /\ \A j \in Items : Held(j)' <=> Held(j) /\ j # wItem[w]
        /\ OneHolder'
        /\ wItem[w] \in Items /\ Held(wItem[w])
    BY <2>1, LetGo
  <2>3. \A j \in Items : InBuffer(j)' <=> InBuffer(j) \/ j = wItem[w]
    BY <2>1, <2>2, InAppend DEF InBuffer
  <2>4. NoCopies(buffer')
    BY <2>1, <2>2, NoCopiesAppend DEF OwnInv, InOne, InBuffer
  <2>5. \A j \in Items : Ended(j)' <=> Ended(j)
    BY <1>1, <2>1 DEF Ended
  <2>6. QED
    BY <1>1, <1>2, <2>2, <2>3, <2>4, <2>5
       DEF OwnInv, InOne, InStored, InPeeked
<1>9. CASE LookForWork(w) \/ Exit(w) \/ NothingToTake(w) \/ WaitOrGiveUp(w)
           \/ ExecuteStart(w) \/ FinallyTest(w) \/ FinallySetIdle(w)
  BY <1>3, <1>9
     DEF LookForWork, Exit, NothingToTake, WaitOrGiveUp, ExecuteStart,
         FinallyTest, FinallySetIdle, itemVars
<1>10. QED
  BY <1>4, <1>6, <1>7, <1>8, <1>9 DEF WorkerRuns, WorkerStep

LEMMA ManagerOwnInv ==
  ASSUME TypeInv, OwnInv, PeekItem \/ FillBuffer
  PROVE  OwnInv'
<1> /\ buffer \in Seq(Items)
    /\ stored \in Seq(Items)
    /\ peeked \in Seq(Items)
    /\ outcome \in [Items -> Outcome]
  BY DEF TypeInv, TypeOK, WorkerTypeOK
<1>1. epc' = epc /\ wItem' = wItem
  BY DEF PeekItem, FillBuffer, threadVars, enqueueVars
<1>2. /\ \A j \in Items : NotAccepted(j)' <=> NotAccepted(j)
      /\ \A j \in Items : Held(j)' <=> Held(j)
      /\ OneHolder'
  BY <1>1 DEF NotAccepted, Held, OneHolder, OwnInv
<1>3. CASE PeekItem
  <2> DEFINE i == Head(stored)
  <2>1. /\ stored # <<>>
        /\ stored' = Tail(stored)
        /\ peeked' = Append(peeked, i)
        /\ UNCHANGED <<buffer, outcome>>
    BY <1>3 DEF PeekItem
  <2>2. i \in Items /\ InStored(i) /\ ~InPeeked(i)
    BY <2>1, HeadIn DEF OwnInv, InOne, InStored
  <2>3. \A j \in Items : InStored(j)' <=> InStored(j) /\ j # i
    BY <2>1, InTail DEF InStored, OwnInv
  <2>4. NoCopies(stored')
    BY <2>1, NoCopiesTail DEF OwnInv
  <2> HIDE DEF i
  <2>5. \A j \in Items : InPeeked(j)' <=> InPeeked(j) \/ j = i
    BY <2>1, <2>2, InAppend DEF InPeeked
  <2>6. NoCopies(peeked')
    BY <2>1, <2>2, NoCopiesAppend DEF OwnInv, InPeeked
  <2>7. \A j \in Items : Ended(j)' <=> Ended(j)
    BY <1>1, <2>1 DEF Ended
  <2>8. QED
    BY <1>2, <2>1, <2>2, <2>3, <2>4, <2>5, <2>6, <2>7
       DEF OwnInv, InOne, InBuffer
<1>4. CASE FillBuffer
  <2> DEFINE i == Head(peeked)
  <2>1. /\ peeked # <<>>
        /\ peeked' = Tail(peeked)
        /\ stored' = stored
        /\ \/ outcome' = [outcome EXCEPT ![i] = "failed"] /\ buffer' = buffer
           \/ outcome' = outcome /\ buffer' = Append(buffer, i)
    BY <1>4 DEF FillBuffer, enqueueVars
  <2>2. i \in Items /\ InPeeked(i) /\ ~InBuffer(i)
    BY <2>1, HeadIn DEF OwnInv, InOne, InPeeked
  <2>3. \A j \in Items : InPeeked(j)' <=> InPeeked(j) /\ j # i
    BY <2>1, InTail DEF InPeeked, OwnInv
  <2>4. NoCopies(peeked')
    BY <2>1, NoCopiesTail DEF OwnInv
  <2> HIDE DEF i
  <2>5. CASE outcome' = [outcome EXCEPT ![i] = "failed"] /\ buffer' = buffer
    <3>1. \A j \in Items : Ended(j)' <=> Ended(j) \/ j = i
      BY <1>1, <2>2, <2>5 DEF Ended
    <3>2. QED
      BY <1>2, <2>1, <2>2, <2>3, <2>4, <2>5, <3>1
         DEF OwnInv, InOne, InStored, InBuffer
  <2>6. CASE outcome' = outcome /\ buffer' = Append(buffer, i)
    <3>1. \A j \in Items : Ended(j)' <=> Ended(j)
      BY <1>1, <2>6 DEF Ended
    <3>2. \A j \in Items : InBuffer(j)' <=> InBuffer(j) \/ j = i
      BY <2>2, <2>6, InAppend DEF InBuffer
    <3>3. NoCopies(buffer')
      BY <2>2, <2>6, NoCopiesAppend DEF OwnInv, InBuffer
    <3>4. QED
      BY <1>2, <2>1, <2>2, <2>3, <2>4, <3>1, <3>2, <3>3
         DEF OwnInv, InOne, InStored
  <2>7. QED
    BY <2>1, <2>5, <2>6
<1>5. QED
  BY <1>3, <1>4

LEMMA OwnStep ==
  ASSUME TypeInv, OwnInv, [Next]_vars
  PROVE  OwnInv'
<1>1. CASE \E i \in Items : EnqueueCheck(i) \/ EnqueueStep(i)
  BY <1>1, EnqueueOwnInv
<1>2. CASE \E w \in Workers : WorkerRuns(w)
  BY <1>2, WorkerOwnInv
<1>3. CASE PeekItem \/ FillBuffer
  BY <1>3, ManagerOwnInv
<1>4. CASE UNCHANGED <<stored, peeked, buffer, wItem, outcome, epc>>
  BY <1>4, OwnKept DEF NotAccepted
<1>5. CASE Start \/ Stop \/ StopRound \/ StopAsk \/ StopWait \/ StopMark \/ StopDecide
           \/ ManagerWakes \/ ManagerChecks \/ ManagerAsks \/ PeekReturns
  BY <1>4, <1>5
     DEF Start, Stop, StopRound, StopAsk, StopWait, StopMark, StopDecide, ManagerWakes,
         ManagerChecks, ManagerAsks, PeekReturns, AskToStop, MarkStopped,
         itemVars, threadVars, enqueueVars, managerVars
<1>6. CASE \E t \in Threads : CheckWorkers(t)
  BY <1>4, <1>6
     DEF CheckWorkers, CountWorkers, AddWorker, StartNewWorker, CheckExcess,
         PickExcess, Dispose, DisposeWait, DisposeMark, DisposeTerminate, RemoveWorker,
         StartWorker, AskToStop, MarkStopped, MarkTerminated,
         itemVars, threadVars, enqueueVars, managerVars
<1>7. CASE UNCHANGED vars
  BY <1>4, <1>7 DEF vars, itemVars, threadVars, enqueueVars, managerVars
<1>8. QED
  BY <1>1, <1>2, <1>3, <1>5, <1>6, <1>7
     DEF Next, ControlStep, ManagerStep, Threads

(* Between the caller, the storage, the buffer and the workers no job is   *)
(* ever lost and none is ever in two places.                               *)
THEOREM JobsStayInOnePlace == Spec => []InOnePlace
<1>1. TypeInv /\ OwnInv /\ [Next]_vars => OwnInv'
  BY OwnStep
<1>2. QED
  BY InitOwnInv, OwnInvImplies, <1>1, TypeInvariant, PTL DEF Spec

-----------------------------------------------------------------------------
(* How often a job is tried.  An item has been tried neither before it is  *)
(* accepted nor in the storage, and has a try left wherever it waits.      *)

HasTryLeft(i) == retryCount[i] < MaxAttempts

QueuedRetryInv ==
  \A i \in Items :
    /\ NotAccepted(i) \/ InStored(i) \/ InPeeked(i) => retryCount[i] = 0
    /\ InBuffer(i) => HasTryLeft(i)

HeldRetryInv ==
  \A w \in Workers :
    /\ wpc[w] \in {"got", "delay"} => HasTryLeft(wItem[w])
    /\ wpc[w] = "run" => retryCount[wItem[w]] \in 1..MaxAttempts

RetryInv == QueuedRetryInv /\ HeldRetryInv /\ RetryPolicy

LEMMA MaxAttemptsType == MaxAttempts \in Nat /\ 0 < MaxAttempts
  BY WorkerAssumption DEF MaxAttempts

LEMMA InitRetryInv == Init => RetryInv
<1> SUFFICES ASSUME Init PROVE RetryInv
  OBVIOUS
<1>1. \A i \in Items : retryCount[i] = 0 /\ outcome[i] = "none"
  BY DEF Init, WorkerInit
<1>2. \A w \in Workers : wpc[w] = "unborn"
  BY DEF Init, WorkerInit
<1>3. QED
  BY <1>1, <1>2, MaxAttemptsType
     DEF RetryInv, QueuedRetryInv, HeldRetryInv, RetryPolicy, HasTryLeft

(* A step that tries nothing, ends nothing, and queues or takes nothing.   *)
LEMMA RetryKept ==
  ASSUME RetryInv, retryCount' = retryCount, outcome' = outcome,
         UNCHANGED <<stored, peeked, buffer>>,
         \A i \in Items : NotAccepted(i)' => NotAccepted(i),
         \A w \in Workers :
           wpc'[w] \in Holding
             => /\ wItem'[w] = wItem[w]
                /\ wpc'[w] = wpc[w] \/ (HasTryLeft(wItem[w]) /\ wpc'[w] # "run")
  PROVE  RetryInv'
<1>1. \A i : HasTryLeft(i)' <=> HasTryLeft(i)
  BY DEF HasTryLeft, MaxAttempts
<1>2. QueuedRetryInv'
  BY <1>1 DEF RetryInv, QueuedRetryInv, InStored, InPeeked, InBuffer
<1>3. HeldRetryInv'
  BY <1>1 DEF RetryInv, HeldRetryInv, Holding, HasTryLeft, MaxAttempts
<1>4. RetryPolicy'
  BY DEF RetryInv, RetryPolicy, MaxAttempts
<1>5. QED
  BY <1>2, <1>3, <1>4 DEF RetryInv

(* A step that moves items between queues, workers standing still.         *)
LEMMA RetryMoved ==
  ASSUME RetryInv, retryCount' = retryCount, UNCHANGED <<wItem, wpc>>,
         \A i \in Items :
           /\ NotAccepted(i)' \/ InStored(i)' \/ InPeeked(i)'
                => NotAccepted(i) \/ InStored(i) \/ InPeeked(i)
           /\ InBuffer(i)' => InBuffer(i) \/ NotAccepted(i) \/ InPeeked(i),
         \A i \in Items :
           outcome'[i] = "failed"
             => outcome[i] = "failed" \/ (retryCount[i] = 0 /\ i \in Unloadable)
  PROVE  RetryInv'
<1>1. \A i : HasTryLeft(i)' <=> HasTryLeft(i)
  BY DEF HasTryLeft, MaxAttempts
<1>2. QueuedRetryInv'
  BY <1>1, MaxAttemptsType DEF RetryInv, QueuedRetryInv, HasTryLeft
<1>3. HeldRetryInv'
  BY <1>1 DEF RetryInv, HeldRetryInv, HasTryLeft, MaxAttempts
<1>4. RetryPolicy'
  BY DEF RetryInv, RetryPolicy, MaxAttempts
<1>5. QED
  BY <1>2, <1>3, <1>4 DEF RetryInv

LEMMA EnqueueRetryInv ==
  ASSUME TypeInv, OwnInv, RetryInv, NEW i \in Items,
         EnqueueCheck(i) \/ EnqueueStep(i)
  PROVE  RetryInv'
<1> /\ buffer \in Seq(Items)
    /\ stored \in Seq(Items)
    /\ epc \in [Items -> EnqueuePC]
  BY DEF TypeInv, TypeOK, WorkerTypeOK
<1>1. /\ UNCHANGED <<retryCount, outcome, peeked, wItem, wpc>>
      /\ NotAccepted(i)
      /\ \A j \in Items : NotAccepted(j)' => NotAccepted(j)
  BY DEF EnqueueCheck, EnqueueStep, EnqueueDirect, EnqueueStore, At, itemVars,
         threadVars, managerVars, NotAccepted
<1>2. CASE EnqueueCheck(i)
  <2>1. UNCHANGED <<stored, peeked, buffer>>
    BY <1>1, <1>2 DEF EnqueueCheck
  <2>2. \A w \in Workers :
          wpc'[w] \in Holding
            => /\ wItem'[w] = wItem[w]
               /\ wpc'[w] = wpc[w] \/ (HasTryLeft(wItem[w]) /\ wpc'[w] # "run")
    BY <1>1
  <2>3. QED
    BY <1>1, <2>1, <2>2, RetryKept
<1>3. CASE EnqueueDirect(i)
  <2>1. stored' = stored /\ (buffer' = buffer \/ buffer' = Append(buffer, i))
    BY <1>3 DEF EnqueueDirect
  <2>2. \A j \in Items : InBuffer(j)' => InBuffer(j) \/ j = i
    BY <2>1, InAppend DEF InBuffer
  <2>3. \A j \in Items : InStored(j)' \/ InPeeked(j)' => InStored(j) \/ InPeeked(j)
    BY <1>1, <2>1 DEF InStored, InPeeked
  <2>4. \A j \in Items :
          /\ NotAccepted(j)' \/ InStored(j)' \/ InPeeked(j)'
               => NotAccepted(j) \/ InStored(j) \/ InPeeked(j)
          /\ InBuffer(j)' => InBuffer(j) \/ NotAccepted(j) \/ InPeeked(j)
    BY <1>1, <2>1, <2>2, <2>3 DEF InBuffer
  <2>5. QED
    BY <1>1, <2>4, RetryMoved
<1>4. CASE EnqueueStore(i)
  <2>1. buffer' = buffer /\ stored' = Append(stored, i)
    BY <1>4 DEF EnqueueStore
  <2>2. \A j \in Items : InStored(j)' => InStored(j) \/ j = i
    BY <2>1, InAppend DEF InStored
  <2>3. \A j \in Items : /\ InBuffer(j)' => InBuffer(j)
                         /\ InPeeked(j)' => InPeeked(j)
    BY <1>1, <2>1 DEF InBuffer, InPeeked
  <2>4. \A j \in Items :
          /\ NotAccepted(j)' \/ InStored(j)' \/ InPeeked(j)'
               => NotAccepted(j) \/ InStored(j) \/ InPeeked(j)
          /\ InBuffer(j)' => InBuffer(j) \/ NotAccepted(j) \/ InPeeked(j)
    BY <1>1, <2>2, <2>3
  <2>5. QED
    BY <1>1, <2>4, RetryMoved
<1>5. QED
  BY <1>2, <1>3, <1>4 DEF EnqueueStep

LEMMA ManagerRetryInv ==
  ASSUME TypeInv, OwnInv, RetryInv, PeekItem \/ FillBuffer
  PROVE  RetryInv'
<1> /\ buffer \in Seq(Items)
    /\ stored \in Seq(Items)
    /\ peeked \in Seq(Items)
    /\ outcome \in [Items -> Outcome]
  BY DEF TypeInv, TypeOK, WorkerTypeOK
<1>1. /\ UNCHANGED <<retryCount, wItem, wpc, epc>>
      /\ \A j \in Items : NotAccepted(j)' => NotAccepted(j)
  BY DEF PeekItem, FillBuffer, threadVars, enqueueVars, NotAccepted
<1>2. CASE PeekItem
  <2>1. /\ stored # <<>>
        /\ stored' = Tail(stored)
        /\ peeked' = Append(peeked, Head(stored))
        /\ UNCHANGED <<buffer, outcome>>
    BY <1>2 DEF PeekItem
  <2>2. Head(stored) \in Items /\ InStored(Head(stored))
    BY <2>1, HeadIn DEF InStored
  <2>3. \A j \in Items : InStored(j)' => InStored(j)
    BY <2>1, InTail DEF InStored, OwnInv
  <2>4. \A j \in Items : InPeeked(j)' => InPeeked(j) \/ j = Head(stored)
    BY <2>1, <2>2, InAppend DEF InPeeked
  <2>5. \A j \in Items : InBuffer(j)' => InBuffer(j)
    BY <2>1 DEF InBuffer
  <2>6. \A j \in Items :
          /\ NotAccepted(j)' \/ InStored(j)' \/ InPeeked(j)'
               => NotAccepted(j) \/ InStored(j) \/ InPeeked(j)
          /\ InBuffer(j)' => InBuffer(j) \/ NotAccepted(j) \/ InPeeked(j)
    BY <1>1, <2>2, <2>3, <2>4, <2>5
  <2>7. QED
    BY <1>1, <2>1, <2>6, RetryMoved
<1>3. CASE FillBuffer
  <2> DEFINE i == Head(peeked)
  <2>1. /\ peeked # <<>>
        /\ peeked' = Tail(peeked)
        /\ stored' = stored
        /\ \/ /\ i \in Unloadable
              /\ outcome' = [outcome EXCEPT ![i] = "failed"]
              /\ buffer' = buffer
           \/ outcome' = outcome /\ buffer' = Append(buffer, i)
    BY <1>3 DEF FillBuffer, enqueueVars
  <2>2. i \in Items /\ InPeeked(i) /\ retryCount[i] = 0
    BY <2>1, HeadIn DEF InPeeked, RetryInv, QueuedRetryInv
  <2>3. \A j \in Items : InPeeked(j)' => InPeeked(j)
    BY <2>1, InTail DEF InPeeked, OwnInv
  <2>4. \A j \in Items : InStored(j)' => InStored(j)
    BY <2>1 DEF InStored
  <2> HIDE DEF i
  <2>5. \A j \in Items : InBuffer(j)' => InBuffer(j) \/ j = i
    BY <2>1, <2>2, InAppend DEF InBuffer
  <2>6. \A j \in Items : outcome'[j] = "failed"
          => outcome[j] = "failed" \/ (retryCount[j] = 0 /\ j \in Unloadable)
    <3>1. CASE /\ i \in Unloadable
               /\ outcome' = [outcome EXCEPT ![i] = "failed"]
      BY <2>2, <3>1
    <3>2. CASE outcome' = outcome
      BY <3>2
    <3>3. QED
      BY <2>1, <3>1, <3>2
  <2>7. \A j \in Items :
          /\ NotAccepted(j)' \/ InStored(j)' \/ InPeeked(j)'
               => NotAccepted(j) \/ InStored(j) \/ InPeeked(j)
          /\ InBuffer(j)' => InBuffer(j) \/ NotAccepted(j) \/ InPeeked(j)
    BY <1>1, <2>2, <2>3, <2>4, <2>5
  <2>8. QED
    BY <1>1, <2>6, <2>7, RetryMoved
<1>4. QED
  BY <1>2, <1>3

LEMMA WorkerRetryInv ==
  ASSUME TypeInv, OwnInv, RetryInv, NEW w \in Workers, WorkerRuns(w)
  PROVE  RetryInv'
<1> DEFINE i == wItem[w]
<1> /\ buffer \in Seq(Items)
    /\ retryCount \in [Items -> Nat]
    /\ outcome \in [Items -> Outcome]
    /\ wItem \in [Workers -> Items \cup {NoItem}]
    /\ wpc \in [Workers -> WorkerPC]
    /\ \A v \in Workers : wpc[v] \in Holding <=> wItem[v] # NoItem
  BY DEF TypeInv, TypeOK, WorkerTypeOK, HoldOK
<1>1. /\ UNCHANGED <<stored, peeked, epc>>
      /\ \A j \in Items : NotAccepted(j)' <=> NotAccepted(j)
  BY DEF WorkerRuns, poolVars, enqueueVars, managerVars, NotAccepted
<1>2. /\ \A j \in Items : InStored(j)' <=> InStored(j)
      /\ \A j \in Items : InPeeked(j)' <=> InPeeked(j)
  BY <1>1 DEF InStored, InPeeked
<1>3. MaxAttempts' = MaxAttempts
  BY DEF MaxAttempts
<1>4. CASE LookForWork(w) \/ Exit(w) \/ NothingToTake(w) \/ WaitOrGiveUp(w)
           \/ FinallyTest(w) \/ FinallySetIdle(w)
  <2>1. /\ UNCHANGED <<stored, peeked, buffer>>
        /\ UNCHANGED <<retryCount, outcome, wItem>>
    BY <1>1, <1>4
       DEF LookForWork, Exit, NothingToTake, WaitOrGiveUp, FinallyTest,
           FinallySetIdle, itemVars
  <2>2. \A v \in Workers : wpc'[v] \in Holding => wpc'[v] = wpc[v]
    BY <1>4
       DEF LookForWork, Exit, NothingToTake, WaitOrGiveUp, FinallyTest,
           FinallySetIdle, Goto, Holding
  <2>3. \A v \in Workers :
          wpc'[v] \in Holding
            => /\ wItem'[v] = wItem[v]
               /\ wpc'[v] = wpc[v] \/ (HasTryLeft(wItem[v]) /\ wpc'[v] # "run")
    BY <2>1, <2>2
  <2>4. QED
    BY <1>1, <2>1, <2>3, RetryKept
<1>5. CASE TakeWorkItem(w)
  <2>1. /\ buffer # <<>>
        /\ buffer' = Tail(buffer)
        /\ wItem' = [wItem EXCEPT ![w] = Head(buffer)]
        /\ wpc' = [wpc EXCEPT ![w] = "got"]
        /\ UNCHANGED <<retryCount, outcome>>
    BY <1>5 DEF TakeWorkItem, Dequeued, itemVars, Goto
  <2>2. \A j \in Items : HasTryLeft(j)' <=> HasTryLeft(j)
    BY <1>3, <2>1 DEF HasTryLeft
  <2>3. Head(buffer) \in Items /\ HasTryLeft(Head(buffer))
    BY <2>1, HeadIn DEF RetryInv, QueuedRetryInv, InBuffer
  <2>4. \A j \in Items : InBuffer(j)' => InBuffer(j)
    BY <2>1, InTail DEF InBuffer, OwnInv
  <2>5. QueuedRetryInv'
    BY <1>1, <1>2, <2>1, <2>2, <2>4 DEF RetryInv, QueuedRetryInv
  <2>6. HeldRetryInv'
    <3> SUFFICES ASSUME NEW v \in Workers
                 PROVE  /\ wpc'[v] \in {"got", "delay"}
                             => HasTryLeft(wItem[v])'
                        /\ wpc'[v] = "run"
                             => retryCount'[wItem'[v]] \in 1..MaxAttempts
      BY <1>3 DEF HeldRetryInv
    <3>1. CASE v = w
      BY <1>3, <2>1, <2>3, <3>1 DEF HasTryLeft
    <3>2. CASE v # w
      BY <1>3, <2>1, <3>2 DEF RetryInv, HeldRetryInv, HasTryLeft
    <3>3. QED
      BY <3>1, <3>2
  <2>7. RetryPolicy'
    BY <1>3, <2>1 DEF RetryInv, RetryPolicy
  <2>8. QED
    BY <2>5, <2>6, <2>7 DEF RetryInv
<1>6. CASE ExecuteStart(w)
  <2>1. /\ buffer' = buffer
        /\ wItem' = wItem
        /\ wpc[w] = "got"
        /\ wpc' = [wpc EXCEPT ![w] = "run"]
        /\ retryCount' = [retryCount EXCEPT ![i] = @ + 1]
        /\ outcome' = outcome
    BY <1>6 DEF ExecuteStart, Goto
  <2>2. i \in Items /\ Held(i) /\ HasTryLeft(i)
    BY <2>1 DEF Holding, Held, RetryInv, HeldRetryInv
  <2>3. /\ ~NotAccepted(i) /\ ~InStored(i) /\ ~InPeeked(i) /\ ~InBuffer(i)
        /\ outcome[i] = "none"
    BY <2>2 DEF OwnInv, InOne, Ended
  <2>4. \A j \in Items \ {i} : retryCount'[j] = retryCount[j]
    BY <2>1, <2>2
  <2>5. retryCount'[i] \in 1..MaxAttempts
    BY <2>1, <2>2, MaxAttemptsType DEF HasTryLeft
  <2>6. QueuedRetryInv'
    BY <1>1, <1>2, <1>3, <2>1, <2>3, <2>4
       DEF RetryInv, QueuedRetryInv, InBuffer, HasTryLeft
  <2>7. HeldRetryInv'
    <3> SUFFICES ASSUME NEW v \in Workers
                 PROVE  /\ wpc'[v] \in {"got", "delay"}
                             => HasTryLeft(wItem[v])'
                        /\ wpc'[v] = "run"
                             => retryCount'[wItem'[v]] \in 1..MaxAttempts
      BY <1>3 DEF HeldRetryInv
    <3>1. CASE v = w
      BY <2>1, <2>5, <3>1
    <3>2. CASE v # w /\ wpc[v] \in Holding
      <4>1. wItem[v] \in Items \ {i}
        BY <2>2, <3>2 DEF OwnInv, OneHolder
      <4>2. QED
        BY <1>3, <2>1, <2>4, <3>2, <4>1 DEF RetryInv, HeldRetryInv, HasTryLeft
    <3>3. CASE v # w /\ wpc[v] \notin Holding
      BY <2>1, <3>3 DEF Holding
    <3>4. QED
      BY <3>1, <3>2, <3>3
  <2>8. RetryPolicy'
    <3> SUFFICES ASSUME NEW j \in Items
                 PROVE  /\ retryCount'[j] <= MaxAttempts
                        /\ outcome'[j] = "failed"
                             => \/ retryCount'[j] = MaxAttempts
                                \/ retryCount'[j] = 0 /\ j \in Unloadable
      BY <1>3 DEF RetryPolicy
    <3>1. CASE j = i
      BY <2>1, <2>3, <2>5, <3>1, MaxAttemptsType
    <3>2. CASE j # i
      BY <2>1, <2>4, <3>2 DEF RetryInv, RetryPolicy
    <3>3. QED
      BY <3>1, <3>2
  <2>9. QED
    BY <2>6, <2>7, <2>8 DEF RetryInv
<1>7. CASE ExecuteComplete(w)
  <2>1. /\ UNCHANGED <<buffer, retryCount>>
        /\ wpc[w] = "run" /\ i \in Items
        /\ wItem' = [wItem EXCEPT ![w] = NoItem]
        /\ wpc' = [wpc EXCEPT ![w] = "finally"]
        /\ outcome' = [outcome EXCEPT ![i] = "completed"]
    BY <1>7 DEF ExecuteComplete, Goto, Holding
  <2>2. QueuedRetryInv'
    BY <1>1, <1>2, <1>3, <2>1
       DEF RetryInv, QueuedRetryInv, InBuffer, HasTryLeft
  <2>3. HeldRetryInv'
    BY <1>3, <2>1 DEF RetryInv, HeldRetryInv, HasTryLeft
  <2>4. RetryPolicy'
    BY <1>3, <2>1 DEF RetryInv, RetryPolicy
  <2>5. QED
    BY <2>2, <2>3, <2>4 DEF RetryInv
<1>8. CASE ExecuteFail(w)
  <2>1. /\ UNCHANGED <<buffer, retryCount>>
        /\ wpc[w] = "run" /\ i \in Items
        /\ retryCount[i] \in 1..MaxAttempts
    BY <1>8 DEF ExecuteFail, Holding, RetryInv, HeldRetryInv
  <2>2. QueuedRetryInv'
    BY <1>1, <1>2, <1>3, <2>1
       DEF RetryInv, QueuedRetryInv, InBuffer, HasTryLeft
  <2>3. CASE ReTry(i) /\ Goto(w, "delay") /\ UNCHANGED <<outcome, wItem>>
    <3>1. HasTryLeft(i)
      BY <2>1, <2>3, WorkerAssumption DEF HasTryLeft, ReTry, MaxAttempts
    <3>2. HeldRetryInv'
      BY <1>3, <2>1, <2>3, <3>1 DEF RetryInv, HeldRetryInv, HasTryLeft, Goto
    <3>3. RetryPolicy'
      BY <1>3, <2>1, <2>3 DEF RetryInv, RetryPolicy
    <3>4. QED
      BY <2>2, <3>2, <3>3 DEF RetryInv
  <2>4. CASE /\ ~ReTry(i)
             /\ outcome' = [outcome EXCEPT ![i] = "failed"]
             /\ wItem' = [wItem EXCEPT ![w] = NoItem]
             /\ Goto(w, "loop")
    <3>1. retryCount[i] = MaxAttempts
      BY <2>1, <2>4, WorkerAssumption DEF ReTry, MaxAttempts
    <3>2. HeldRetryInv'
      BY <1>3, <2>1, <2>4 DEF RetryInv, HeldRetryInv, HasTryLeft, Goto
    <3>3. RetryPolicy'
      BY <1>3, <2>1, <2>4, <3>1 DEF RetryInv, RetryPolicy
    <3>4. QED
      BY <2>2, <3>2, <3>3 DEF RetryInv
  <2>5. QED
    BY <1>8, <2>3, <2>4 DEF ExecuteFail
<1>9. CASE Requeue(w)
  <2>1. /\ UNCHANGED <<retryCount, outcome>>
        /\ buffer' = Append(buffer, i)
        /\ i \in Items /\ HasTryLeft(i)
        /\ wItem' = [wItem EXCEPT ![w] = NoItem]
        /\ wpc' = [wpc EXCEPT ![w] = "loop"]
    BY <1>9 DEF Requeue, itemVars, Goto, Holding, RetryInv, HeldRetryInv
  <2>2. \A j \in Items : InBuffer(j)' => InBuffer(j) \/ j = i
    BY <2>1, InAppend DEF InBuffer
  <2>3. QueuedRetryInv'
    BY <1>1, <1>2, <1>3, <2>1, <2>2
       DEF RetryInv, QueuedRetryInv, HasTryLeft
  <2>4. HeldRetryInv'
    BY <1>3, <2>1 DEF RetryInv, HeldRetryInv, HasTryLeft
  <2>5. RetryPolicy'
    BY <1>3, <2>1 DEF RetryInv, RetryPolicy
  <2>6. QED
    BY <2>3, <2>4, <2>5 DEF RetryInv
<1>10. QED
  BY <1>4, <1>5, <1>6, <1>7, <1>8, <1>9 DEF WorkerRuns, WorkerStep

LEMMA RetryStep ==
  ASSUME TypeInv, OwnInv, RetryInv, [Next]_vars
  PROVE  RetryInv'
<1>1. CASE \E i \in Items : EnqueueCheck(i) \/ EnqueueStep(i)
  BY <1>1, EnqueueRetryInv
<1>2. CASE \E w \in Workers : WorkerRuns(w)
  BY <1>2, WorkerRetryInv
<1>3. CASE PeekItem \/ FillBuffer
  BY <1>3, ManagerRetryInv
<1>4. ASSUME UNCHANGED <<stored, peeked, buffer, itemVars, epc, wItem>>,
             \A w \in Workers : wpc'[w] \in Holding => wpc'[w] = wpc[w]
      PROVE  RetryInv'
  BY <1>4, RetryKept DEF NotAccepted, itemVars
<1>5. CASE Start \/ Stop \/ StopRound \/ StopAsk \/ StopWait \/ StopMark \/ StopDecide
           \/ ManagerWakes \/ ManagerChecks \/ ManagerAsks \/ PeekReturns
           \/ UNCHANGED vars
  <2>1. UNCHANGED <<stored, peeked, buffer, itemVars, epc, wItem, wpc>>
    BY <1>5
       DEF Start, Stop, StopRound, StopAsk, StopWait, StopMark, StopDecide, ManagerWakes,
           ManagerChecks, ManagerAsks, PeekReturns, AskToStop, MarkStopped,
           vars, itemVars, threadVars, enqueueVars, managerVars
  <2>2. QED
    BY <1>4, <2>1
<1>6. ASSUME NEW t \in Threads, CheckWorkers(t) PROVE RetryInv'
  <2> wpc \in [Workers -> WorkerPC]
    BY DEF TypeInv, TypeOK, WorkerTypeOK
  <2>1. UNCHANGED <<stored, peeked, buffer, itemVars, epc, wItem>>
    BY <1>6
       DEF CheckWorkers, CountWorkers, AddWorker, StartNewWorker, CheckExcess,
           PickExcess, Dispose, DisposeWait, DisposeMark, DisposeTerminate, RemoveWorker,
           StartWorker, AskToStop, MarkStopped, MarkTerminated,
           itemVars, threadVars, enqueueVars, managerVars
  <2>2. CASE AddWorker(t) \/ StartNewWorker(t)
    <3>1. \A w \in Workers : wpc'[w] \in Holding => wpc'[w] = wpc[w]
      BY <2>2 DEF AddWorker, StartNewWorker, StartWorker, Goto, Holding
    <3>2. QED
      BY <1>4, <2>1, <3>1
  <2>3. CASE UNCHANGED wpc
    BY <1>4, <2>1, <2>3
  <2>4. QED
    BY <1>6, <2>2, <2>3
       DEF CheckWorkers, CountWorkers, CheckExcess, PickExcess, Dispose,
           DisposeWait, DisposeMark, DisposeTerminate, RemoveWorker, AskToStop, MarkStopped,
           MarkTerminated, threadVars
<1>7. QED
  BY <1>1, <1>2, <1>3, <1>5, <1>6 DEF Next, ControlStep, ManagerStep, Threads

(* However failures, retries, their delays and the workers interleave, no  *)
(* job is tried more often than the policy allows, and none is given up    *)
(* while it has tries left.                                                *)
THEOREM RetriesFollowPolicy == Spec => []RetryPolicy
<1>1. TypeInv /\ OwnInv /\ [Next]_vars => OwnInv'
  BY OwnStep
<1>2. TypeInv /\ OwnInv /\ RetryInv /\ [Next]_vars => RetryInv'
  BY RetryStep
<1>3. RetryInv => RetryPolicy
  BY DEF RetryInv
<1>4. QED
  BY InitOwnInv, InitRetryInv, <1>1, <1>2, <1>3, TypeInvariant, PTL DEF Spec

-----------------------------------------------------------------------------
(* The refinement of JobLifecycle: initial states are initial there, and   *)
(* every step is a step there or changes nothing.                          *)

jobState == [i \in Items |-> JobStateOf(i)]

(* What JobStateOf reads does not change.                                  *)
Still(i) ==
  /\ epc'[i] = "rejected" <=> epc[i] = "rejected"
  /\ NotAccepted(i)' <=> NotAccepted(i)
  /\ outcome'[i] = outcome[i]
  /\ Running(i)' <=> Running(i)

LEMMA StillState ==
  ASSUME NEW i, Still(i)
  PROVE  JobStateOf(i)' = JobStateOf(i)
  BY DEF Still, JobStateOf

LEMMA StillJobs ==
  ASSUME \A i \in Items : Still(i), retryCount' = retryCount
  PROVE  UNCHANGED Jobs!lifeVars
<1>1. jobState' = jobState
  BY StillState DEF jobState
<1>2. QED
  BY <1>1 DEF Jobs!lifeVars, jobState

(* One job changes its state, the others do not.                           *)
LEMMA OneMoves ==
  ASSUME NEW i \in Items, NEW from, NEW to,
         \A j \in Items \ {i} : Still(j),
         JobStateOf(i) = from, JobStateOf(i)' = to
  PROVE  Jobs!Becomes(i, from, to)
<1>1. \A j \in Items \ {i} : JobStateOf(j)' = JobStateOf(j)
  BY StillState
<1>2. jobState' = [jobState EXCEPT ![i] = to]
  BY <1>1 DEF jobState
<1>3. jobState[i] = from
  BY DEF jobState
<1>4. QED
  BY <1>2, <1>3 DEF Jobs!Becomes, jobState

LEMMA InitLife == Init => Jobs!LifeInit
<1> SUFFICES ASSUME Init PROVE Jobs!LifeInit
  OBVIOUS
<1>1. \A i \in Items : epc[i] = "new"
  BY DEF Init
<1>2. \A i \in Items : JobStateOf(i) = "requested"
  BY <1>1 DEF JobStateOf, NotAccepted
<1>3. retryCount = [i \in Items |-> 0]
  BY DEF Init, WorkerInit
<1>4. QED
  BY <1>2, <1>3 DEF Jobs!LifeInit

LEMMA EnqueueImplements ==
  ASSUME TypeInv, OwnInv, NEW i \in Items, EnqueueCheck(i) \/ EnqueueStep(i)
  PROVE  [Jobs!LifeNext]_(Jobs!lifeVars)
<1> epc \in [Items -> EnqueuePC]
  BY DEF TypeInv, TypeOK
<1>1. /\ UNCHANGED <<retryCount, outcome, wItem, wpc>>
      /\ NotAccepted(i) /\ ~Held(i) /\ outcome[i] = "none"
      /\ epc[i] # "rejected"
  BY DEF EnqueueCheck, EnqueueStep, EnqueueDirect, EnqueueStore, itemVars,
         threadVars, NotAccepted, OwnInv, InOne, Ended
<1>2. \A j : Running(j)' <=> Running(j)
  BY <1>1 DEF Running
<1>3. ~Running(i) /\ JobStateOf(i) = "requested"
  BY <1>1 DEF Running, Held, JobStateOf
<1>4. CASE EnqueueCheck(i)
  <2>1. \A j \in Items : Still(j)
    BY <1>1, <1>2, <1>4 DEF Still, EnqueueCheck, At, NotAccepted
  <2>2. QED
    BY <1>1, <2>1, StillJobs
<1>5. CASE At(i, "done")
  <2>1. \A j \in Items \ {i} : Still(j)
    BY <1>1, <1>2, <1>5 DEF Still, At, NotAccepted
  <2>2. JobStateOf(i)' = "queued"
    BY <1>1, <1>2, <1>3, <1>5 DEF JobStateOf, At, NotAccepted
  <2>3. Jobs!Becomes(i, "requested", "queued")
    BY <1>3, <2>1, <2>2, OneMoves
  <2>4. QED
    BY <1>1, <2>3 DEF Jobs!LifeNext, Jobs!Accept
<1>6. CASE At(i, "rejected")
  <2>1. \A j \in Items \ {i} : Still(j)
    BY <1>1, <1>2, <1>6 DEF Still, At, NotAccepted
  <2>2. JobStateOf(i)' = "refused"
    BY <1>6 DEF JobStateOf, At
  <2>3. Jobs!Becomes(i, "requested", "refused")
    BY <1>3, <2>1, <2>2, OneMoves
  <2>4. QED
    BY <1>1, <2>3 DEF Jobs!LifeNext, Jobs!Refuse
<1>7. QED
  BY <1>4, <1>5, <1>6 DEF EnqueueStep, EnqueueDirect, EnqueueStore

(* Besides worker w's own item, what other workers run stays as it was.    *)
LEMMA OthersRun ==
  ASSUME OwnInv, NEW w \in Workers, NEW j \in Items, wItem[w] # j,
         wItem'[w] # j \/ wpc'[w] # "run",
         \A v \in Workers \ {w} : wItem'[v] = wItem[v] /\ wpc'[v] = wpc[v]
  PROVE  Running(j)' <=> Running(j)
  BY DEF Running

LEMMA WorkerImplements ==
  ASSUME TypeInv, OwnInv, RetryInv, NEW w \in Workers, WorkerRuns(w)
  PROVE  [Jobs!LifeNext]_(Jobs!lifeVars)
<1> SUFFICES ASSUME NEW i, i = wItem[w]
             PROVE  [Jobs!LifeNext]_(Jobs!lifeVars)
  OBVIOUS
<1> /\ outcome \in [Items -> Outcome]
    /\ retryCount \in [Items -> Nat]
    /\ wItem \in [Workers -> Items \cup {NoItem}]
    /\ wpc \in [Workers -> WorkerPC]
    /\ wpc[w] \in Holding <=> wItem[w] # NoItem
  BY DEF TypeInv, TypeOK, WorkerTypeOK, HoldOK
<1>1. epc' = epc /\ \A j \in Items : NotAccepted(j)' <=> NotAccepted(j)
  BY DEF WorkerRuns, poolVars, enqueueVars, NotAccepted
<1>2. wpc[w] \in Holding
        => /\ i \in Items /\ Held(i)
           /\ ~NotAccepted(i) /\ epc[i] # "rejected" /\ outcome[i] = "none"
           /\ \A v \in Workers \ {w} : wItem[v] # i
  <2>1. wpc[w] \in Holding => i \in Items /\ Held(i)
    BY DEF Held
  <2>2. QED
    BY <2>1 DEF OwnInv, InOne, Ended, OneHolder
<1>3. ASSUME UNCHANGED <<retryCount, outcome>>,
             \A j \in Items : Running(j)' <=> Running(j)
      PROVE  [Jobs!LifeNext]_(Jobs!lifeVars)
  <2>1. \A j \in Items : Still(j)
    BY <1>1, <1>3 DEF Still
  <2>2. QED
    BY <1>3, <2>1, StillJobs
<1>4. CASE LookForWork(w) \/ Exit(w) \/ NothingToTake(w) \/ WaitOrGiveUp(w)
           \/ FinallyTest(w) \/ FinallySetIdle(w)
  <2>1. /\ UNCHANGED <<retryCount, outcome, wItem>>
        /\ wpc[w] # "run" /\ wpc'[w] # "run"
        /\ \A v \in Workers \ {w} : wpc'[v] = wpc[v]
    BY <1>4
       DEF LookForWork, Exit, NothingToTake, WaitOrGiveUp, FinallyTest,
           FinallySetIdle, Goto, itemVars
  <2>2. \A j \in Items : Running(j)' <=> Running(j)
    BY <2>1 DEF Running
  <2>3. QED
    BY <1>3, <2>1, <2>2
<1>5. CASE TakeWorkItem(w) \/ Requeue(w)
  <2>1. /\ UNCHANGED <<retryCount, outcome>>
        /\ wpc[w] # "run" /\ wpc'[w] # "run"
        /\ \A v \in Workers \ {w} : wItem'[v] = wItem[v] /\ wpc'[v] = wpc[v]
    BY <1>5 DEF TakeWorkItem, Requeue, Goto, itemVars
  <2>2. \A j \in Items : Running(j)' <=> Running(j)
    BY <2>1 DEF Running
  <2>3. QED
    BY <1>3, <2>1, <2>2
<1>6. ASSUME wpc[w] \in Holding,
             \A j \in Items \ {i} : outcome'[j] = outcome[j],
             \A v \in Workers \ {w} : wItem'[v] = wItem[v] /\ wpc'[v] = wpc[v],
             wItem'[w] \in {i, NoItem}
      PROVE  \A j \in Items \ {i} : Still(j)
  <2> SUFFICES ASSUME NEW j \in Items \ {i} PROVE Still(j)
    OBVIOUS
  <2>1. wItem'[w] # j
    BY <1>6, WorkerAssumption
  <2>2. Running(j)' <=> Running(j)
    BY <1>6, <2>1, OthersRun
  <2>3. QED
    BY <1>1, <1>6, <2>2 DEF Still
<1>7. CASE ExecuteStart(w)
  <2>1. /\ wpc[w] = "got" /\ wpc[w] \in Holding
        /\ wpc' = [wpc EXCEPT ![w] = "run"]
        /\ wItem' = wItem /\ outcome' = outcome
        /\ retryCount' = [retryCount EXCEPT ![i] = @ + 1]
        /\ retryCount[i] < MaxAttempts
    BY <1>7 DEF ExecuteStart, Goto, Holding, RetryInv, HeldRetryInv, HasTryLeft
  <2>2. \A j \in Items \ {i} : Still(j)
    BY <1>6, <2>1
  <2>3. JobStateOf(i) = "queued"
    BY <1>2, <2>1 DEF JobStateOf, Running
  <2>4. JobStateOf(i)' = "running"
    BY <1>1, <1>2, <2>1 DEF JobStateOf, Running
  <2>5. Jobs!Becomes(i, "queued", "running")
    BY <1>2, <2>1, <2>2, <2>3, <2>4, OneMoves
  <2>6. Jobs!Begin(i)
    BY <2>1, <2>5 DEF Jobs!Begin
  <2>7. QED
    BY <1>2, <2>1, <2>6 DEF Jobs!LifeNext
<1>8. ASSUME wpc[w] = "run", wItem'[w] \in {i, NoItem}, wpc'[w] # "run",
             \A v \in Workers \ {w} : wItem'[v] = wItem[v] /\ wpc'[v] = wpc[v],
             NEW o \in Outcome, outcome' = [outcome EXCEPT ![i] = o]
      PROVE  Jobs!Becomes(i, "running", IF o = "none" THEN "queued" ELSE o)
  <2>1. wpc[w] \in Holding
    BY <1>8 DEF Holding
  <2>2. \A j \in Items \ {i} : Still(j)
    BY <1>2, <1>6, <1>8, <2>1
  <2>3. JobStateOf(i) = "running"
    BY <1>2, <1>8, <2>1 DEF JobStateOf, Running
  <2>4. ~Running(i)'
    BY <1>2, <1>8, <2>1 DEF Running
  <2>5. outcome'[i] = o
    BY <1>2, <1>8, <2>1
  <2>6. JobStateOf(i)' = IF o = "none" THEN "queued" ELSE o
    BY <1>1, <1>2, <2>1, <2>4, <2>5 DEF JobStateOf
  <2>7. QED
    BY <1>2, <2>1, <2>2, <2>3, <2>6, OneMoves
<1>9. CASE ExecuteComplete(w)
  <2>1. /\ wpc[w] = "run" /\ wpc[w] \in Holding /\ wpc'[w] # "run"
        /\ wItem'[w] = NoItem /\ retryCount' = retryCount
        /\ \A v \in Workers \ {w} : wItem'[v] = wItem[v] /\ wpc'[v] = wpc[v]
        /\ outcome' = [outcome EXCEPT ![i] = "completed"]
    BY <1>9 DEF ExecuteComplete, Goto, Holding
  <2>2. Jobs!Becomes(i, "running", "completed")
    BY <1>8, <2>1 DEF Outcome
  <2>3. QED
    BY <1>2, <2>1, <2>2 DEF Jobs!LifeNext, Jobs!Complete
<1>10. CASE ExecuteFail(w)
  <2>1. /\ wpc[w] = "run" /\ wpc[w] \in Holding /\ wpc'[w] # "run"
        /\ retryCount' = retryCount
        /\ \A v \in Workers \ {w} : wItem'[v] = wItem[v] /\ wpc'[v] = wpc[v]
        /\ retryCount[i] \in 1..MaxAttempts
    BY <1>10 DEF ExecuteFail, Goto, Holding, RetryInv, HeldRetryInv
  <2>2. CASE ReTry(i) /\ UNCHANGED <<outcome, wItem>>
    <3>1. outcome' = [outcome EXCEPT ![i] = "none"] /\ wItem'[w] = i
      BY <1>2, <2>1, <2>2
    <3>2. Jobs!Becomes(i, "running", "queued")
      BY <1>8, <2>1, <3>1 DEF Outcome
    <3>3. retryCount[i] < MaxAttempts
      BY <1>2, <2>1, <2>2, WorkerAssumption DEF ReTry, MaxAttempts
    <3>4. QED
      BY <1>2, <2>1, <3>2, <3>3 DEF Jobs!LifeNext, Jobs!Retry
  <2>3. CASE /\ ~ReTry(i)
             /\ outcome' = [outcome EXCEPT ![i] = "failed"]
             /\ wItem' = [wItem EXCEPT ![w] = NoItem]
    <3>1. wItem'[w] = NoItem
      BY <2>3
    <3>2. Jobs!Becomes(i, "running", "failed")
      BY <1>8, <2>1, <2>3, <3>1 DEF Outcome
    <3>3. retryCount[i] = MaxAttempts
      BY <1>2, <2>1, <2>3, WorkerAssumption DEF ReTry, MaxAttempts
    <3>4. QED
      BY <1>2, <2>1, <3>2, <3>3 DEF Jobs!LifeNext, Jobs!GiveUp
  <2>4. QED
    BY <1>10, <2>2, <2>3 DEF ExecuteFail
<1>11. QED
  BY <1>4, <1>5, <1>7, <1>9, <1>10 DEF WorkerRuns, WorkerStep

LEMMA FillBufferImplements ==
  ASSUME TypeInv, OwnInv, RetryInv, FillBuffer
  PROVE  [Jobs!LifeNext]_(Jobs!lifeVars)
<1> SUFFICES ASSUME NEW i, i = Head(peeked)
             PROVE  [Jobs!LifeNext]_(Jobs!lifeVars)
  OBVIOUS
<1> peeked \in Seq(Items) /\ outcome \in [Items -> Outcome]
  BY DEF TypeInv, TypeOK, WorkerTypeOK
<1>1. /\ peeked # <<>>
      /\ UNCHANGED <<epc, retryCount, wItem, wpc>>
      /\ \/ outcome' = [outcome EXCEPT ![i] = "failed"]
         \/ outcome' = outcome
  BY DEF FillBuffer, enqueueVars, threadVars
<1>2. i \in Items /\ InPeeked(i)
  BY <1>1, HeadIn DEF InPeeked
<1>3. /\ ~NotAccepted(i) /\ ~Held(i) /\ outcome[i] = "none"
      /\ epc[i] # "rejected" /\ retryCount[i] = 0
  BY <1>2 DEF OwnInv, InOne, Ended, RetryInv, QueuedRetryInv
<1>4. \A j : /\ Running(j)' <=> Running(j)
             /\ NotAccepted(j)' <=> NotAccepted(j)
  BY <1>1 DEF Running, NotAccepted
<1>5. CASE outcome' = outcome
  <2>1. \A j \in Items : Still(j)
    BY <1>1, <1>4, <1>5 DEF Still
  <2>2. QED
    BY <1>1, <2>1, StillJobs
<1>6. CASE outcome' = [outcome EXCEPT ![i] = "failed"]
  <2>1. \A j \in Items \ {i} : Still(j)
    BY <1>1, <1>4, <1>6 DEF Still
  <2>2. JobStateOf(i) = "queued"
    BY <1>3 DEF JobStateOf, Running, Held
  <2>3. JobStateOf(i)' = "failed"
    BY <1>1, <1>2, <1>3, <1>4, <1>6 DEF JobStateOf
  <2>4. Jobs!Becomes(i, "queued", "failed")
    BY <1>2, <2>1, <2>2, <2>3, OneMoves
  <2>5. QED
    BY <1>1, <1>2, <1>3, <2>4 DEF Jobs!LifeNext, Jobs!Discard
<1>7. QED
  BY <1>1, <1>5, <1>6

(* A step of the threads that only look after the workers, or of the       *)
(* manager when it moves an item, changes no job.                          *)
LEMMA FleetImplements ==
  ASSUME TypeInv, UNCHANGED <<itemVars, epc, wItem>>,
         \A w \in Workers : wpc'[w] = "run" <=> wpc[w] = "run"
  PROVE  [Jobs!LifeNext]_(Jobs!lifeVars)
<1>1. UNCHANGED <<retryCount, outcome>>
  BY DEF itemVars
<1>2. \A j \in Items : Still(j)
  BY <1>1 DEF Still, Running, NotAccepted
<1>3. QED
  BY <1>1, <1>2, StillJobs

LEMMA StepImplements ==
  ASSUME TypeInv, OwnInv, RetryInv, [Next]_vars
  PROVE  [Jobs!LifeNext]_(Jobs!lifeVars)
<1>1. CASE \E i \in Items : EnqueueCheck(i) \/ EnqueueStep(i)
  BY <1>1, EnqueueImplements
<1>2. CASE \E w \in Workers : WorkerRuns(w)
  BY <1>2, WorkerImplements
<1>3. CASE FillBuffer
  BY <1>3, FillBufferImplements
<1>4. CASE Start \/ Stop \/ StopRound \/ StopAsk \/ StopWait \/ StopMark \/ StopDecide
           \/ ManagerWakes \/ ManagerChecks \/ ManagerAsks \/ PeekItem
           \/ PeekReturns \/ UNCHANGED vars
  <2>1. UNCHANGED <<itemVars, epc, wItem, wpc>>
    BY <1>4
       DEF Start, Stop, StopRound, StopAsk, StopWait, StopMark, StopDecide, ManagerWakes,
           ManagerChecks, ManagerAsks, PeekItem, PeekReturns, AskToStop,
           MarkStopped, vars, itemVars, threadVars, enqueueVars
  <2>2. QED
    BY <2>1, FleetImplements
<1>5. ASSUME NEW t \in Threads, CheckWorkers(t)
      PROVE  [Jobs!LifeNext]_(Jobs!lifeVars)
  <2> wpc \in [Workers -> WorkerPC] /\ TargetOK
    BY DEF TypeInv, TypeOK, WorkerTypeOK
  <2>1. UNCHANGED <<itemVars, epc, wItem>>
    BY <1>5
       DEF CheckWorkers, CountWorkers, AddWorker, StartNewWorker, CheckExcess,
           PickExcess, Dispose, DisposeWait, DisposeMark, DisposeTerminate, RemoveWorker,
           StartWorker, AskToStop, MarkStopped, MarkTerminated,
           itemVars, threadVars, enqueueVars
  <2>2. CASE AddWorker(t)
    <3>1. PICK w \in Workers : /\ wpc[w] = "unborn"
                               /\ wpc' = [wpc EXCEPT ![w] = "created"]
      BY <2>2 DEF AddWorker, Goto
    <3>2. QED
      BY <2>1, <3>1, FleetImplements
  <2>3. CASE StartNewWorker(t)
    <3>1. /\ wpc[target[t]] = "created"
          /\ wpc' = [wpc EXCEPT ![target[t]] = "loop"]
      BY <2>3 DEF StartNewWorker, StartWorker, Goto, TargetOK
    <3>2. QED
      BY <2>1, <3>1, FleetImplements
  <2>4. CASE UNCHANGED wpc
    BY <2>1, <2>4, FleetImplements
  <2>5. QED
    BY <1>5, <2>2, <2>3, <2>4
       DEF CheckWorkers, CountWorkers, CheckExcess, PickExcess, Dispose,
           DisposeWait, DisposeMark, DisposeTerminate, RemoveWorker, AskToStop, MarkStopped,
           MarkTerminated, threadVars
<1>6. QED
  BY <1>1, <1>2, <1>3, <1>4, <1>5 DEF Next, ControlStep, ManagerStep, Threads

(* A pool implements JobLifecycle, for any number of jobs, workers and     *)
(* retries: no interleaving of callers, manager, Control and workers makes *)
(* a job live a life the abstract specification does not allow.            *)
THEOREM PoolImplementsLifecycle == Spec => ImplementsJobLifecycle
<1>1. TypeInv /\ OwnInv /\ [Next]_vars => OwnInv'
  BY OwnStep
<1>2. TypeInv /\ OwnInv /\ RetryInv /\ [Next]_vars => RetryInv'
  BY RetryStep
<1>3. TypeInv /\ OwnInv /\ RetryInv /\ [Next]_vars
        => [Jobs!LifeNext]_(Jobs!lifeVars)
  BY StepImplements
<1>4. QED
  BY InitOwnInv, InitRetryInv, InitLife, <1>1, <1>2, <1>3, TypeInvariant, PTL
     DEF Spec, ImplementsJobLifecycle, Jobs!LifeSpec
=============================================================================
