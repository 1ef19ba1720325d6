--------------------------- MODULE InMemoryStorage ---------------------------
(***************************************************************************)
(* The in-memory storage (JobMan/Storage/MemoryStorage/InMemoryStorage.cs) *)
(* as its clients meet it: callers of Enqueue and Schedule (Set), and the  *)
(* manager threads of the pools that share it (PeekOrWait).  UpdateStatus  *)
(* and Clean, which workers call, are in RecurrentJobs.                    *)
(*                                                                         *)
(* A definition is one object that the storage, the arrays PeekOrWait      *)
(* returned, the buffers and the workers all point to: its Status and      *)
(* NextExecuteTime are shared by every copy of the reference.              *)
(*                                                                         *)
(* Of a time only the comparison with now matters.  due[d] says that       *)
(* NextExecuteTime of d has come; CalculateNextRun always finds a time     *)
(* after now, so it makes due[d] false.  Pools are started once and not    *)
(* stopped here (WorkPool does that), and every item can be loaded.        *)
(***************************************************************************)
EXTENDS Integers, Sequences, FiniteSets

CONSTANTS
  Singles,       \* definitions of type SingleRun
  Delayed,       \* those of them enqueued with runAfter
  Recurrents,    \* definitions of type RecurrentRun
  NoDef,         \* the null definition
  Pools,         \* the pools that share this storage
  PoolName,      \* Definition.Pool
  BufferLength,  \* PreProcessBufferLenght of each pool
  Callers,       \* threads that call Enqueue and Schedule
  IdBits         \* width of _workItemIdSequence

Definitions == Singles \cup Recurrents

ASSUME StorageAssumption ==
  /\ Singles \cap Recurrents = {}
  /\ NoDef \notin Definitions
  /\ Delayed \subseteq Singles
  /\ PoolName \in [Definitions -> Pools]
  /\ BufferLength \in Nat
  /\ IdBits \in Nat \ {0}

\* The provers know nothing of powers.
ASSUME PowersAssumption ==
  /\ 2^IdBits \in Nat \ {0}
  /\ 2^0 = 1
  /\ \A k \in 0 .. IdBits - 1 :
       2^k \in Nat \ {0} /\ 2^(k + 1) = 2 * 2^k /\ 2^(k + 1) <= 2^IdBits

VARIABLES
  sequence,    \* _workItemIdSequence
  ids,         \* Definition.Id
  queue,       \* _workItems
  schedules,   \* _schedules: no two of its definitions have the same id
  registered,  \* _directEnqueueCheckRegisteredWps
  status,      \* Definition.Status of the recurrent definitions
  due,         \* NextExecuteTime <= now
  owed,        \* history: an occurrence has come that no run has answered
  overtaken,   \* history: CheckSchedules has begun while a schedule was
               \*   still in the queue, or dequeued but not marked yet, or
               \*   it has enqueued a job whose failure is being dealt with
  buffer,      \* _preProcessBuffer of each pool
  unset,       \* the definitions nobody has passed to Set yet
  cpc, cdef,   \* where each caller is, and its definition
  cval,        \* the value its s++ has read
  ppc,         \* where each pool's manager thread is
  scan,        \* the schedules it has still to check
  found,       \* the definition in its hands
  room,        \* how many items PeekOrWait may still take
  peeked       \* what PeekOrWait has taken so far

idVars      == <<sequence, ids>>
callerVars  == <<unset, cpc, cdef, cval>>
managerVars == <<ppc, scan, found, room, peeked>>
timeVars    == <<due, owed, overtaken>>
(* What SetStep leaves alone until the definition has its id, and what a    *)
(* manager leaves alone.                                                   *)
poolSide   == <<queue, schedules, registered, status, timeVars, buffer,
                managerVars>>
callerSide == <<idVars, schedules, timeVars, callerVars>>
storageVars == <<idVars, queue, schedules, registered, status, timeVars,
                 buffer, callerVars, managerVars>>

Status == {"WaitingProcess", "Enqueuing", "Enqueued", "Processing",
           "Completed", "Fail"}

CallerPC  == {"idle", "bump", "add", "take", "put", "direct", "store"}
ManagerPC == {"off", "idle", "lock", "scan", "enqueue", "peek", "mark",
              "fill"}

StorageTypeOK ==
  /\ sequence \in 0 .. 2^IdBits - 1
  /\ ids \in [Definitions -> 0 .. 2^IdBits - 1]
  /\ queue \in Seq(Definitions)
  /\ schedules \subseteq Recurrents
  /\ registered \subseteq Pools
  /\ status \in [Recurrents -> Status]
  /\ due \in [Definitions -> BOOLEAN]
  /\ owed \in [Recurrents -> BOOLEAN]
  /\ overtaken \in BOOLEAN
  /\ buffer \in [Pools -> Seq(Definitions)]
  /\ unset \subseteq Definitions
  /\ cpc \in [Callers -> CallerPC]
  /\ cdef \in [Callers -> Definitions \cup {NoDef}]
  /\ cval \in [Callers -> 0 .. 2^IdBits - 1]
  /\ ppc \in [Pools -> ManagerPC]
  /\ scan \in [Pools -> SUBSET Recurrents]
  /\ found \in [Pools -> Definitions \cup {NoDef}]
  /\ room \in [Pools -> Nat]
  /\ peeked \in [Pools -> Seq(Definitions)]

StorageInit ==
  /\ sequence = 0
  /\ ids = [d \in Definitions |-> 0]
  /\ queue = <<>>
  /\ schedules = {}
  /\ registered = {}
  /\ status = [d \in Recurrents |-> "WaitingProcess"]
  /\ due = [d \in Definitions |-> d \in Singles \ Delayed]
  /\ owed = [d \in Recurrents |-> FALSE]
  /\ overtaken = FALSE
  /\ buffer = [p \in Pools |-> <<>>]
  /\ unset = Definitions
  /\ cpc = [c \in Callers |-> "idle"]
  /\ cdef = [c \in Callers |-> NoDef]
  /\ cval = [c \in Callers |-> 0]
  /\ ppc = [p \in Pools |-> "off"]
  /\ scan = [p \in Pools |-> {}]
  /\ found = [p \in Pools |-> NoDef]
  /\ room = [p \in Pools |-> 0]
  /\ peeked = [p \in Pools |-> <<>>]

CallerTo(c, label) == cpc' = [cpc EXCEPT ![c] = label]
ManagerTo(p, label) == ppc' = [ppc EXCEPT ![p] = label]

BufferHasRoom(p) == Len(buffer[p]) < BufferLength
Buffered(p, d) == buffer' = [buffer EXCEPT ![p] = Append(@, d)]

-----------------------------------------------------------------------------
(* Time passes: the NextExecuteTime of a definition comes.                 *)
Occur(d) ==
  /\ due' = [due EXCEPT ![d] = TRUE]
  /\ owed' = [e \in Recurrents |-> e = d \/ owed[e]]
  /\ UNCHANGED <<idVars, queue, schedules, registered, status, overtaken,
                 buffer, callerVars, managerVars>>

-----------------------------------------------------------------------------
(* Set, called by Enqueue and Schedule.                                    *)

(* GetWorkItemId: Interlocked.Add(ref s, s++) reads s, writes it plus one, *)
(* adds the value read, and the return reads s again.                      *)
Wrap_Narrow(n) == n % 2^(IdBits - 1)    \* mutant: a narrower type
Wrap_Never(n) == n    \* mutant
Wrap(n) == n % 2^IdBits

SetCall(c) ==
  /\ cpc[c] = "idle"
  /\ \E d \in unset :
       /\ cdef' = [cdef EXCEPT ![c] = d]
       /\ unset' = unset \ {d}
  /\ cval' = [cval EXCEPT ![c] = sequence]
  /\ CallerTo(c, "bump")
  /\ UNCHANGED <<poolSide, idVars>>

SetBump(c) ==
  /\ cpc[c] = "bump"
  /\ sequence' = Wrap(cval[c] + 1)
  /\ CallerTo(c, "add")
  /\ UNCHANGED <<poolSide, ids, unset, cdef, cval>>

SetAdd(c) ==
  /\ cpc[c] = "add"
  /\ sequence' = Wrap(sequence + cval[c])
  /\ CallerTo(c, "take")
  /\ UNCHANGED <<poolSide, ids, unset, cdef, cval>>

SetTake(c) ==
  /\ cpc[c] = "take"
  /\ ids' = [ids EXCEPT ![cdef[c]] = sequence]
  /\ CallerTo(c, "put")
  /\ UNCHANGED <<poolSide, sequence, unset, cdef, cval>>

SetReturns(c) ==
  /\ CallerTo(c, "idle")
  /\ cdef' = [cdef EXCEPT ![c] = NoDef]
  /\ cval' = [cval EXCEPT ![c] = 0]
  /\ UNCHANGED unset

(* TryAdd says nothing when the id is taken, and nobody asks.              *)
SetSchedule(c) ==
  LET d == cdef[c] IN
  /\ cpc[c] = "put"
  /\ d \in Recurrents
  /\ schedules' = IF \E e \in schedules : ids[e] = ids[d]
                    THEN schedules ELSE schedules \cup {d}
  /\ SetReturns(c)
  /\ UNCHANGED <<idVars, queue, registered, status, timeVars, buffer,
                 managerVars>>

(* DoItemAddedToStorage and the test of CanEnqueueDirect.                  *)
SetCheck(c) ==
  LET p == PoolName[cdef[c]] IN
  /\ cpc[c] = "put"
  /\ cdef[c] \in Singles
  /\ CallerTo(c, IF p \in registered /\ BufferHasRoom(p) THEN "direct"
                                                         ELSE "store")
  /\ UNCHANGED <<poolSide, idVars, unset, cdef, cval>>

SetDirect(c) ==
  /\ cpc[c] = "direct"
  /\ Buffered(PoolName[cdef[c]], cdef[c])
  /\ SetReturns(c)
  /\ UNCHANGED <<idVars, queue, schedules, registered, status, timeVars,
                 managerVars>>

SetStore(c) ==
  /\ cpc[c] = "store"
  /\ queue' = Append(queue, cdef[c])
  /\ SetReturns(c)
  /\ UNCHANGED <<idVars, schedules, registered, status, timeVars, buffer,
                 managerVars>>

SetStep(c) == SetBump(c) \/ SetAdd(c) \/ SetTake(c) \/ SetSchedule(c)
              \/ SetCheck(c) \/ SetDirect(c) \/ SetStore(c)

-----------------------------------------------------------------------------
(* A pool starts, and its manager thread calls PeekOrWait.                 *)

Start(p) ==
  /\ ppc[p] = "off"
  /\ registered' = registered \cup {p}
  /\ ManagerTo(p, "idle")
  /\ UNCHANGED <<callerSide, queue, status, buffer, scan, found, room,
                 peeked>>

(* The two reads of the buffer's length are one here (see WorkPool).       *)
PeekCall(p) ==
  /\ ppc[p] = "idle"
  /\ BufferHasRoom(p)
  /\ room' = [room EXCEPT ![p] = BufferLength - Len(buffer[p]) + 1]
  /\ ManagerTo(p, "lock")
  /\ UNCHANGED <<callerSide, queue, registered, status, buffer, scan, found,
                 peeked>>

(* On its way, with a status that does not say so yet.                     *)
Unmarked(d) ==
  (\E k \in DOMAIN queue : queue[k] = d) \/ (\E p \in Pools : found[p] = d)

(* CheckSchedules holds _scheduleLock from "scan" on; it walks over a copy *)
(* of the schedules.  Nobody else takes the lock.  The code reads the      *)
(* clock once, here; the model at each check, so a time that comes in      *)
(* between may count.                                                      *)
LockSchedules(p) ==
  /\ ppc[p] = "lock"
  /\ \A q \in Pools : ppc[q] \notin {"scan", "enqueue"}
  /\ scan' = [scan EXCEPT ![p] = schedules]
  /\ ManagerTo(p, "scan")
  /\ overtaken' = (overtaken \/ \E d \in Recurrents : Unmarked(d))
  /\ UNCHANGED <<idVars, schedules, due, owed, callerVars, queue, registered,
                 status, buffer, found, room, peeked>>

IsDue_AnyStatus(d) == due[d]    \* mutant
IsDue(d) == status[d] = "WaitingProcess" /\ due[d]

CheckSchedule(p) ==
  /\ ppc[p] = "scan"
  /\ \E d \in scan[p] :
       /\ scan' = [scan EXCEPT ![p] = @ \ {d}]
       /\ IF IsDue(d)
            THEN found' = [found EXCEPT ![p] = d] /\ ManagerTo(p, "enqueue")
            ELSE UNCHANGED <<found, ppc>>
  /\ UNCHANGED <<callerSide, queue, registered, status, buffer, room,
                 peeked>>

(* The schedule goes into the queue with its status as it was.             *)
EnqueueSchedule(p) ==
  /\ ppc[p] = "enqueue"
  /\ queue' = Append(queue, found[p])
  /\ found' = [found EXCEPT ![p] = NoDef]
  /\ ManagerTo(p, "scan")
  /\ UNCHANGED <<callerSide, registered, status, buffer, scan, room,
                 peeked>>

UnlockSchedules(p) ==
  /\ ppc[p] = "scan"
  /\ scan[p] = {}
  /\ ManagerTo(p, "peek")
  /\ UNCHANGED <<callerSide, queue, registered, status, buffer, scan, found,
                 room, peeked>>

(* TryDequeue: neither the pool of the item nor its time is looked at.     *)
PeekItem(p) ==
  /\ ppc[p] = "peek"
  /\ room[p] > 0
  /\ queue # <<>>
  /\ queue' = Tail(queue)
  /\ found' = [found EXCEPT ![p] = Head(queue)]
  /\ ManagerTo(p, "mark")
  /\ UNCHANGED <<callerSide, registered, status, buffer, scan, room,
                 peeked>>

MarkEnqueued(p) ==
  /\ ppc[p] = "mark"
  /\ status' = [d \in Recurrents |->
                  IF d = found[p] THEN "Enqueued" ELSE status[d]]
  /\ peeked' = [peeked EXCEPT ![p] = Append(@, found[p])]
  /\ found' = [found EXCEPT ![p] = NoDef]
  /\ room' = [room EXCEPT ![p] = @ - 1]
  /\ ManagerTo(p, "peek")
  /\ UNCHANGED <<callerSide, queue, registered, buffer, scan>>

AfterPeek(rest) == IF rest = <<>> THEN "idle" ELSE "fill"

PeekReturns(p) ==
  /\ ppc[p] = "peek"
  /\ room[p] = 0 \/ queue = <<>>
  /\ room' = [room EXCEPT ![p] = 0]
  /\ ManagerTo(p, AfterPeek(peeked[p]))
  /\ UNCHANGED <<callerSide, queue, registered, status, buffer, scan, found,
                 peeked>>

FillBuffer(p) ==
  /\ ppc[p] = "fill"
  /\ Buffered(p, Head(peeked[p]))
  /\ peeked' = [peeked EXCEPT ![p] = Tail(@)]
  /\ ManagerTo(p, AfterPeek(Tail(peeked[p])))
  /\ UNCHANGED <<callerSide, queue, registered, status, scan, found, room>>

ManagerStep(p) == PeekCall(p) \/ LockSchedules(p) \/ CheckSchedule(p)
                  \/ EnqueueSchedule(p) \/ UnlockSchedules(p) \/ PeekItem(p)
                  \/ MarkEnqueued(p) \/ PeekReturns(p) \/ FillBuffer(p)
=============================================================================
