----------------------------- MODULE WorkServer -----------------------------
(***************************************************************************)
(* The life of the server: calls of StartAsync and StopAsync that overlap, *)
(* the delay of a start, the pools and their filters, the cancellation     *)
(* source, the task that launches the management thread, and that thread.  *)
(* StopAsync of a pool is taken to return; WorkPool says when it does not. *)
(***************************************************************************)
EXTENDS Integers, FiniteSets

CONSTANTS
    Starters,       \* calls of StartAsync
    Stoppers,       \* calls of StopAsync
    PoolCount,      \* the pools are 1 .. PoolCount, in the order of the list
    DelayedStart    \* WorkServerOptions.DelayedStart

ASSUME ServerAssumption ==
    /\ IsFiniteSet(Starters)
    /\ Starters \cap Stoppers = {}
    /\ PoolCount \in Nat \ {0}
    /\ DelayedStart \in BOOLEAN

VARIABLES
    status,         \* WorkServer.Status
    call,           \* where each call is
    poolStatus,     \* WorkPool.Status of each pool
    filters,        \* how often each pool is in the list of job filters
    pool,           \* the pool each call is about to start or stop
    sources,        \* cancellation sources created; the field holds the last
    cancelled,      \* those that have been cancelled
    pending,        \* the tasks that are to launch the management thread
    thread,         \* the management thread: its ThreadState
    token,          \* the source whose token it was given
    crossed         \* history: a start and another call were under way together

poolVars == <<poolStatus, filters, pool>>
threadVars == <<sources, cancelled, pending, thread, token>>
vars == <<status, call, crossed, poolVars, threadVars>>

Calls == Starters \cup Stoppers
Pools == 1 .. PoolCount

ServerStatus == {"Terminated", "Active", "WaitingStop", "Stopped"}
PoolStatus == {"Active", "WaitingStop", "Stopped"}
ThreadState == {"unstarted", "waiting", "updating", "ended"}

Starting == {"startPool", "activate", "addFilter", "newSource", "setActive"}
Stopping == {"setWaiting", "stopPool", "poolStops", "cancel", "join", "setStopped"}

Goto(c, place) ==
    /\ call' = [call EXCEPT ![c] = place]
    /\ crossed' = (crossed \/ \E s \in Starters : \E d \in Calls \ {s} :
                                 call'[s] \in Starting /\ call'[d] \in Starting \cup Stopping)

\* mutant: a loop that goes one too far
NextPool_OneTooFar(c, body, after) ==
    IF pool[c] <= PoolCount
    THEN pool' = [pool EXCEPT ![c] = @ + 1] /\ Goto(c, body)
    ELSE UNCHANGED pool /\ Goto(c, after)

\* The loop over the pools.
NextPool(c, body, after) ==
    IF pool[c] < PoolCount
    THEN pool' = [pool EXCEPT ![c] = @ + 1] /\ Goto(c, body)
    ELSE UNCHANGED pool /\ Goto(c, after)

Init ==
    /\ status = "Terminated"
    /\ call = [c \in Calls |-> "ready"]
    /\ poolStatus = [p \in Pools |-> "Stopped"]
    /\ filters = [p \in Pools |-> 0]
    /\ pool = [c \in Calls |-> 1]
    /\ sources = 0
    /\ cancelled = {}
    /\ pending = {}
    /\ thread = "unstarted"
    /\ token = 0
    /\ crossed = FALSE

-----------------------------------------------------------------------------
(* StartAsync *)

\* The status does not tell that another start is waiting for its delay.
StartAsync(c) ==
    /\ call[c] = "ready"
    /\ Goto(c, IF status = "Active" THEN "refused"
               ELSE IF DelayedStart THEN "delay" ELSE "startPool")
    /\ UNCHANGED <<status, poolVars, threadVars>>

\* Nothing is looked at again when the delay is over.
AfterDelay_UnlessStopped == IF status = "Stopped" THEN "refused" ELSE "startPool"    \* mutant
AfterDelay == "startPool"

DelayOver(c) ==
    /\ call[c] = "delay"
    /\ Goto(c, AfterDelay)
    /\ UNCHANGED <<status, poolVars, threadVars>>

\* WorkPool.StartAsync, which has no await before it is done.
NeedsStart_Always(p) == TRUE    \* mutant
NeedsStart(p) == poolStatus[p] # "Active"

StartPool(c) ==
    /\ call[c] = "startPool"
    /\ IF NeedsStart(pool[c])
       THEN UNCHANGED pool /\ Goto(c, "activate")
       ELSE NextPool(c, "startPool", "newSource")
    /\ UNCHANGED <<status, poolStatus, filters, threadVars>>

Activate(c) ==
    /\ call[c] = "activate"
    /\ poolStatus' = [poolStatus EXCEPT ![pool[c]] = "Active"]
    /\ Goto(c, "addFilter")
    /\ UNCHANGED <<status, filters, pool, threadVars>>

\* The list keeps a filter as often as it is added.
AddFilter(c) ==
    /\ call[c] = "addFilter"
    /\ filters' = [filters EXCEPT ![pool[c]] = @ + 1]
    /\ NextPool(c, "startPool", "newSource")
    /\ UNCHANGED <<status, poolStatus, threadVars>>

NewSource(c) ==
    /\ call[c] = "newSource"
    /\ sources' = sources + 1
    /\ pending' = pending \cup {c}
    /\ Goto(c, "setActive")
    /\ UNCHANGED <<status, poolVars, cancelled, thread, token>>

SetActive(c) ==
    /\ call[c] = "setActive"
    /\ status' = "Active"
    /\ Goto(c, "update")
    /\ UNCHANGED <<poolVars, threadVars>>

\* The token is read when the task runs.  A thread cannot be started twice: the
\* exception is lost in the task.
Launch(c) ==
    /\ c \in pending
    /\ pending' = pending \ {c}
    /\ IF thread = "unstarted"
       THEN thread' = "waiting" /\ token' = sources
       ELSE UNCHANGED <<thread, token>>
    /\ UNCHANGED <<status, call, crossed, poolVars, sources, cancelled>>

-----------------------------------------------------------------------------
(* StopAsync *)

StopAsync(c) ==
    /\ call[c] = "ready"
    /\ Goto(c, IF status \in {"Stopped", "Terminated"} THEN "refused" ELSE "setWaiting")
    /\ UNCHANGED <<status, poolVars, threadVars>>

SetWaiting(c) ==
    /\ call[c] = "setWaiting"
    /\ status' = "WaitingStop"
    /\ Goto(c, "stopPool")
    /\ UNCHANGED <<poolVars, threadVars>>

\* WorkPool.StopAsync has no await before it is done: the pools are stopped one
\* after the other.
StopPool(c) ==
    /\ call[c] = "stopPool"
    /\ poolStatus' = [poolStatus EXCEPT ![pool[c]] = "WaitingStop"]
    /\ Goto(c, "poolStops")
    /\ UNCHANGED <<status, filters, pool, threadVars>>

\* One entry of the pool is removed, if there is one.
Removed(n) == IF n = 0 THEN 0 ELSE n - 1

PoolStops(c) ==
    /\ call[c] = "poolStops"
    /\ filters' = [filters EXCEPT ![pool[c]] = Removed(@)]
    /\ poolStatus' = [poolStatus EXCEPT ![pool[c]] = "Stopped"]
    /\ NextPool(c, "stopPool", "cancel")
    /\ UNCHANGED <<status, threadVars>>

\* In a task: the source is the one the field holds by then.
Cancelled_Nothing == cancelled    \* mutant
Cancelled == cancelled \cup {sources}

Cancel(c) ==
    /\ call[c] = "cancel"
    /\ cancelled' = Cancelled
    /\ Goto(c, "join")
    /\ UNCHANGED <<status, poolVars, sources, pending, thread, token>>

\* Join of a thread that has not been started throws, and with it StopAsync.
Join(c) ==
    /\ call[c] = "join"
    /\ \/ thread = "ended" /\ Goto(c, "setStopped")
       \/ thread = "unstarted" /\ Goto(c, "failed")
    /\ UNCHANGED <<status, poolVars, threadVars>>

SetStopped(c) ==
    /\ call[c] = "setStopped"
    /\ status' = "Stopped"
    /\ Goto(c, "update")
    /\ UNCHANGED <<poolVars, threadVars>>

\* UpdateMetrics, the end of both calls; what it does is in ServerMetrics.
UpdateMetrics(c) ==
    /\ call[c] = "update"
    /\ Goto(c, "done")
    /\ UNCHANGED <<status, poolVars, threadVars>>

-----------------------------------------------------------------------------
(* ManagementThread *)

ManagementThread ==
    /\ \/ /\ thread = "waiting"
          /\ thread' = IF token \in cancelled THEN "ended" ELSE "updating"
       \/ /\ thread = "updating"
          /\ thread' = "waiting"
    /\ UNCHANGED <<status, call, crossed, poolVars, sources, cancelled, pending, token>>

StartStep(c) ==
    \/ DelayOver(c) \/ StartPool(c) \/ Activate(c) \/ AddFilter(c)
    \/ NewSource(c) \/ SetActive(c) \/ UpdateMetrics(c)

StopStep(c) ==
    \/ SetWaiting(c) \/ StopPool(c) \/ PoolStops(c) \/ Cancel(c) \/ Join(c)
    \/ SetStopped(c) \/ UpdateMetrics(c)

Next ==
    \/ \E c \in Starters : StartAsync(c) \/ StartStep(c) \/ Launch(c)
    \/ \E c \in Stoppers : StopAsync(c) \/ StopStep(c)
    \/ ManagementThread

Spec == Init /\ [][Next]_vars

\* Tasks and threads that can go on do; nobody has to call.
FairSpec ==
    /\ Spec
    /\ \A c \in Starters : WF_vars(StartStep(c)) /\ WF_vars(Launch(c))
    /\ \A c \in Stoppers : WF_vars(StopStep(c))
    /\ WF_vars(ManagementThread)

-----------------------------------------------------------------------------
(* Properties *)

\* Every variable is of its type.
TypeOK ==
    /\ status \in ServerStatus
    /\ call \in [Calls -> Starting \cup Stopping
                          \cup {"ready", "delay", "update", "done", "refused", "failed"}]
    /\ poolStatus \in [Pools -> PoolStatus]
    /\ filters \in [Pools -> Nat]
    /\ pool \in [Calls -> Pools]
    /\ sources \in Nat
    /\ cancelled \subseteq 0 .. sources
    /\ pending \subseteq Starters
    /\ thread \in ThreadState
    /\ token \in 0 .. sources
    /\ crossed \in BOOLEAN

Quiet == \A c \in Calls : call[c] \notin Starting \cup Stopping

Serving(p) == poolStatus[p] = "Active" /\ filters[p] = 1
AtRest(p) == poolStatus[p] = "Stopped" /\ filters[p] = 0

\* Whatever calls came before, once nobody starts or stops the server its status
\* tells what its pools do, whose filters are in the list once or not at all,
\* and what the management thread does.  Two exceptions: a start that overlapped
\* with another call, and a server that was started more than once, whose
\* management thread may be gone.  A stop that failed, because the thread had
\* not been launched, leaves WaitingStop.
StatusTells ==
    Quiet /\ ~crossed =>
        /\ status = "Terminated" =>
              /\ sources = 0 /\ thread = "unstarted"
              /\ \A p \in Pools : AtRest(p)
        /\ status = "Active" =>
              /\ \A p \in Pools : Serving(p)
              /\ sources = 1 /\ pending = {} => thread \in {"waiting", "updating"}
        /\ status = "WaitingStop" =>
              /\ \E c \in Stoppers : call[c] = "failed"
              /\ \A p \in Pools : AtRest(p)
        /\ status = "Stopped" =>
              /\ thread = "ended"
              /\ \A p \in Pools : AtRest(p)

\* The management thread runs on one of several tokens, whose source nobody has
\* cancelled.
Uncancelled ==
    sources > 1 /\ thread \in {"waiting", "updating"} /\ token \notin cancelled

\* StopAsync returns or fails, unless starts and stops crossed so that the
\* management thread was given the token of a source that was created after the
\* one that is cancelled, or before it: then the join waits.
StopReturnsUnlessUncancelled ==
    \A c \in Stoppers :
        call[c] = "stopPool" ~>
            \/ call[c] \in {"done", "failed"}
            \/ call[c] = "join" /\ Uncancelled

\* A start that waits for its delay makes the server Active, whatever StopAsync
\* is called meanwhile.
DelayedStartHappens ==
    \A c \in Starters : call[c] = "delay" ~> status = "Active"
=============================================================================
