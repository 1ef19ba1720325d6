-------------------------- MODULE WorkServerProofs --------------------------
(***************************************************************************)
(* Proofs about WorkServer, for any finite number of calls and any number  *)
(* of pools, with and without the delay.                                   *)
(***************************************************************************)
EXTENDS WorkServer, TLAPS

(* Where the sources, the tasks and the thread come from, crossed or not. *)
LaunchInv ==
  /\ status # "Terminated" => sources > 0
  /\ \A s \in Starters : call[s] = "setActive" => sources > 0
  /\ pending # {} => sources > 0
  /\ thread # "unstarted" => sources > 0
  /\ \A d \in Stoppers : call[d] \in Stopping => status # "Terminated"
  /\ status = "Terminated" /\ sources > 0 => \E s \in Starters : call[s] = "setActive"
  /\ sources > 0 /\ thread = "unstarted" => pending # {}
  /\ thread = "ended" => token \in cancelled
  /\ status = "Stopped" => thread = "ended"
  /\ \A d \in Stoppers : call[d] = "setStopped" => thread = "ended"
  /\ status = "WaitingStop" => \E d \in Stoppers : call[d] \in Stopping \cup {"failed"}
  /\ sources = 0 => cancelled = {}

Alone ==
  \A s \in Starters : \A d \in Calls \ {s} :
     call[s] \in Starting => call[d] \notin Starting \cup Stopping

(* How far each call has come with the pools. *)
StartersInv ==
  \A s \in Starters :
    /\ call[s] \in {"ready", "delay"} => pool[s] = 1
    /\ call[s] \in {"startPool", "activate", "addFilter"} =>
          \A p \in 1 .. pool[s] - 1 : Serving(p)
    /\ call[s] = "activate" => poolStatus[pool[s]] # "Active"
    /\ call[s] = "addFilter" => poolStatus[pool[s]] = "Active" /\ filters[pool[s]] = 0
    /\ call[s] \in {"newSource", "setActive"} => \A p \in Pools : Serving(p)

StoppersInv ==
  \A d \in Stoppers :
    /\ call[d] \in {"ready", "setWaiting"} => pool[d] = 1
    /\ call[d] \in {"stopPool", "poolStops"} =>
          \A p \in 1 .. pool[d] - 1 : poolStatus[p] # "Active"
    /\ call[d] = "poolStops" => poolStatus[pool[d]] # "Active"
    /\ call[d] \in {"cancel", "join", "setStopped"} => \A p \in Pools : poolStatus[p] # "Active"

PoolsInv ==
  \A p \in Pools :
    \/ Serving(p)
    \/ AtRest(p)
    \/ /\ poolStatus[p] = "WaitingStop" /\ filters[p] \in {0, 1}
       /\ \E d \in Stoppers : call[d] = "poolStops" /\ pool[d] = p
    \/ /\ poolStatus[p] = "Active" /\ filters[p] = 0
       /\ \E s \in Starters : call[s] = "addFilter" /\ pool[s] = p

(* What the status says while calls are under way. *)
StatusInv ==
  /\ status = "Active" => \A d \in Stoppers : call[d] \notin Stopping \ {"setWaiting"}
  /\ status = "Active" => \A p \in Pools : Serving(p)
  /\ status = "Active" /\ sources = 1 => cancelled = {}
  /\ \A s \in Starters : call[s] = "setActive" /\ sources = 1 => cancelled = {}
  /\ status = "Terminated" /\ (\A s \in Starters : call[s] \notin Starting) =>
        \A p \in Pools : AtRest(p)
  /\ /\ status \in {"WaitingStop", "Stopped"}
     /\ \A s \in Starters : call[s] \notin Starting
     /\ \A d \in Stoppers : call[d] \notin {"stopPool", "poolStops"}
     => \A p \in Pools : poolStatus[p] # "Active"

CalmInv == Alone /\ StartersInv /\ StoppersInv /\ PoolsInv /\ StatusInv
Inv == TypeOK /\ LaunchInv /\ (~crossed => CalmInv)

-----------------------------------------------------------------------------
(* Types *)

LEMMA GotoTyped ==
  ASSUME TypeOK, NEW c \in Calls, NEW place, Goto(c, place),
         place \in Starting \cup Stopping
                   \cup {"ready", "delay", "update", "done", "refused", "failed"}
  PROVE  /\ call' \in [Calls -> Starting \cup Stopping
                          \cup {"ready", "delay", "update", "done", "refused", "failed"}]
         /\ crossed' \in BOOLEAN
  BY DEF TypeOK, Goto

LEMMA NextPoolTyped ==
  ASSUME TypeOK, NEW c \in Calls, NEW body, NEW after, NextPool(c, body, after),
         body \in Starting \cup Stopping, after \in Starting \cup Stopping
  PROVE  /\ pool' \in [Calls -> Pools]
         /\ call' \in [Calls -> Starting \cup Stopping
                          \cup {"ready", "delay", "update", "done", "refused", "failed"}]
         /\ crossed' \in BOOLEAN
<1>1. CASE pool[c] < PoolCount
  <2>1. Goto(c, body) /\ pool' = [pool EXCEPT ![c] = @ + 1]
    BY <1>1 DEF NextPool
  <2>2. pool[c] + 1 \in Pools
    BY <1>1, ServerAssumption DEF TypeOK, Pools
  <2>3. QED
    BY <2>1, <2>2, GotoTyped DEF TypeOK
<1>2. CASE ~(pool[c] < PoolCount)
  BY <1>2, GotoTyped DEF NextPool, TypeOK
<1>3. QED
  BY <1>1, <1>2

LEMMA StarterTyped ==
  ASSUME TypeOK, NEW c \in Starters, StartAsync(c) \/ StartStep(c) \/ Launch(c)
  PROVE  TypeOK'
<1> c \in Calls
  BY DEF Calls
<1> USE DEF poolVars, threadVars, Starting, Stopping
<1>1. CASE StartAsync(c)
  BY <1>1, GotoTyped DEF StartAsync, TypeOK
<1>2. CASE DelayOver(c)
  BY <1>2, GotoTyped DEF DelayOver, AfterDelay, TypeOK
<1>3. CASE StartPool(c)
  <2>1. CASE NeedsStart(pool[c])
    BY <1>3, <2>1, GotoTyped DEF StartPool, TypeOK
  <2>2. CASE ~NeedsStart(pool[c])
    <3>1. NextPool(c, "startPool", "newSource")
      BY <1>3, <2>2 DEF StartPool
    <3>2. QED
      BY <1>3, <3>1, NextPoolTyped DEF StartPool, TypeOK
  <2>3. QED
    BY <2>1, <2>2
<1>4. CASE Activate(c)
  BY <1>4, GotoTyped DEF Activate, TypeOK, PoolStatus
<1>5. CASE AddFilter(c)
  <2>1. filters' \in [Pools -> Nat]
    BY <1>5 DEF AddFilter, TypeOK
  <2>2. QED
    BY <1>5, <2>1, NextPoolTyped DEF AddFilter, TypeOK
<1>6. CASE NewSource(c)
  BY <1>6, GotoTyped DEF NewSource, TypeOK
<1>7. CASE SetActive(c)
  BY <1>7, GotoTyped DEF SetActive, TypeOK, ServerStatus
<1>8. CASE UpdateMetrics(c)
  BY <1>8, GotoTyped DEF UpdateMetrics, TypeOK
<1>9. CASE Launch(c)
  BY <1>9 DEF Launch, TypeOK, ThreadState
<1>10. QED
  BY <1>1, <1>2, <1>3, <1>4, <1>5, <1>6, <1>7, <1>8, <1>9 DEF StartStep

LEMMA StopperTyped ==
  ASSUME TypeOK, NEW c \in Stoppers, StopAsync(c) \/ StopStep(c)
  PROVE  TypeOK'
<1> c \in Calls
  BY DEF Calls
<1> USE DEF poolVars, threadVars, Starting, Stopping
<1>1. CASE StopAsync(c)
  BY <1>1, GotoTyped DEF StopAsync, TypeOK
<1>1a. CASE SetWaiting(c)
  BY <1>1a, GotoTyped DEF SetWaiting, TypeOK, ServerStatus
<1>2. CASE StopPool(c)
  BY <1>2, GotoTyped DEF StopPool, TypeOK, PoolStatus
<1>3. CASE PoolStops(c)
  <2>1. \A n \in Nat : Removed(n) \in Nat
    BY DEF Removed
  <2>2. filters' \in [Pools -> Nat]
    BY <1>3, <2>1 DEF PoolStops, TypeOK
  <2>3. poolStatus' \in [Pools -> PoolStatus]
    BY <1>3 DEF PoolStops, TypeOK, PoolStatus
  <2>4. QED
    BY <1>3, <2>2, <2>3, NextPoolTyped DEF PoolStops, TypeOK
<1>4. CASE Cancel(c)
  BY <1>4, GotoTyped DEF Cancel, Cancelled, TypeOK
<1>5. CASE Join(c)
  BY <1>5, GotoTyped DEF Join, TypeOK
<1>6. CASE SetStopped(c)
  BY <1>6, GotoTyped DEF SetStopped, TypeOK, ServerStatus
<1>7. CASE UpdateMetrics(c)
  BY <1>7, GotoTyped DEF UpdateMetrics, TypeOK
<1>8. QED
  BY <1>1, <1>1a, <1>2, <1>3, <1>4, <1>5, <1>6, <1>7 DEF StopStep

LEMMA InitTyped == Init => TypeOK
<1> SUFFICES ASSUME Init PROVE TypeOK
  OBVIOUS
<1>1. 1 \in Pools
  BY ServerAssumption DEF Pools
<1>2. /\ sources \in Nat /\ cancelled \subseteq 0 .. sources /\ token \in 0 .. sources
      /\ pending \subseteq Starters
  BY DEF Init
<1>3. /\ status \in ServerStatus /\ thread \in ThreadState /\ crossed \in BOOLEAN
  BY DEF Init, ServerStatus, ThreadState
<1>4. /\ poolStatus \in [Pools -> PoolStatus] /\ filters \in [Pools -> Nat]
      /\ pool \in [Calls -> Pools]
  BY <1>1 DEF Init, PoolStatus
<1>5. call \in [Calls -> Starting \cup Stopping
                       \cup {"ready", "delay", "update", "done", "refused", "failed"}]
  BY DEF Init
<1>6. QED
  BY <1>2, <1>3, <1>4, <1>5 DEF TypeOK

LEMMA NextTyped == TypeOK /\ [Next]_vars => TypeOK'
<1> SUFFICES ASSUME TypeOK, [Next]_vars PROVE TypeOK'
  OBVIOUS
<1>1. CASE \E c \in Starters : StartAsync(c) \/ StartStep(c) \/ Launch(c)
  BY <1>1, StarterTyped
<1>2. CASE \E c \in Stoppers : StopAsync(c) \/ StopStep(c)
  BY <1>2, StopperTyped
<1>3. CASE ManagementThread
  BY <1>3 DEF ManagementThread, TypeOK, ThreadState, poolVars
<1>4. CASE UNCHANGED vars
  BY <1>4 DEF vars, poolVars, threadVars, TypeOK
<1>5. QED
  BY <1>1, <1>2, <1>3, <1>4 DEF Next

(* Every variable of the server keeps its type, whatever calls overlap.    *)
THEOREM ServerTypeCorrect == Spec => []TypeOK
  BY InitTyped, NextTyped, PTL DEF Spec

-----------------------------------------------------------------------------
(* Sources, tasks and the thread *)

LEMMA GotoKeeps ==
  ASSUME TypeOK, NEW c \in Calls, NEW place, Goto(c, place)
  PROVE  /\ call'[c] = place
         /\ \A d \in Calls \ {c} : call'[d] = call[d]
         /\ ~crossed' => ~crossed /\ Alone'
<1>1. call'[c] = place /\ \A d \in Calls \ {c} : call'[d] = call[d]
  BY DEF TypeOK, Goto
<1>2. ASSUME ~crossed' PROVE ~crossed /\ Alone'
  BY <1>2 DEF Goto, Alone, TypeOK
<1>3. QED
  BY <1>1, <1>2

LEMMA CallMoves ==
  ASSUME TypeOK, LaunchInv, NEW c \in Calls, NEW place, Goto(c, place),
         UNCHANGED <<status, threadVars>>,
         c \in Starters => place # "setActive" /\ call[c] # "setActive",
         c \in Stoppers =>
            /\ place \in Stopping => call[c] \in Stopping \/ status # "Terminated"
            /\ place = "setStopped" => thread = "ended"
            /\ call[c] \in Stopping \cup {"failed"} => place \in Stopping \cup {"failed"}
  PROVE  LaunchInv'
<1>1. call'[c] = place /\ \A d \in Calls \ {c} : call'[d] = call[d]
  BY GotoKeeps
<1>2. \A s \in Starters : s \in Calls /\ (call'[s] = "setActive" <=> call[s] = "setActive")
  BY <1>1 DEF Calls
<1>3. \A d \in Stoppers :
         /\ call'[d] \in Stopping => call[d] \in Stopping \/ status # "Terminated"
         /\ call'[d] = "setStopped" => thread = "ended"
         /\ call[d] \in Stopping \cup {"failed"} => call'[d] \in Stopping \cup {"failed"}
  BY <1>1 DEF Calls, LaunchInv
<1>4. QED
  BY <1>2, <1>3 DEF LaunchInv, threadVars

LEMMA StarterLaunches ==
  ASSUME TypeOK, LaunchInv, NEW c \in Starters,
         StartAsync(c) \/ StartStep(c) \/ Launch(c)
  PROVE  LaunchInv'
<1>0. /\ c \in Calls /\ c \notin Stoppers
      /\ \A d \in Stoppers : d \in Calls /\ d # c
      /\ \A s \in Starters : s \in Calls
  BY ServerAssumption DEF Calls
<1>1. CASE StartAsync(c)
  BY <1>0, <1>1, CallMoves DEF StartAsync
<1>2. CASE DelayOver(c)
  BY <1>0, <1>2, CallMoves DEF DelayOver, AfterDelay
<1>3. CASE StartPool(c)
  BY <1>0, <1>3, CallMoves DEF StartPool, NextPool
<1>4. CASE Activate(c)
  BY <1>0, <1>4, CallMoves DEF Activate
<1>5. CASE AddFilter(c)
  BY <1>0, <1>5, CallMoves DEF AddFilter, NextPool
<1>6. CASE NewSource(c)
  <2>1. /\ call'[c] = "setActive" /\ \A d \in Calls \ {c} : call'[d] = call[d]
        /\ sources' = sources + 1 /\ pending' = pending \cup {c}
        /\ UNCHANGED <<status, cancelled, thread, token>>
    BY <1>0, <1>6, GotoKeeps DEF NewSource
  <2>2. sources' > 0 /\ pending' # {}
    BY <2>1 DEF TypeOK
  <2>3. status' = "Terminated" => \E s \in Starters : call'[s] = "setActive"
    BY <2>1
  <2>4. \A d \in Stoppers : call'[d] = call[d]
    BY <1>0, <2>1
  <2>5. QED
    BY <2>1, <2>2, <2>3, <2>4 DEF LaunchInv, TypeOK
<1>7. CASE SetActive(c)
  <2>1. /\ call'[c] = "update" /\ \A d \in Calls \ {c} : call'[d] = call[d]
        /\ status' = "Active" /\ UNCHANGED threadVars
    BY <1>0, <1>7, GotoKeeps DEF SetActive
  <2>2. sources > 0
    BY <1>7 DEF SetActive, LaunchInv
  <2>3. \A d \in Stoppers : call'[d] = call[d]
    BY <1>0, <2>1
  <2>4. QED
    BY <2>1, <2>2, <2>3 DEF LaunchInv, threadVars
<1>8. CASE UpdateMetrics(c)
  BY <1>0, <1>8, CallMoves DEF UpdateMetrics
<1>9. CASE Launch(c)
  <2>1. UNCHANGED <<status, call, sources, cancelled>> /\ sources > 0
    BY <1>9 DEF Launch, LaunchInv
  <2>2. thread' # "unstarted"
    BY <1>9 DEF Launch
  <2>3. thread' = "ended" <=> thread = "ended"
    BY <1>9 DEF Launch
  <2>4. thread' = "ended" => token' = token
    BY <1>9 DEF Launch
  <2>5. QED
    BY <2>1, <2>2, <2>3, <2>4 DEF LaunchInv
<1>10. QED
  BY <1>1, <1>2, <1>3, <1>4, <1>5, <1>6, <1>7, <1>8, <1>9 DEF StartStep

LEMMA StopperLaunches ==
  ASSUME TypeOK, LaunchInv, NEW c \in Stoppers, StopAsync(c) \/ StopStep(c)
  PROVE  LaunchInv'
<1>0. /\ c \in Calls /\ c \notin Starters
      /\ \A s \in Starters : s \in Calls \ {c}
      /\ \A d \in Stoppers : d \in Calls
  BY ServerAssumption DEF Calls
<1> USE DEF Stopping
<1>1. CASE StopAsync(c)
  BY <1>0, <1>1, CallMoves DEF StopAsync
<1>1a. CASE SetWaiting(c)
  <2>1. /\ call'[c] = "stopPool" /\ \A d \in Calls \ {c} : call'[d] = call[d]
        /\ status' = "WaitingStop" /\ UNCHANGED threadVars
    BY <1>0, <1>1a, GotoKeeps DEF SetWaiting
  <2>2. status # "Terminated"
    BY <1>1a DEF SetWaiting, LaunchInv
  <2>3. \A s \in Starters : call'[s] = call[s]
    BY <1>0, <2>1
  <2>4. \A d \in Stoppers : call'[d] = "setStopped" => call[d] = "setStopped"
    BY <1>0, <2>1
  <2>5. \E d \in Stoppers : call'[d] \in Stopping \cup {"failed"}
    BY <2>1
  <2>6. QED
    BY <2>1, <2>2, <2>3, <2>4, <2>5 DEF LaunchInv, threadVars
<1>2. CASE StopPool(c)
  BY <1>0, <1>2, CallMoves DEF StopPool
<1>3. CASE PoolStops(c)
  BY <1>0, <1>3, CallMoves DEF PoolStops, NextPool
<1>4. CASE Cancel(c)
  <2>1. /\ call'[c] = "join" /\ \A d \in Calls \ {c} : call'[d] = call[d]
        /\ cancelled' = cancelled \cup {sources}
        /\ call[c] = "cancel"
        /\ UNCHANGED <<status, sources, pending, thread, token>>
    BY <1>0, <1>4, GotoKeeps DEF Cancel, Cancelled
  <2>2. sources > 0
    BY <2>1 DEF LaunchInv
  <2>3. \A s \in Starters : call'[s] = call[s]
    BY <1>0, <2>1
  <2>4. \A d \in Stoppers :
           /\ call'[d] \in Stopping => call[d] \in Stopping
           /\ call'[d] = "setStopped" => call[d] = "setStopped"
           /\ call[d] \in Stopping \cup {"failed"} => call'[d] \in Stopping \cup {"failed"}
    BY <1>0, <2>1
  <2>5. QED
    BY <2>1, <2>2, <2>3, <2>4 DEF LaunchInv
<1>5. CASE Join(c)
  BY <1>0, <1>5, CallMoves DEF Join
<1>6. CASE SetStopped(c)
  <2>1. /\ call'[c] = "update" /\ \A d \in Calls \ {c} : call'[d] = call[d]
        /\ call[c] = "setStopped" /\ status' = "Stopped" /\ UNCHANGED threadVars
    BY <1>0, <1>6, GotoKeeps DEF SetStopped
  <2>2. sources > 0 /\ thread = "ended"
    BY <2>1 DEF LaunchInv
  <2>3. \A s \in Starters : call'[s] = call[s]
    BY <1>0, <2>1
  <2>4. \A d \in Stoppers : call'[d] = "setStopped" => call[d] = "setStopped"
    BY <1>0, <2>1
  <2>5. QED
    BY <2>1, <2>2, <2>3, <2>4 DEF LaunchInv, threadVars
<1>7. CASE UpdateMetrics(c)
  BY <1>0, <1>7, CallMoves DEF UpdateMetrics
<1>8. QED
  BY <1>1, <1>1a, <1>2, <1>3, <1>4, <1>5, <1>6, <1>7 DEF StopStep

LEMMA ThreadLaunches ==
  ASSUME TypeOK, LaunchInv, ManagementThread
  PROVE  LaunchInv'
  BY DEF LaunchInv, ManagementThread, TypeOK, ThreadState

-----------------------------------------------------------------------------
(* Calls, pools and the status *)

LEMMA CalmKept ==
  ASSUME TypeOK, CalmInv, UNCHANGED <<status, call, poolVars, sources, cancelled>>
  PROVE  CalmInv'
  BY DEF CalmInv, Alone, StartersInv, StoppersInv, PoolsInv, StatusInv, poolVars,
         Serving, AtRest

(* A call that waits or ends leaves the invariant alone, a start that has  *)
(* yet to look at the first pool as well.                                  *)
LEMMA CalmMoves ==
  ASSUME TypeOK, CalmInv, NEW c \in Calls, NEW place, Goto(c, place), ~crossed',
         UNCHANGED <<status, poolVars, sources, cancelled>>,
         call[c] \in {"ready", "delay", "update"},
         place \in {"delay", "update", "done", "refused"} \/ (c \in Starters /\ place = "startPool"),
         c \in Stoppers => place # "delay",
         place = "delay" => call[c] = "ready",
         place = "startPool" => call[c] \in {"ready", "delay"}
  PROVE  CalmInv'
<1>1. /\ call'[c] = place /\ \A d \in Calls \ {c} : call'[d] = call[d]
      /\ Alone'
  BY GotoKeeps
<1>2. \A d \in Starters : d \in Calls
  BY DEF Calls
<1>3. \A d \in Stoppers : d \in Calls /\ d \notin Starters
  BY ServerAssumption DEF Calls
<1>4. \A p \in Pools : /\ Serving(p)' <=> Serving(p)
                       /\ AtRest(p)' <=> AtRest(p)
  BY DEF Serving, AtRest, poolVars
<1>5. StartersInv'
  <2> SUFFICES ASSUME NEW s \in Starters
               PROVE  /\ call'[s] \in {"ready", "delay"} => pool'[s] = 1
                      /\ call'[s] \in {"startPool", "activate", "addFilter"} =>
                            \A p \in 1 .. pool'[s] - 1 : Serving(p)'
                      /\ call'[s] = "activate" => poolStatus'[pool'[s]] # "Active"
                      /\ call'[s] = "addFilter" =>
                            poolStatus'[pool'[s]] = "Active" /\ filters'[pool'[s]] = 0
                      /\ call'[s] \in {"newSource", "setActive"} => \A p \in Pools : Serving(p)'
    BY DEF StartersInv
  <2>1. CASE s = c
    <3>1. CASE place = "startPool"
      <4>1. pool'[s] = 1
        BY <2>1, <3>1, <1>1, <1>2 DEF CalmInv, StartersInv, poolVars
      <4>2. QED
        BY <4>1, <3>1, <2>1, <1>1
    <3>2. CASE place # "startPool"
      BY <2>1, <3>2, <1>1, <1>2 DEF CalmInv, StartersInv, poolVars
    <3>3. QED
      BY <3>1, <3>2
  <2>2. CASE s # c
    BY <2>2, <1>1, <1>2, <1>4 DEF CalmInv, StartersInv, poolVars, Serving
  <2>3. QED
    BY <2>1, <2>2
<1>6. StoppersInv'
  BY <1>1, <1>3 DEF CalmInv, StoppersInv, poolVars
<1>7. PoolsInv'
  <2>1. \A d \in Stoppers : call'[d] = "poolStops" <=> call[d] = "poolStops"
    BY <1>1, <1>3
  <2>2. \A s \in Starters : call'[s] = "addFilter" <=> call[s] = "addFilter"
    BY <1>1, <1>2
  <2>3. QED
    BY <2>1, <2>2 DEF CalmInv, PoolsInv, poolVars, Serving, AtRest
<1>8. StatusInv'
  <2>1. \A d \in Stoppers : /\ call'[d] \in Stopping \ {"setWaiting"}
                                   <=> call[d] \in Stopping \ {"setWaiting"}
                            /\ call'[d] \in {"stopPool", "poolStops"}
                                   <=> call[d] \in {"stopPool", "poolStops"}
    BY <1>1, <1>3 DEF Stopping
  <2>2. \A s \in Starters : /\ call[s] \in Starting => call'[s] \in Starting
                            /\ call'[s] = "setActive" => call[s] = "setActive"
    BY <1>1, <1>2 DEF Starting
  <2>3. \A p \in Pools : poolStatus'[p] = poolStatus[p]
    BY DEF poolVars
  <2>4. QED
    BY <2>1, <2>2, <2>3, <1>4 DEF CalmInv, StatusInv
<1>9. QED
  BY <1>1, <1>5, <1>6, <1>7, <1>8 DEF CalmInv

(* A start that is under way, and has not overlapped with another call, is *)
(* alone.                                                                  *)
LEMMA OnlyStarter ==
  ASSUME TypeOK, CalmInv, NEW c \in Starters, call[c] \in Starting,
         NEW place, Goto(c, place), ~crossed',
         \A d \in Calls \ {c} : pool'[d] = pool[d]
  PROVE  /\ call'[c] = place
         /\ Alone'
         /\ \A d \in Stoppers : call'[d] \notin Stopping
         /\ \A s \in Starters \ {c} :
               /\ call'[s] \notin Starting
               /\ call'[s] \in {"ready", "delay"} => pool'[s] = 1
         /\ StoppersInv'
         /\ \A p \in Pools :
               \/ Serving(p)
               \/ AtRest(p)
               \/ call[c] = "addFilter" /\ pool[c] = p
<1>1. /\ c \in Calls /\ c \notin Stoppers
      /\ \A d \in Stoppers : d \in Calls \ {c}
      /\ \A s \in Starters \ {c} : s \in Calls \ {c}
  BY ServerAssumption DEF Calls
<1>2. /\ call'[c] = place /\ \A d \in Calls \ {c} : call'[d] = call[d]
      /\ Alone'
  BY <1>1, GotoKeeps
<1>3. \A d \in Calls \ {c} : call[d] \notin Starting \cup Stopping
  BY DEF CalmInv, Alone
<1>4. \A d \in Stoppers : call'[d] \notin Stopping /\ call'[d] = call[d] /\ pool'[d] = pool[d]
  BY <1>1, <1>2, <1>3
<1>5. StoppersInv'
  BY <1>4 DEF CalmInv, StoppersInv, Stopping
<1>6. \A s \in Starters \ {c} : /\ call'[s] \notin Starting
                                /\ call'[s] \in {"ready", "delay"} => pool'[s] = 1
  BY <1>1, <1>2, <1>3 DEF CalmInv, StartersInv
<1>7. \A p \in Pools :
         \/ Serving(p)
         \/ AtRest(p)
         \/ call[c] = "addFilter" /\ pool[c] = p
  <2>1. \A d \in Stoppers : call[d] # "poolStops"
    BY <1>1, <1>3 DEF Stopping
  <2>2. \A s \in Starters : call[s] = "addFilter" => s = c
    BY <1>1, <1>3 DEF Starting
  <2>3. QED
    BY <2>1, <2>2 DEF CalmInv, PoolsInv
<1>8. QED
  BY <1>2, <1>4, <1>5, <1>6, <1>7

(* What a start has seen to when it goes on to the next pool.              *)
LEMMA LoopServes ==
  ASSUME TypeOK, NEW c \in Starters, NextPool(c, "startPool", "newSource"),
         \A p \in 1 .. pool[c] : Serving(p)'
  PROVE  /\ call'[c] \in {"startPool", "newSource"}
         /\ call'[c] = "startPool" => \A p \in 1 .. pool'[c] - 1 : Serving(p)'
         /\ call'[c] = "newSource" => \A p \in Pools : Serving(p)'
         /\ \A d \in Calls \ {c} : pool'[d] = pool[d]
<1>1. c \in Calls /\ pool[c] \in Nat /\ PoolCount \in Nat /\ pool[c] <= PoolCount
  BY ServerAssumption DEF Calls, TypeOK, Pools
<1>2. CASE pool[c] < PoolCount
  <2>1. /\ Goto(c, "startPool")
        /\ pool' = [pool EXCEPT ![c] = @ + 1]
    BY <1>2 DEF NextPool
  <2>2. call'[c] = "startPool"
    BY <1>1, <2>1, GotoKeeps
  <2>3. pool'[c] - 1 = pool[c] /\ \A d \in Calls \ {c} : pool'[d] = pool[d]
    BY <1>1, <2>1 DEF TypeOK
  <2>4. QED
    BY <2>2, <2>3
<1>3. CASE ~(pool[c] < PoolCount)
  <2>1. Goto(c, "newSource") /\ pool' = pool
    BY <1>3 DEF NextPool
  <2>2. call'[c] = "newSource"
    BY <1>1, <2>1, GotoKeeps
  <2>3. pool[c] = PoolCount
    BY <1>1, <1>3
  <2>4. QED
    BY <2>1, <2>2, <2>3 DEF Pools
<1>4. QED
  BY <1>2, <1>3

(* A step of a start that is alone, from what it does to the pools.        *)
LEMMA StarterGoesOn ==
  ASSUME TypeOK, CalmInv, NEW c \in Starters, call[c] \in Starting,
         NEW place, Goto(c, place), ~crossed',
         \A d \in Calls \ {c} : pool'[d] = pool[d],
         UNCHANGED <<status, sources, cancelled>>,
         place \in Starting \ {"setActive"},
         place \in {"startPool", "activate", "addFilter"} =>
            \A p \in 1 .. pool'[c] - 1 : Serving(p)',
         place = "activate" => poolStatus'[pool'[c]] # "Active",
         place = "addFilter" => poolStatus'[pool'[c]] = "Active" /\ filters'[pool'[c]] = 0,
         place = "newSource" => \A p \in Pools : Serving(p)',
         \A p \in Pools : \/ Serving(p)'
                          \/ AtRest(p)'
                          \/ place = "addFilter" /\ pool'[c] = p,
         status = "Active" => \A p \in Pools : Serving(p)'
  PROVE  CalmInv'
<1>1. /\ call'[c] = place
      /\ Alone'
      /\ \A d \in Stoppers : call'[d] \notin Stopping
      /\ \A s \in Starters \ {c} :
            /\ call'[s] \notin Starting
            /\ call'[s] \in {"ready", "delay"} => pool'[s] = 1
      /\ StoppersInv'
  BY OnlyStarter
<1>2. StartersInv'
  BY <1>1 DEF StartersInv, Starting
<1>3. PoolsInv'
  BY <1>1 DEF PoolsInv, Serving, AtRest
<1>4. StatusInv'
  BY <1>1 DEF StatusInv, CalmInv, Starting
<1>5. QED
  BY <1>1, <1>2, <1>3, <1>4 DEF CalmInv

LEMMA StarterCalm ==
  ASSUME TypeOK, LaunchInv, CalmInv, NEW c \in Starters, ~crossed',
         StartAsync(c) \/ StartStep(c) \/ Launch(c)
  PROVE  CalmInv'
<1>0. c \in Calls /\ c \notin Stoppers /\ pool[c] \in Pools /\ pool[c] \in Nat
  BY ServerAssumption DEF Calls, TypeOK, Pools
<1>1. CASE StartAsync(c)
  BY <1>0, <1>1, CalmMoves DEF StartAsync, threadVars
<1>2. CASE DelayOver(c)
  BY <1>0, <1>2, CalmMoves DEF DelayOver, AfterDelay, threadVars
<1>3. CASE StartPool(c)
  <2>0. /\ call[c] \in Starting /\ call[c] = "startPool"
        /\ UNCHANGED <<status, poolStatus, filters, sources, cancelled>>
    BY <1>3 DEF StartPool, Starting, threadVars
  <2>1. \A p \in 1 .. pool[c] - 1 : Serving(p)'
    BY <2>0 DEF CalmInv, StartersInv, Serving
  <2>2. status = "Active" => \A p \in Pools : Serving(p)'
    BY <2>0 DEF CalmInv, StatusInv, Serving
  <2>3. CASE NeedsStart(pool[c])
    <3>1. Goto(c, "activate") /\ pool' = pool /\ poolStatus[pool[c]] # "Active"
      BY <1>3, <2>3 DEF StartPool, NeedsStart
    <3>2. \A p \in Pools : Serving(p) \/ AtRest(p) \/ (call[c] = "addFilter" /\ pool[c] = p)
      BY <2>0, <3>1, OnlyStarter
    <3>3. \A p \in Pools : Serving(p)' \/ AtRest(p)'
      BY <2>0, <3>2 DEF Serving, AtRest
    <3>4. QED
      BY <2>0, <2>1, <2>2, <3>1, <3>3, StarterGoesOn DEF Starting
  <2>4. CASE ~NeedsStart(pool[c])
    <3>1. NextPool(c, "startPool", "newSource") /\ poolStatus[pool[c]] = "Active"
      BY <1>3, <2>4 DEF StartPool, NeedsStart
    <3>2. PICK place \in {"startPool", "newSource"} : Goto(c, place)
      BY <3>1 DEF NextPool
    <3>3. \A d \in Calls \ {c} : pool'[d] = pool[d]
      BY <3>1 DEF NextPool, TypeOK
    <3>4. \A p \in Pools : Serving(p) \/ AtRest(p) \/ (call[c] = "addFilter" /\ pool[c] = p)
      BY <2>0, <3>2, <3>3, OnlyStarter
    <3>5. \A p \in Pools : Serving(p)' \/ AtRest(p)'
      BY <2>0, <3>4 DEF Serving, AtRest
    <3>6. \A p \in 1 .. pool[c] : Serving(p)'
      <4>1. Serving(pool[c])
        BY <1>0, <2>0, <3>1, <3>4 DEF AtRest
      <4>2. poolStatus'[pool[c]] = "Active" /\ filters'[pool[c]] = 1
        BY <2>0, <4>1 DEF Serving
      <4>3. QED
        BY <1>0, <2>1, <4>2 DEF Serving
    <3>7. call'[c] = place
      BY <1>0, <3>2, GotoKeeps
    <3>8. /\ place = "startPool" => \A p \in 1 .. pool'[c] - 1 : Serving(p)'
          /\ place = "newSource" => \A p \in Pools : Serving(p)'
      BY <3>1, <3>6, <3>7, LoopServes
    <3>9. QED
      BY <2>0, <2>2, <3>2, <3>3, <3>5, <3>8, StarterGoesOn DEF Starting
  <2>5. QED
    BY <2>3, <2>4
<1>4. CASE Activate(c)
  <2>0. /\ call[c] \in Starting /\ call[c] = "activate"
        /\ poolStatus' = [poolStatus EXCEPT ![pool[c]] = "Active"]
        /\ Goto(c, "addFilter")
        /\ UNCHANGED <<status, filters, pool, sources, cancelled>>
    BY <1>4 DEF Activate, Starting, threadVars
  <2>1. \A p \in Pools : Serving(p) \/ AtRest(p) \/ (call[c] = "addFilter" /\ pool[c] = p)
    BY <2>0, OnlyStarter
  <2>2. AtRest(pool[c])
    BY <1>0, <2>0, <2>1 DEF CalmInv, StartersInv, Serving
  <2>3. poolStatus'[pool'[c]] = "Active" /\ filters'[pool'[c]] = 0
    BY <1>0, <2>0, <2>2 DEF AtRest, TypeOK
  <2>4. \A p \in Pools \ {pool[c]} : poolStatus'[p] = poolStatus[p]
    BY <2>0 DEF TypeOK
  <2>5. \A p \in 1 .. pool'[c] - 1 : Serving(p)'
    <3>1. \A p \in 1 .. pool[c] - 1 : Serving(p) /\ p \in Pools \ {pool[c]}
      BY <1>0, <2>0, ServerAssumption DEF CalmInv, StartersInv, Pools
    <3>2. QED
      BY <2>0, <2>4, <3>1 DEF Serving
  <2>6. \A p \in Pools : Serving(p)' \/ AtRest(p)' \/ pool'[c] = p
    BY <2>0, <2>1, <2>4 DEF Serving, AtRest
  <2>7. status # "Active"
    BY <1>0, <2>2 DEF CalmInv, StatusInv, Serving, AtRest
  <2>8. QED
    BY <2>0, <2>3, <2>5, <2>6, <2>7, StarterGoesOn DEF Starting
<1>5. CASE AddFilter(c)
  <2>0. /\ call[c] \in Starting /\ call[c] = "addFilter"
        /\ filters' = [filters EXCEPT ![pool[c]] = @ + 1]
        /\ NextPool(c, "startPool", "newSource")
        /\ UNCHANGED <<status, poolStatus, sources, cancelled>>
    BY <1>5 DEF AddFilter, Starting, threadVars
  <2>1. PICK place \in {"startPool", "newSource"} : Goto(c, place)
    BY <2>0 DEF NextPool
  <2>2. \A d \in Calls \ {c} : pool'[d] = pool[d]
    BY <2>0 DEF NextPool, TypeOK
  <2>3. \A p \in Pools : Serving(p) \/ AtRest(p) \/ (call[c] = "addFilter" /\ pool[c] = p)
    BY <2>0, <2>1, <2>2, OnlyStarter
  <2>4. poolStatus[pool[c]] = "Active" /\ filters[pool[c]] = 0
    BY <2>0 DEF CalmInv, StartersInv
  <2>5. /\ poolStatus'[pool[c]] = "Active" /\ filters'[pool[c]] = 1
        /\ \A p \in Pools \ {pool[c]} : filters'[p] = filters[p] /\ poolStatus'[p] = poolStatus[p]
    BY <1>0, <2>0, <2>4 DEF TypeOK
  <2>6. \A p \in Pools : Serving(p)' \/ AtRest(p)'
    BY <2>3, <2>5 DEF Serving, AtRest
  <2>7. \A p \in 1 .. pool[c] : Serving(p)'
    <3>1. \A p \in 1 .. pool[c] - 1 : Serving(p) /\ p \in Pools \ {pool[c]}
      BY <1>0, <2>0, ServerAssumption DEF CalmInv, StartersInv, Pools
    <3>2. QED
      BY <1>0, <2>5, <3>1 DEF Serving
  <2>8. call'[c] = place
    BY <1>0, <2>1, GotoKeeps
  <2>9. /\ place = "startPool" => \A p \in 1 .. pool'[c] - 1 : Serving(p)'
        /\ place = "newSource" => \A p \in Pools : Serving(p)'
    BY <2>0, <2>7, <2>8, LoopServes
  <2>10. status # "Active"
    BY <1>0, <2>4 DEF CalmInv, StatusInv, Serving
  <2>11. QED
    BY <2>0, <2>1, <2>2, <2>6, <2>9, <2>10, StarterGoesOn DEF Starting
<1>6. CASE NewSource(c)
  <2>0. /\ call[c] \in Starting /\ call[c] = "newSource"
        /\ Goto(c, "setActive") /\ sources' = sources + 1
        /\ UNCHANGED <<status, poolStatus, filters, pool, cancelled>>
    BY <1>6 DEF NewSource, Starting, poolVars
  <2>1. /\ call'[c] = "setActive"
        /\ Alone'
        /\ \A d \in Stoppers : call'[d] \notin Stopping
        /\ \A s \in Starters \ {c} :
              /\ call'[s] \notin Starting
              /\ call'[s] \in {"ready", "delay"} => pool'[s] = 1
        /\ StoppersInv'
    BY <2>0, OnlyStarter
  <2>2. \A p \in Pools : Serving(p)'
    BY <2>0 DEF CalmInv, StartersInv, Serving
  <2>3. StartersInv'
    BY <2>1, <2>2 DEF StartersInv, Starting
  <2>4. PoolsInv'
    BY <2>2 DEF PoolsInv, Serving
  <2>5. sources' = 1 => sources = 0
    BY <2>0 DEF TypeOK
  <2>6. StatusInv'
    BY <2>0, <2>1, <2>2, <2>5 DEF StatusInv, Starting, LaunchInv
  <2>7. QED
    BY <2>1, <2>3, <2>4, <2>6 DEF CalmInv
<1>7. CASE SetActive(c)
  <2>0. /\ call[c] \in Starting /\ call[c] = "setActive"
        /\ Goto(c, "update") /\ status' = "Active"
        /\ UNCHANGED <<poolStatus, filters, pool, sources, cancelled>>
    BY <1>7 DEF SetActive, Starting, poolVars, threadVars
  <2>1. /\ call'[c] = "update"
        /\ Alone'
        /\ \A d \in Stoppers : call'[d] \notin Stopping
        /\ \A s \in Starters \ {c} :
              /\ call'[s] \notin Starting
              /\ call'[s] \in {"ready", "delay"} => pool'[s] = 1
        /\ StoppersInv'
    BY <2>0, OnlyStarter
  <2>2. \A p \in Pools : Serving(p)'
    BY <2>0 DEF CalmInv, StartersInv, Serving
  <2>3. StartersInv'
    BY <2>1 DEF StartersInv, Starting
  <2>4. PoolsInv'
    BY <2>2 DEF PoolsInv, Serving
  <2>5. sources = 1 => cancelled = {}
    BY <2>0 DEF CalmInv, StatusInv
  <2>6. StatusInv'
    BY <2>0, <2>1, <2>2, <2>5 DEF StatusInv, Starting
  <2>7. QED
    BY <2>1, <2>3, <2>4, <2>6 DEF CalmInv
<1>8. CASE UpdateMetrics(c)
  BY <1>0, <1>8, CalmMoves DEF UpdateMetrics, threadVars
<1>9. CASE Launch(c)
  BY <1>9, CalmKept DEF Launch
<1>10. QED
  BY <1>1, <1>2, <1>3, <1>4, <1>5, <1>6, <1>7, <1>8, <1>9 DEF StartStep

(* A step of a stop that has overlapped with no start, from what it does   *)
(* to the pools.                                                           *)
LEMMA StopperGoesOn ==
  ASSUME TypeOK, LaunchInv, CalmInv, NEW c \in Stoppers,
         call[c] \in Stopping \ {"setWaiting"},
         NEW place, Goto(c, place), ~crossed',
         \A d \in Calls \ {c} : pool'[d] = pool[d],
         sources' = sources, status' \in {status, "Stopped"},
         place \in (Stopping \ {"setWaiting"}) \cup {"failed", "update"},
         \A p \in Pools : poolStatus'[p] = "Active" => poolStatus[p] = "Active",
         place \in {"stopPool", "poolStops"} =>
            \A p \in 1 .. pool'[c] - 1 : poolStatus'[p] # "Active",
         place = "poolStops" => poolStatus'[pool'[c]] # "Active",
         place \notin {"stopPool", "poolStops"} => \A p \in Pools : poolStatus'[p] # "Active",
         PoolsInv'
  PROVE  CalmInv'
<1>1. /\ c \in Calls /\ c \notin Starters
      /\ \A s \in Starters : s \in Calls \ {c}
      /\ \A d \in Stoppers : d \in Calls
      /\ \A d \in Calls : pool[d] \in Pools
  BY ServerAssumption DEF Calls, TypeOK
<1>2. /\ call'[c] = place /\ \A d \in Calls \ {c} : call'[d] = call[d]
      /\ Alone'
  BY <1>1, GotoKeeps
<1>3. \A s \in Starters : call'[s] \notin Starting /\ call'[s] = call[s] /\ pool'[s] = pool[s]
  BY <1>1, <1>2 DEF CalmInv, Alone
<1>4. StartersInv'
  BY <1>3 DEF CalmInv, StartersInv, Starting
<1>5. StoppersInv'
  <2> SUFFICES ASSUME NEW d \in Stoppers
               PROVE  /\ call'[d] \in {"ready", "setWaiting"} => pool'[d] = 1
                      /\ call'[d] \in {"stopPool", "poolStops"} =>
                            \A p \in 1 .. pool'[d] - 1 : poolStatus'[p] # "Active"
                      /\ call'[d] = "poolStops" => poolStatus'[pool'[d]] # "Active"
                      /\ call'[d] \in {"cancel", "join", "setStopped"} =>
                            \A p \in Pools : poolStatus'[p] # "Active"
    BY DEF StoppersInv
  <2>1. CASE d = c
    BY <2>1, <1>2 DEF Stopping
  <2>2. CASE d # c
    <3>1. /\ d \in Calls \ {c} /\ call'[d] = call[d] /\ pool'[d] = pool[d]
          /\ pool[d] \in Pools
      BY <2>2, <1>1, <1>2
    <3>2. 1 .. pool[d] - 1 \subseteq Pools
      BY <3>1, ServerAssumption DEF Pools
    <3>3. QED
      BY <3>1, <3>2 DEF CalmInv, StoppersInv
  <2>3. QED
    BY <2>1, <2>2
<1>6. StatusInv'
  <2>1. status' # "Active" /\ status' # "Terminated"
    BY DEF CalmInv, StatusInv, LaunchInv
  <2>2. \A s \in Starters : call'[s] # "setActive"
    BY <1>3 DEF Starting
  <2>3. (\A d \in Stoppers : call'[d] \notin {"stopPool", "poolStops"})
           => \A p \in Pools : poolStatus'[p] # "Active"
    BY <1>2
  <2>4. QED
    BY <2>1, <2>2, <2>3 DEF StatusInv
<1>7. QED
  BY <1>2, <1>4, <1>5, <1>6 DEF CalmInv

(* The first steps of a stop, before it looks at the first pool.           *)
LEMMA StopperBegins ==
  ASSUME TypeOK, CalmInv, NEW c \in Stoppers, ~crossed',
         call[c] \in {"ready", "setWaiting"}, NEW place, Goto(c, place),
         \/ place = "setWaiting" /\ UNCHANGED status
         \/ place = "stopPool" /\ status' = "WaitingStop",
         UNCHANGED <<poolStatus, filters, pool, sources, cancelled>>
  PROVE  CalmInv'
<1>1. /\ c \in Calls /\ c \notin Starters
      /\ \A s \in Starters : s \in Calls \ {c}
      /\ \A d \in Stoppers : d \in Calls
  BY ServerAssumption DEF Calls
<1>2. /\ call'[c] = place /\ \A d \in Calls \ {c} : call'[d] = call[d]
      /\ Alone'
  BY <1>1, GotoKeeps
<1>3. StartersInv'
  BY <1>1, <1>2 DEF CalmInv, StartersInv, Serving
<1>4. pool[c] = 1
  BY DEF CalmInv, StoppersInv
<1>5. StoppersInv'
  BY <1>1, <1>2, <1>4 DEF CalmInv, StoppersInv
<1>6. PoolsInv'
  BY <1>1, <1>2 DEF CalmInv, PoolsInv, Serving, AtRest
<1>7. StatusInv'
  <2>1. \A s \in Starters : call'[s] = call[s]
    BY <1>1, <1>2
  <2>2. CASE place = "setWaiting"
    BY <1>1, <1>2, <2>1, <2>2 DEF CalmInv, StatusInv, Serving, AtRest
  <2>3. CASE place = "stopPool"
    BY <1>1, <1>2, <2>1, <2>3 DEF CalmInv, StatusInv, Serving, AtRest
  <2>4. QED
    BY <2>2, <2>3
<1>8. QED
  BY <1>2, <1>3, <1>5, <1>6, <1>7 DEF CalmInv

LEMMA StopperCalm ==
  ASSUME TypeOK, LaunchInv, CalmInv, NEW c \in Stoppers, ~crossed',
         StopAsync(c) \/ StopStep(c)
  PROVE  CalmInv'
<1>0. /\ c \in Calls /\ c \notin Starters /\ pool[c] \in Pools /\ pool[c] \in Nat
      /\ \A s \in Starters : s \in Calls \ {c}
      /\ \A d \in Stoppers : d \in Calls
      /\ PoolCount \in Nat /\ pool[c] <= PoolCount
  BY ServerAssumption DEF Calls, TypeOK, Pools
<1>1. CASE StopAsync(c)
  <2>1. CASE status \in {"Stopped", "Terminated"}
    BY <1>0, <1>1, <2>1, CalmMoves DEF StopAsync, threadVars
  <2>2. CASE status \notin {"Stopped", "Terminated"}
    <3>1. /\ call[c] = "ready" /\ Goto(c, "setWaiting") /\ UNCHANGED status
          /\ UNCHANGED <<poolStatus, filters, pool, sources, cancelled>>
      BY <1>1, <2>2 DEF StopAsync, poolVars, threadVars
    <3>2. QED
      BY <3>1, StopperBegins
  <2>3. QED
    BY <2>1, <2>2
<1>1a. CASE SetWaiting(c)
  <2>1. /\ call[c] = "setWaiting" /\ Goto(c, "stopPool") /\ status' = "WaitingStop"
        /\ UNCHANGED <<poolStatus, filters, pool, sources, cancelled>>
    BY <1>1a DEF SetWaiting, poolVars, threadVars
  <2>2. QED
    BY <2>1, StopperBegins
<1>2. CASE StopPool(c)
  <2>0. /\ call[c] \in Stopping \ {"setWaiting"} /\ call[c] = "stopPool"
        /\ poolStatus' = [poolStatus EXCEPT ![pool[c]] = "WaitingStop"]
        /\ Goto(c, "poolStops")
        /\ UNCHANGED <<status, filters, pool, sources, cancelled>>
    BY <1>2 DEF StopPool, Stopping, threadVars
  <2>1. /\ poolStatus'[pool[c]] = "WaitingStop"
        /\ \A p \in Pools \ {pool[c]} : poolStatus'[p] = poolStatus[p]
    BY <1>0, <2>0 DEF TypeOK
  <2>2. /\ call'[c] = "poolStops" /\ \A d \in Calls \ {c} : call'[d] = call[d]
    BY <1>0, <2>0, GotoKeeps
  <2>3. \A s \in Starters : call[s] \notin Starting
    BY <1>0, <2>0 DEF CalmInv, Alone
  <2>4. \A p \in 1 .. pool'[c] - 1 : poolStatus'[p] # "Active"
    <3>1. \A p \in 1 .. pool[c] - 1 : poolStatus[p] # "Active" /\ p \in Pools \ {pool[c]}
      BY <1>0, <2>0, ServerAssumption DEF CalmInv, StoppersInv, Pools
    <3>2. QED
      BY <2>0, <2>1, <3>1
  <2>5. PoolsInv'
    <3>1. \A p \in Pools : filters[p] \in {0, 1}
      BY DEF CalmInv, PoolsInv, Serving, AtRest
    <3>2. \A d \in Stoppers : call[d] = "poolStops" =>
             call'[d] = "poolStops" /\ pool'[d] = pool[d]
      BY <1>0, <2>0, <2>2
    <3>3. \A s \in Starters : call[s] # "addFilter"
      BY <2>3 DEF Starting
    <3>4. QED
      BY <2>0, <2>1, <2>2, <3>1, <3>2, <3>3 DEF CalmInv, PoolsInv, Serving, AtRest
  <2>6. \A p \in Pools : poolStatus'[p] = "Active" => poolStatus[p] = "Active"
    BY <2>1
  <2>7. poolStatus'[pool'[c]] # "Active"
    BY <2>0, <2>1
  <2>8. QED
    BY <2>0, <2>4, <2>5, <2>6, <2>7, StopperGoesOn DEF Stopping
<1>3. CASE PoolStops(c)
  <2>0. /\ call[c] \in Stopping \ {"setWaiting"} /\ call[c] = "poolStops"
        /\ filters' = [filters EXCEPT ![pool[c]] = Removed(@)]
        /\ poolStatus' = [poolStatus EXCEPT ![pool[c]] = "Stopped"]
        /\ NextPool(c, "stopPool", "cancel")
        /\ UNCHANGED <<status, sources, cancelled>>
    BY <1>3 DEF PoolStops, Stopping, threadVars
  <2>1. /\ poolStatus'[pool[c]] = "Stopped" /\ filters'[pool[c]] = Removed(filters[pool[c]])
        /\ \A p \in Pools \ {pool[c]} : poolStatus'[p] = poolStatus[p] /\ filters'[p] = filters[p]
    BY <1>0, <2>0 DEF TypeOK
  <2>2. PICK place \in {"stopPool", "cancel"} : Goto(c, place)
    BY <2>0 DEF NextPool
  <2>3. /\ call'[c] = place /\ \A d \in Calls \ {c} : call'[d] = call[d]
        /\ \A d \in Calls \ {c} : pool'[d] = pool[d]
    BY <1>0, <2>0, <2>2, GotoKeeps DEF NextPool, TypeOK
  <2>4. \A p \in Pools : filters[p] \in {0, 1}
    BY DEF CalmInv, PoolsInv, Serving, AtRest
  <2>5. PoolsInv'
    <3>1. poolStatus'[pool[c]] = "Stopped" /\ filters'[pool[c]] = 0
      BY <1>0, <2>1, <2>4 DEF Removed
    <3>2. \A d \in Stoppers \ {c} : call'[d] = call[d] /\ pool'[d] = pool[d]
      BY <1>0, <2>3
    <3>3. \A s \in Starters : call[s] # "addFilter"
      BY <1>0, <2>0 DEF CalmInv, Alone, Starting
    <3>4. QED
      BY <2>1, <3>1, <3>2, <3>3 DEF CalmInv, PoolsInv, Serving, AtRest
  <2>6. \A p \in Pools : poolStatus'[p] = "Active" => poolStatus[p] = "Active"
    BY <2>1
  <2>7. \A p \in 1 .. pool[c] : poolStatus'[p] # "Active"
    <3>1. \A p \in 1 .. pool[c] - 1 : poolStatus[p] # "Active" /\ p \in Pools \ {pool[c]}
      BY <1>0, <2>0, ServerAssumption DEF CalmInv, StoppersInv, Pools
    <3>2. QED
      BY <1>0, <2>1, <3>1
  <2>8. place = "stopPool" => \A p \in 1 .. pool'[c] - 1 : poolStatus'[p] # "Active"
    <3>1. CASE pool[c] < PoolCount
      <4>1. pool'[c] - 1 = pool[c]
        BY <1>0, <2>0, <3>1 DEF NextPool, TypeOK
      <4>2. QED
        BY <2>7, <4>1
    <3>2. CASE ~(pool[c] < PoolCount)
      BY <1>0, <2>0, <2>3, <3>2, GotoKeeps DEF NextPool
    <3>3. QED
      BY <3>1, <3>2
  <2>9. place = "cancel" => \A p \in Pools : poolStatus'[p] # "Active"
    <3>1. CASE pool[c] < PoolCount
      BY <1>0, <2>0, <2>3, <3>1, GotoKeeps DEF NextPool
    <3>2. CASE ~(pool[c] < PoolCount)
      <4>1. pool[c] = PoolCount
        BY <1>0, <3>2
      <4>2. QED
        BY <2>7, <4>1 DEF Pools
    <3>3. QED
      BY <3>1, <3>2
  <2>10. QED
    BY <2>0, <2>2, <2>3, <2>5, <2>6, <2>8, <2>9, StopperGoesOn DEF Stopping
<1>4. ASSUME call[c] \in {"cancel", "join", "setStopped"},
             NEW place \in {"join", "setStopped", "failed", "update"}, Goto(c, place),
             UNCHANGED <<poolVars, sources>>, status' \in {status, "Stopped"}
      PROVE  CalmInv'
  <2>0. /\ call[c] \in Stopping \ {"setWaiting"}
        /\ poolStatus' = poolStatus /\ pool' = pool /\ filters' = filters
    BY <1>4 DEF Stopping, poolVars
  <2>1. \A p \in Pools : poolStatus'[p] # "Active"
    BY <1>4, <2>0 DEF CalmInv, StoppersInv
  <2>2. /\ call'[c] = place /\ \A d \in Calls \ {c} : call'[d] = call[d]
    BY <1>0, <1>4, GotoKeeps
  <2>3. PoolsInv'
    BY <1>0, <1>4, <2>0, <2>2 DEF CalmInv, PoolsInv, Serving, AtRest
  <2>4. QED
    BY <1>4, <2>0, <2>1, <2>3, StopperGoesOn DEF Stopping
<1>5. CASE Cancel(c)
  BY <1>4, <1>5 DEF Cancel
<1>6. CASE Join(c)
  BY <1>4, <1>6 DEF Join, threadVars
<1>7. CASE SetStopped(c)
  BY <1>4, <1>7 DEF SetStopped, threadVars
<1>8. CASE UpdateMetrics(c)
  BY <1>0, <1>8, CalmMoves DEF UpdateMetrics, threadVars
<1>9. QED
  BY <1>1, <1>1a, <1>2, <1>3, <1>5, <1>6, <1>7, <1>8 DEF StopStep

-----------------------------------------------------------------------------

LEMMA InitInv == Init => Inv
<1> SUFFICES ASSUME Init PROVE Inv
  OBVIOUS
<1>1. TypeOK
  BY InitTyped
<1>2. LaunchInv
  BY ServerAssumption DEF Init, LaunchInv, Calls, Stopping
<1>3. CalmInv
  <2>1. \A c \in Calls : call[c] = "ready" /\ pool[c] = 1
    BY DEF Init
  <2>2. \A p \in Pools : AtRest(p)
    BY DEF Init, AtRest
  <2>3. /\ \A s \in Starters : s \in Calls
        /\ \A d \in Stoppers : d \in Calls
    BY DEF Calls
  <2>4. Alone /\ StartersInv /\ StoppersInv /\ PoolsInv
    BY <2>1, <2>2, <2>3 DEF Alone, StartersInv, StoppersInv, PoolsInv, Starting
  <2>5. StatusInv
    BY <2>1, <2>2, <2>3 DEF Init, StatusInv
  <2>6. QED
    BY <2>4, <2>5 DEF CalmInv
<1>4. QED
  BY <1>1, <1>2, <1>3 DEF Inv

LEMMA NextInv == Inv /\ [Next]_vars => Inv'
<1> SUFFICES ASSUME Inv, [Next]_vars PROVE Inv'
  OBVIOUS
<1>1. TypeOK /\ LaunchInv /\ TypeOK'
  BY NextTyped DEF Inv
<1>2. crossed => crossed'
  BY DEF vars, Next, StartAsync, StartStep, DelayOver, StartPool, Activate, AddFilter, NewSource,
         SetActive, UpdateMetrics, Launch, StopAsync, StopStep, SetWaiting, StopPool, PoolStops, Cancel, Join,
         SetStopped, ManagementThread, NextPool, Goto
<1>3. CASE \E c \in Starters : StartAsync(c) \/ StartStep(c) \/ Launch(c)
  BY <1>1, <1>2, <1>3, StarterLaunches, StarterCalm DEF Inv
<1>4. CASE \E c \in Stoppers : StopAsync(c) \/ StopStep(c)
  BY <1>1, <1>2, <1>4, StopperLaunches, StopperCalm DEF Inv
<1>5. CASE ManagementThread
  <2>1. LaunchInv'
    BY <1>1, <1>5, ThreadLaunches
  <2>2. UNCHANGED <<status, call, poolVars, sources, cancelled>>
    BY <1>5 DEF ManagementThread
  <2>3. QED
    BY <1>1, <1>2, <2>1, <2>2, CalmKept DEF Inv
<1>6. CASE UNCHANGED vars
  <2>1. LaunchInv'
    BY <1>1, <1>6 DEF LaunchInv, vars, threadVars
  <2>2. UNCHANGED <<status, call, poolVars, sources, cancelled>>
    BY <1>6 DEF vars, threadVars
  <2>3. QED
    BY <1>1, <1>2, <2>1, <2>2, CalmKept DEF Inv
<1>7. QED
  BY <1>3, <1>4, <1>5, <1>6 DEF Next

LEMMA InvTells == Inv => StatusTells
<1> SUFFICES ASSUME Inv, Quiet, ~crossed PROVE StatusTells
  BY DEF StatusTells
<1>1. TypeOK /\ LaunchInv /\ PoolsInv /\ StatusInv
  BY DEF Inv, CalmInv
<1>2. /\ \A s \in Starters : call[s] \notin Starting
      /\ \A d \in Stoppers : call[d] \notin Stopping
  BY DEF Quiet, Calls
<1>3. \A p \in Pools : Serving(p) \/ AtRest(p)
  BY <1>1, <1>2 DEF PoolsInv, Starting, Stopping
<1>4. status = "Terminated" =>
         /\ sources = 0 /\ thread = "unstarted"
         /\ \A p \in Pools : AtRest(p)
  <2>1. \A s \in Starters : call[s] # "setActive"
    BY <1>2 DEF Starting
  <2>2. QED
    BY <1>1, <1>2, <2>1 DEF LaunchInv, StatusInv, TypeOK
<1>5. status = "Active" =>
         /\ \A p \in Pools : Serving(p)
         /\ sources = 1 /\ pending = {} => thread \in {"waiting", "updating"}
  BY <1>1 DEF LaunchInv, StatusInv, TypeOK, ThreadState
<1>6. \A d \in Stoppers : call[d] \notin {"stopPool", "poolStops"}
  BY <1>2 DEF Stopping
<1>7. status \in {"WaitingStop", "Stopped"} => \A p \in Pools : AtRest(p)
  <2>1. status \in {"WaitingStop", "Stopped"} => \A p \in Pools : poolStatus[p] # "Active"
    BY <1>1, <1>2, <1>6 DEF StatusInv
  <2>2. QED
    BY <1>3, <2>1 DEF Serving
<1>8. status = "WaitingStop" => \E d \in Stoppers : call[d] = "failed"
  BY <1>1, <1>2 DEF LaunchInv
<1>9. status = "Stopped" => thread = "ended"
  BY <1>1 DEF LaunchInv
<1>10. QED
  BY <1>4, <1>5, <1>7, <1>8, <1>9 DEF StatusTells

(* Once nobody starts or stops the server, its status tells what its pools, *)
(* their filters and the management thread do, unless a start overlapped    *)
(* with another call.                                                       *)
THEOREM StatusIsTrue == Spec => []StatusTells
  BY InitInv, NextInv, InvTells, PTL DEF Spec
=============================================================================
