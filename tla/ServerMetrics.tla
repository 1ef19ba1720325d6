--------------------------- MODULE ServerMetrics ---------------------------
(***************************************************************************)
(* The statistics of the server.  Threads of a pool count outcomes in the  *)
(* sample of the current second; whoever begins a new second hands the old *)
(* sample over to the server; UpdateMetrics adds the samples up.  The      *)
(* steps of different threads interleave as the locks allow, and the local *)
(* time may be set back.                                                   *)
(***************************************************************************)
EXTENDS Ordering, Sequences

CONSTANTS
    Pools,
    ShowInUi,       \* pools that are shown in the user interface
    Workers,        \* threads that report outcomes
    MetricsThreads, \* threads that run WorkPool.UpdateMetrics
    Owner,          \* the pool of each of these threads
    Updaters,       \* threads that run WorkServer.UpdateMetrics
    Keep,           \* samples a pool keeps, 100 in the code
    LastTime,       \* bound: the last second
    MaxOutcomes,    \* bound: outcomes of all jobs
    MaxUpdates      \* bound: updates that start

ASSUME MetricsAssumption ==
    /\ IsFiniteSet(Pools) /\ IsFiniteSet(Workers) /\ IsFiniteSet(MetricsThreads)
    /\ ShowInUi \subseteq Pools
    /\ Workers \cap MetricsThreads = {}
    /\ Owner \in [Workers \cup MetricsThreads -> Pools]
    /\ Keep \in Nat \ {0}
    /\ LastTime \in Nat \ {0}
    /\ MaxOutcomes \in Nat
    /\ MaxUpdates \in Nat

VARIABLES
    now,        \* DateTime.Now, in seconds
    current,    \* WorkPoolMetrics.Current of each pool
    history,    \* WorkPoolMetrics.Metrics of each pool: the samples that are over
    place,      \* where each thread of a pool is
    held,       \* the sample each of them has got
    keys,       \* the keys of WorkDataPools, in the order they were added
    samples,    \* their values
    live,       \* WorkDataGlobalLive
    global,     \* WorkDataGlobal
    updating,   \* where each update is
    next,       \* its position in WorkDataPools
    seen,       \* the keys there were when it began
    sum,        \* the value it is about to write
    updates,    \* updates that have started
    outcomes,   \* history: the outcomes of each pool in each second
    reported,   \* history: how many outcomes there have been
    late,       \* history: how often a sample has replaced a newer one
    setBack,    \* history: the time has been set back
    overlapped  \* history: two updates have been under way together

poolVars == <<current, history, outcomes, reported>>
threadVars == <<place, held>>
shownVars == <<keys, samples, late>>
updateVars == <<live, global, updating, next, seen, sum, updates, overlapped>>
vars == <<now, setBack, poolVars, threadVars, shownVars, updateVars>>

Threads == Workers \cup MetricsThreads
Seconds == 1 .. LastTime
NoOutcomes(t) == [time |-> t, processed |-> 0]
Newest(h) == CHOOSE t \in DOMAIN h : \A u \in DOMAIN h : u <= t
Listed == {keys[k] : k \in DOMAIN keys}

Init ==
    /\ now = 1
    /\ current = [p \in Pools |-> NoOutcomes(1)]
    /\ history = [p \in Pools |-> << >>]
    /\ place = [th \in Threads |-> "idle"]
    /\ held = [th \in Threads |-> NoOutcomes(1)]
    /\ keys = << >>
    /\ samples = << >>
    /\ live = NoOutcomes(1)
    /\ global = NoOutcomes(1)
    /\ updating = [u \in Updaters |-> "idle"]
    /\ next = [u \in Updaters |-> 0]
    /\ seen = [u \in Updaters |-> 0]
    /\ sum = [u \in Updaters |-> 0]
    /\ updates = 0
    /\ outcomes = [p \in Pools |-> [t \in Seconds |-> 0]]
    /\ reported = 0
    /\ late = 0
    /\ setBack = FALSE
    /\ overlapped = FALSE

-----------------------------------------------------------------------------
(* The clock *)

Tick ==
    /\ now < LastTime
    /\ now' = now + 1
    /\ UNCHANGED <<setBack, poolVars, threadVars, shownVars, updateVars>>

\* DateTime.Now is local time: once, it goes back.
SetBack ==
    /\ ~setBack
    /\ setBack' = TRUE
    /\ now' \in 1 .. now - 1
    /\ UNCHANGED <<poolVars, threadVars, shownVars, updateVars>>

-----------------------------------------------------------------------------
(* WorkPoolMetrics *)

\* All but the newest samples go; by then there is at most one too many.
Clear(h) ==
    IF Cardinality(DOMAIN h) > Keep
    THEN LET oldest == CHOOSE t \in DOMAIN h : \A u \in DOMAIN h : t <= u
         IN  [t \in DOMAIN h \ {oldest} |-> h[t]]
    ELSE h

ShiftCurrent(h, sample) ==
    [t \in DOMAIN h \cup {sample.time} |-> IF t = sample.time THEN sample ELSE h[t]]

MustShift(p) == current[p].time # now

Counted_NotReset(p, n) == current[p].processed + n    \* mutant
Counted(p, n) == (IF MustShift(p) THEN 0 ELSE current[p].processed) + n

\* Add with its lock.  Whoever has begun a new second raises DataShift, after
\* the lock.
Add(th, n) ==
    LET p == Owner[th]
    IN  /\ place[th] = "idle"
        /\ history' = [history EXCEPT ![p] =
                          IF MustShift(p) THEN Clear(ShiftCurrent(@, current[p])) ELSE @]
        /\ current' = [current EXCEPT ![p] = [time |-> now, processed |-> Counted(p, n)]]
        /\ place' = [place EXCEPT ![th] = IF MustShift(p) THEN "shifted" ELSE @]
        /\ outcomes' = [outcomes EXCEPT ![p][now] = @ + n]
        /\ reported' = reported + n
        /\ UNCHANGED <<now, setBack, held, shownVars, updateVars>>

\* WorkPool.PostExecute
AddOutcome(th) == reported < MaxOutcomes /\ Add(th, 1)

\* WorkPool.UpdateMetrics.  When it has no new second to begin it changes nothing.
AddNothing(th) == MustShift(Owner[th]) /\ Add(th, 0)

LastSample_Current(p) == current[p]    \* mutant: the sample that is still counted in
LastSample(p) == history[p][Newest(history[p])]

\* WorkPool_MetricsUpdated: GetLast has a lock, and so has the Add that follows.
GetLast(th) ==
    /\ place[th] = "shifted"
    /\ held' = [held EXCEPT ![th] = LastSample(Owner[th])]
    /\ place' = [place EXCEPT ![th] = "got"]
    /\ UNCHANGED <<now, setBack, poolVars, shownVars, updateVars>>

-----------------------------------------------------------------------------
(* WorkServerMetrics *)

NewKeys_Never(p) == keys    \* mutant: the dictionary keeps its keys
NewKeys(p) == IF p \in Listed THEN keys ELSE Append(keys, p)

AddSample(th) ==
    LET p == Owner[th]
    IN  /\ place[th] = "got"
        /\ keys' = NewKeys(p)
        /\ samples' = [q \in Listed \cup {p} |-> IF q = p THEN held[th] ELSE samples[q]]
        /\ late' = IF p \in ShowInUi \cap Listed /\ held[th].time < samples[p].time
                   THEN late + 1 ELSE late
        /\ place' = [place EXCEPT ![th] = "idle"]
        /\ held' = [held EXCEPT ![th] = NoOutcomes(1)]
        /\ UNCHANGED <<now, setBack, poolVars, updateVars>>

\* CheckClear copies what has been added up once a second has passed.
CheckClear == global' = IF global.time # now THEN live ELSE global

UpdateGlobalLive(u) ==
    /\ updating[u] = "idle"
    /\ updates < MaxUpdates
    /\ updates' = updates + 1
    /\ CheckClear
    /\ updating' = [updating EXCEPT ![u] = "loop"]
    /\ next' = [next EXCEPT ![u] = 1]
    /\ seen' = [seen EXCEPT ![u] = Len(keys)]
    /\ overlapped' = (overlapped \/ \E v \in Updaters \ {u} : updating[v] # "idle")
    /\ UNCHANGED <<now, setBack, poolVars, threadVars, shownVars, live, sum>>

\* The enumeration ends, or throws because a key has been added: UpdateMetrics
\* logs the exception, and the samples that are left are not added.
UpdateEnds(u) ==
    /\ updating[u] = "loop"
    /\ next[u] > seen[u] \/ Len(keys) # seen[u]
    /\ updating' = [updating EXCEPT ![u] = "idle"]
    /\ next' = [next EXCEPT ![u] = 0]
    /\ seen' = [seen EXCEPT ![u] = 0]
    /\ UNCHANGED <<now, setBack, poolVars, threadVars, shownVars, live, global, sum, updates,
                   overlapped>>

\* += reads and then writes; there is no lock.
ReadTotal(u) ==
    /\ updating[u] = "loop"
    /\ next[u] <= seen[u]
    /\ Len(keys) = seen[u]
    /\ sum' = [sum EXCEPT ![u] = live.processed + samples[keys[next[u]]].processed]
    /\ updating' = [updating EXCEPT ![u] = "write"]
    /\ UNCHANGED <<now, setBack, poolVars, threadVars, shownVars, live, global, next, seen,
                   updates, overlapped>>

WriteTotal(u) ==
    /\ updating[u] = "write"
    /\ live' = [time |-> now, processed |-> sum[u]]
    /\ sum' = [sum EXCEPT ![u] = 0]
    /\ next' = [next EXCEPT ![u] = @ + 1]
    /\ updating' = [updating EXCEPT ![u] = "loop"]
    /\ UNCHANGED <<now, setBack, poolVars, threadVars, shownVars, global, seen, updates,
                   overlapped>>

-----------------------------------------------------------------------------
HandOver(th) == GetLast(th) \/ AddSample(th)

Next ==
    \/ Tick
    \/ SetBack
    \/ \E th \in Workers : AddOutcome(th)
    \/ \E th \in MetricsThreads : AddNothing(th)
    \/ \E th \in Threads : HandOver(th)
    \/ \E u \in Updaters : UpdateGlobalLive(u) \/ UpdateEnds(u) \/ ReadTotal(u) \/ WriteTotal(u)

Spec == Init /\ [][Next]_vars

\* Time passes, and the threads of the pools go on; jobs need not come.
FairSpec ==
    /\ Spec
    /\ WF_vars(Tick)
    /\ \A th \in MetricsThreads : WF_vars(AddNothing(th))
    /\ \A th \in Threads : WF_vars(HandOver(th))

-----------------------------------------------------------------------------
(* Properties *)

Quiet(p) == \A th \in Threads : Owner[th] = p => place[th] = "idle"

\* Add, GetLast: however many threads report outcomes while one of them begins a
\* new second, a sample that is shown has exactly the outcomes of its second, and
\* once no thread is on its way with one the newest is shown, unless the time
\* was set back or a thread was overtaken.
SamplesRight ==
    \A p \in Listed :
        /\ ~setBack => samples[p].processed = outcomes[p][samples[p].time]
        /\ Quiet(p) /\ late = 0 /\ p \in ShowInUi => samples[p].time = Newest(history[p])

\* What the dashboard sees.
Shown == {k \in DOMAIN keys : keys[k] \in ShowInUi}
Names == [i \in DOMAIN InOrder(Shown) |-> keys[InOrder(Shown)[i]]]

\* The code has no bound on the age of a sample: MaxLag is as large as can be.
Source == INSTANCE MetricsSource WITH
    Series <- ShowInUi,
    MaxLag <- LastTime,
    MaxTime <- LastTime,
    MaxLate <- LastTime * Cardinality(Threads),
    MaxTotal <- MaxUpdates * MaxOutcomes * Cardinality(Pools),
    names <- Names,
    published <- [p \in Listed \cap ShowInUi |-> samples[p].time],
    total <- global.processed

\* WorkServerMetrics is a MetricsSource, until the time is set back or two
\* threads update the totals at once: then a total may go down.
ImplementsSource ==
    Source!SourceInit /\ [][Source!SourceNext \/ setBack' \/ overlapped']_(Source!sourceVars)

\* Every pool that has a metrics thread comes to be listed, without any job.
EachPoolAppears == <>(\A th \in MetricsThreads : Owner[th] \in Listed)
=============================================================================
