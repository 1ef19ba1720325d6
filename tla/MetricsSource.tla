--------------------------- MODULE MetricsSource ---------------------------
(***************************************************************************)
(* What somebody who polls WorkServer.Metrics may rely on: each pool that  *)
(* is shown has one sample, of a second that is over; a pool that has      *)
(* appeared stays; the totals only grow.  WorkServer is shown to implement *)
(* it, Dashboard is built on it.                                           *)
(***************************************************************************)
EXTENDS Integers, Sequences, FiniteSets

CONSTANTS
    Series,     \* pools shown in the user interface
    MaxLag,     \* bound: how old a sample may be, in seconds, when published
    MaxTime,    \* bound: the last second
    MaxLate,    \* bound: samples that are published after a newer one
    MaxTotal    \* bound: the largest total

ASSUME SourceAssumption ==
    /\ MaxLag \in Nat \ {0}
    /\ MaxTime \in Nat
    /\ MaxLate \in Nat
    /\ MaxTotal \in Nat

VARIABLES
    now,        \* the current second
    names,      \* the keys of WorkDataPoolsUi, in the order they were added
    published,  \* the second of the sample of each of them
    late,       \* history: how often a sample has replaced a newer one
    total       \* WorkDataGlobal.Processed

sourceVars == <<now, names, published, late, total>>

Seconds == 1 .. MaxTime
Named == {names[k] : k \in DOMAIN names}

SourceInit ==
    /\ now = 1
    /\ names = << >>
    /\ published = << >>
    /\ late = 0
    /\ total = 0

Tick ==
    /\ now < MaxTime
    /\ now' = now + 1
    /\ UNCHANGED <<names, published, late, total>>

\* A key of the dictionary keeps its place.
Listed_Never(s) == names    \* mutant
Listed(s) == IF s \in Named THEN names ELSE Append(names, s)

\* WorkServerMetrics.Add, called when a pool has completed a second.  Two
\* threads of a pool may get there in the wrong order.
Publish(s, t) ==
    /\ t < now
    /\ t >= now - MaxLag
    /\ late' = IF s \in Named /\ t < published[s] THEN late + 1 ELSE late
    /\ late' <= MaxLate
    /\ names' = Listed(s)
    /\ published' = [p \in Named \cup {s} |-> IF p = s THEN t ELSE published[p]]
    /\ UNCHANGED <<now, total>>

\* Nothing sets the totals back; the code that did is commented out.
CanShow_Reset(n) == TRUE    \* mutant
CanShow(n) == n >= total

\* WorkServerMetrics.CheckClear: the totals collected so far become visible.
ShowTotal(n) ==
    /\ CanShow(n)
    /\ total' = n
    /\ UNCHANGED <<now, names, published, late>>

SourceNext ==
    \/ Tick
    \/ \E s \in Series, t \in Seconds : Publish(s, t)
    \/ \E n \in 0 .. MaxTotal : ShowTotal(n)

SourceSpec == SourceInit /\ [][SourceNext]_sourceVars
=============================================================================
