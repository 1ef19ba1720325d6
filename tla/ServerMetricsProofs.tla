------------------------ MODULE ServerMetricsProofs ------------------------
(***************************************************************************)
(* Proofs about ServerMetrics: for any pools and threads, any number of    *)
(* samples that a pool keeps, and any bounds.                              *)
(***************************************************************************)
EXTENDS ServerMetrics, OrderingProofs

Sample == [time : Seconds, processed : 0 .. MaxOutcomes]
Histories == UNION {[D -> Sample] : D \in SUBSET Seconds}
Total == [time : Seconds, processed : Nat]

TypeOK ==
  /\ now \in Seconds
  /\ current \in [Pools -> Sample]
  /\ history \in [Pools -> Histories]
  /\ outcomes \in [Pools -> [Seconds -> Nat]]
  /\ reported \in 0 .. MaxOutcomes
  /\ place \in [Threads -> {"idle", "shifted", "got"}]
  /\ held \in [Threads -> Sample]
  /\ keys \in Seq(Pools)
  /\ samples \in [Listed -> Sample]
  /\ late \in Nat
  /\ setBack \in BOOLEAN
  /\ live \in Total
  /\ global \in Total
  /\ updating \in [Updaters -> {"idle", "loop", "write"}]
  /\ next \in [Updaters -> Nat]
  /\ seen \in [Updaters -> Nat]
  /\ sum \in [Updaters -> Nat]
  /\ updates \in 0 .. MaxUpdates
  /\ overlapped \in BOOLEAN

(* A sample is filed under its second.                                     *)
Filed(h) == \A t \in DOMAIN h : h[t].time = t

(* What a thread or the server has got comes from a history, which never   *)
(* becomes empty again.                                                    *)
PoolsOK ==
  /\ \A p \in Pools : Filed(history[p]) /\ current[p].processed <= reported
  /\ \A th \in Threads : place[th] # "idle" => DOMAIN history[Owner[th]] # {}
  /\ \A p \in Listed : DOMAIN history[p] # {}

UpdatersOK ==
  \A u \in Updaters :
    /\ updating[u] # "idle" => next[u] \in 1 .. seen[u] + 1 /\ seen[u] <= Len(keys)
    /\ updating[u] = "write" => next[u] <= seen[u]

\* The keys of a dictionary are different.
KeysOK == \A i, j \in DOMAIN keys : keys[i] = keys[j] => i = j

TypeInv == TypeOK /\ PoolsOK /\ UpdatersOK /\ KeysOK

-----------------------------------------------------------------------------
(* Histories                                                               *)

LEMMA HistoryIs ==
  ASSUME NEW h \in Histories
  PROVE  /\ DOMAIN h \subseteq Seconds
         /\ DOMAIN h \in SUBSET Int
         /\ IsFiniteSet(DOMAIN h)
         /\ \A t \in DOMAIN h : h[t] \in Sample
         /\ h \in [DOMAIN h -> Sample]
<1>1. PICK D \in SUBSET Seconds : h \in [D -> Sample]
  BY DEF Histories
<1>2. LastTime \in Nat /\ IsFiniteSet(Seconds)
  BY FS_Interval, MetricsAssumption DEF Seconds
<1>3. DOMAIN h = D
  BY <1>1
<1>4. IsFiniteSet(D)
  BY <1>2, FS_Subset
<1>5. D \in SUBSET Int
  BY <1>2 DEF Seconds
<1>6. \A t \in D : h[t] \in Sample
  BY <1>1
<1>7. QED
  BY <1>1, <1>3, <1>4, <1>5, <1>6

LEMMA NewestIs ==
  ASSUME NEW h \in Histories, DOMAIN h # {}
  PROVE  /\ Newest(h) \in DOMAIN h /\ Newest(h) \in Seconds
         /\ \A t \in DOMAIN h : t <= Newest(h)
<1>1. \E t \in DOMAIN h : \A u \in DOMAIN h : u <= t
  BY HistoryIs, GreatestElement
<1>2. Newest(h) \in DOMAIN h /\ \A t \in DOMAIN h : t <= Newest(h)
  BY <1>1 DEF Newest
<1>3. QED
  BY <1>2, HistoryIs

(* Clear takes away nothing but the oldest of several samples.             *)
LEMMA ClearIs ==
  ASSUME NEW h \in Histories, DOMAIN h # {}
  PROVE  /\ Clear(h) \in Histories /\ DOMAIN Clear(h) # {}
         /\ DOMAIN Clear(h) \subseteq DOMAIN h
         /\ \A t \in DOMAIN Clear(h) : Clear(h)[t] = h[t]
         /\ Newest(h) \in DOMAIN Clear(h)
<1>1. CASE ~(Cardinality(DOMAIN h) > Keep)
  BY <1>1, NewestIs DEF Clear
<1>2. CASE Cardinality(DOMAIN h) > Keep
  <2> DEFINE oldest == CHOOSE t \in DOMAIN h : \A u \in DOMAIN h : t <= u
             k == [t \in DOMAIN h \ {oldest} |-> h[t]]
  <2>1. Clear(h) = k
    BY <1>2 DEF Clear
  <2>2. \E t \in DOMAIN h : \A u \in DOMAIN h : t <= u
    BY HistoryIs, LeastElement
  <2>3. oldest \in DOMAIN h /\ \A u \in DOMAIN h : oldest <= u
    BY <2>2
  <2> HIDE DEF oldest
  <2>4. Newest(h) # oldest
    <3> SUFFICES ASSUME Newest(h) = oldest PROVE FALSE
      OBVIOUS
    <3>1. \A u \in DOMAIN h : u = oldest
      <4> SUFFICES ASSUME NEW u \in DOMAIN h PROVE u = oldest
        OBVIOUS
      <4>1. u \in Int /\ oldest \in Int /\ u <= oldest /\ oldest <= u
        BY <2>3, HistoryIs, NewestIs
      <4>2. QED
        BY <4>1
    <3>2. DOMAIN h = {oldest}
      BY <2>3, <3>1
    <3>3. Cardinality(DOMAIN h) = 1
      BY <3>2, FS_Singleton
    <3>4. QED
      BY <1>2, <3>3, MetricsAssumption
  <2>5. k \in [DOMAIN h \ {oldest} -> Sample]
    BY HistoryIs
  <2>6. k \in Histories
    BY <2>5, HistoryIs DEF Histories
  <2>7. QED
    BY <2>1, <2>4, <2>6, NewestIs
<1>3. QED
  BY <1>1, <1>2

(* What becomes of a history when a new second begins.                     *)
LEMMA ShiftIs ==
  ASSUME NEW h \in Histories, Filed(h), NEW s \in Sample,
         NEW k, k = Clear(ShiftCurrent(h, s))
  PROVE  /\ k \in Histories /\ DOMAIN k # {} /\ Filed(k)
         /\ \A t \in DOMAIN k : k[t] = s \/ (t \in DOMAIN h /\ k[t] = h[t])
         /\ DOMAIN h # {} => Newest(h) <= Newest(k)
<1> DEFINE m == ShiftCurrent(h, s)
<1>1. DOMAIN m = DOMAIN h \cup {s.time} /\ s.time \in Seconds
  BY DEF ShiftCurrent, Sample
<1>2. \A t \in DOMAIN m : m[t] = IF t = s.time THEN s ELSE h[t]
  BY DEF ShiftCurrent
<1>3. m \in [DOMAIN h \cup {s.time} -> Sample]
  BY HistoryIs DEF ShiftCurrent
<1>4. m \in Histories /\ DOMAIN m # {}
  BY <1>1, <1>3, HistoryIs DEF Histories
<1>5. Filed(m)
  BY <1>1, <1>2 DEF Filed
<1> HIDE DEF m
<1>6. /\ k \in Histories /\ DOMAIN k # {} /\ DOMAIN k \subseteq DOMAIN m
      /\ \A t \in DOMAIN k : k[t] = m[t]
      /\ Newest(m) \in DOMAIN k
  BY <1>4, ClearIs DEF m
<1>7. Filed(k)
  BY <1>5, <1>6 DEF Filed
<1>8. \A t \in DOMAIN k : k[t] = s \/ (t \in DOMAIN h /\ k[t] = h[t])
  BY <1>1, <1>2, <1>6
<1>9. ASSUME DOMAIN h # {} PROVE Newest(h) <= Newest(k)
  <2>1. Newest(h) \in DOMAIN m
    BY <1>1, <1>9, NewestIs
  <2>2. Newest(h) <= Newest(m)
    BY <1>4, <2>1, NewestIs
  <2>3. Newest(m) <= Newest(k)
    BY <1>6, NewestIs
  <2>4. Newest(h) \in Int /\ Newest(m) \in Int /\ Newest(k) \in Int
    BY <1>4, <1>6, <1>9, NewestIs DEF Seconds
  <2>5. QED
    BY <2>2, <2>3, <2>4
<1>10. QED
  BY <1>6, <1>7, <1>8, <1>9

-----------------------------------------------------------------------------
(* Types                                                                   *)

LEMMA OwnerTyped == \A th \in Threads : Owner[th] \in Pools
  BY MetricsAssumption DEF Threads

LEMMA ListedTyped ==
  ASSUME TypeOK
  PROVE  Listed \subseteq Pools
  BY DEF Listed, TypeOK

LEMMA BoundsTyped == LastTime \in Nat \ {0} /\ MaxOutcomes \in Nat /\ MaxUpdates \in Nat
  BY MetricsAssumption

LEMMA InitTyped == Init => TypeInv
<1> SUFFICES ASSUME Init PROVE TypeInv
  OBVIOUS
<1> USE BoundsTyped DEF Init
<1>1. NoOutcomes(1) \in Sample /\ NoOutcomes(1) \in Total
  BY DEF NoOutcomes, Sample, Total, Seconds
<1>2. << >> \in Histories /\ DOMAIN << >> = {}
  <2>1. << >> \in [1 .. 0 -> Sample] /\ DOMAIN << >> = 1 .. 0
    BY EmptySeq, LenProperties
  <2>2. 1 .. 0 = {} /\ {} \in SUBSET Seconds
    OBVIOUS
  <2>3. QED
    BY <2>1, <2>2 DEF Histories
<1>3. Listed = {}
  BY DEF Listed
<1>4. current \in [Pools -> Sample] /\ held \in [Threads -> Sample] /\ history \in [Pools -> Histories]
  BY <1>1, <1>2
<1>5. samples \in [Listed -> Sample]
  BY <1>3
<1>6. live \in Total /\ global \in Total /\ now \in Seconds
  BY <1>1 DEF Seconds
<1>10. /\ outcomes \in [Pools -> [Seconds -> Nat]] /\ reported \in 0 .. MaxOutcomes
       /\ place \in [Threads -> {"idle", "shifted", "got"}]
       /\ keys \in Seq(Pools)
       /\ late \in Nat
  OBVIOUS
<1>11. /\ updating \in [Updaters -> {"idle", "loop", "write"}]
       /\ next \in [Updaters -> Nat] /\ seen \in [Updaters -> Nat] /\ sum \in [Updaters -> Nat]
       /\ updates \in 0 .. MaxUpdates
  OBVIOUS
<1>12. setBack \in BOOLEAN /\ overlapped \in BOOLEAN
  BY Zenon
<1>7. TypeOK
  BY <1>4, <1>5, <1>6, <1>10, <1>11, <1>12 DEF TypeOK
<1>8. PoolsOK
  BY <1>2, <1>3 DEF PoolsOK, Filed, NoOutcomes
<1>9. QED
  BY <1>7, <1>8 DEF TypeInv, UpdatersOK, KeysOK

(* AddOutcome and AddNothing are two cases of one step.                    *)
AddStep(th, n) == n \in {0, 1} /\ reported + n <= MaxOutcomes /\ Add(th, n)

LEMMA AddSteps ==
  ASSUME TypeInv, NEW th \in Threads, AddOutcome(th) \/ AddNothing(th)
  PROVE  \E n \in {0, 1} : AddStep(th, n)
  BY BoundsTyped DEF TypeInv, TypeOK, AddOutcome, AddNothing, AddStep

(* A pool begins a new second, or counts on.                               *)
LEMMA AddIs ==
  ASSUME TypeInv, NEW th \in Threads, NEW n, AddStep(th, n)
  PROVE  LET p == Owner[th] IN
         /\ p \in Pools /\ n \in {0, 1}
         /\ current'[p] = [time |-> now, processed |-> Counted(p, n)]
         /\ current'[p] \in Sample /\ current'[p].processed <= reported'
         /\ reported' = reported + n
         /\ \A q \in Pools \ {p} : current'[q] = current[q] /\ history'[q] = history[q]
         /\ current' \in [Pools -> Sample]
         /\ history' \in [Pools -> Histories]
         /\ IF MustShift(p) THEN history'[p] = Clear(ShiftCurrent(history[p], current[p]))
                            ELSE history'[p] = history[p]
<1> DEFINE p == Owner[th]
<1> USE DEF TypeInv, TypeOK
<1>1. p \in Pools /\ n \in {0, 1} /\ now \in Seconds
  BY OwnerTyped DEF AddStep
<1>2. current[p] \in Sample /\ current[p].processed <= reported /\ Filed(history[p])
  BY <1>1 DEF PoolsOK
<1>3. reported' = reported + n /\ reported \in Nat /\ reported + n <= MaxOutcomes
  BY <1>1, BoundsTyped DEF AddStep, Add
<1>4. Counted(p, n) \in 0 .. MaxOutcomes /\ Counted(p, n) <= reported + n
  BY <1>1, <1>2, <1>3, BoundsTyped DEF Counted, Sample
<1> DEFINE s == [time |-> now, processed |-> Counted(p, n)]
<1>5. s \in Sample
  BY <1>1, <1>4 DEF Sample
<1>6. current' = [current EXCEPT ![p] = s]
  BY DEF AddStep, Add
<1>7. current' \in [Pools -> Sample] /\ current'[p] = s
  BY <1>1, <1>5, <1>6
<1>8. history' = [history EXCEPT ![p] = IF MustShift(p) THEN Clear(ShiftCurrent(@, current[p])) ELSE @]
  BY DEF AddStep, Add
<1>9. Clear(ShiftCurrent(history[p], current[p])) \in Histories
  BY <1>1, <1>2, ShiftIs
<1>10. history' \in [Pools -> Histories]
  BY <1>1, <1>8, <1>9
<1>11. \A q \in Pools \ {p} : current'[q] = current[q] /\ history'[q] = history[q]
  BY <1>6, <1>8
<1>12. IF MustShift(p) THEN history'[p] = Clear(ShiftCurrent(history[p], current[p]))
                       ELSE history'[p] = history[p]
  BY <1>1, <1>8
<1>13. s.processed <= reported'
  BY <1>3, <1>4
<1>14. QED
  BY <1>1, <1>3, <1>7, <1>10, <1>11, <1>12, <1>13

LEMMA AddTyped ==
  ASSUME TypeInv, NEW th \in Threads, NEW n, AddStep(th, n)
  PROVE  TypeInv'
<1> DEFINE p == Owner[th]
<1>1. /\ p \in Pools /\ n \in {0, 1}
      /\ current'[p].processed <= reported'
      /\ reported' = reported + n
      /\ \A q \in Pools \ {p} : current'[q] = current[q] /\ history'[q] = history[q]
      /\ current' \in [Pools -> Sample]
      /\ history' \in [Pools -> Histories]
      /\ IF MustShift(p) THEN history'[p] = Clear(ShiftCurrent(history[p], current[p]))
                         ELSE history'[p] = history[p]
  BY AddIs
<1>2. /\ place[th] = "idle" /\ place' = [place EXCEPT ![th] = IF MustShift(p) THEN "shifted" ELSE @]
      /\ outcomes' = [outcomes EXCEPT ![p][now] = @ + n]
      /\ UNCHANGED <<now, setBack, held, keys, samples, late, live, global, updating, next, seen, sum, updates,
                     overlapped>>
  BY DEF AddStep, Add, shownVars, updateVars
<1>3. reported \in Nat /\ reported' \in 0 .. MaxOutcomes
  BY <1>1, BoundsTyped DEF TypeInv, TypeOK, AddStep
<1>4. place' \in [Threads -> {"idle", "shifted", "got"}]
  BY <1>2 DEF TypeInv, TypeOK
<1>5. outcomes' \in [Pools -> [Seconds -> Nat]]
  BY <1>1, <1>2 DEF TypeInv, TypeOK
<1>6. Listed' = Listed
  BY <1>2 DEF Listed
<1>7. TypeOK'
  BY <1>1, <1>2, <1>3, <1>4, <1>5, <1>6 DEF TypeInv, TypeOK
<1>8. DOMAIN history'[p] # {} \/ ~MustShift(p)
  <2>1. history[p] \in Histories /\ Filed(history[p]) /\ current[p] \in Sample
    BY <1>1 DEF TypeInv, TypeOK, PoolsOK
  <2>2. QED
    BY <1>1, <2>1, ShiftIs
<1>9. Filed(history'[p])
  <2>1. history[p] \in Histories /\ Filed(history[p]) /\ current[p] \in Sample
    BY <1>1 DEF TypeInv, TypeOK, PoolsOK
  <2>2. QED
    BY <1>1, <2>1, ShiftIs
<1>10. \A q \in Pools : Filed(history'[q]) /\ current'[q].processed <= reported'
  <2> SUFFICES ASSUME NEW q \in Pools, q # p PROVE Filed(history'[q]) /\ current'[q].processed <= reported'
    BY <1>1, <1>9
  <2>1. Filed(history[q]) /\ current[q].processed <= reported /\ current[q].processed \in Nat
    BY BoundsTyped DEF TypeInv, TypeOK, PoolsOK, Sample
  <2>2. QED
    BY <1>1, <1>3, <2>1
<1>11. \A q \in Pools : DOMAIN history[q] # {} => DOMAIN history'[q] # {}
  BY <1>1, <1>8
<1>12. PoolsOK'
  <2>1. ASSUME NEW x \in Threads, place'[x] # "idle" PROVE DOMAIN history'[Owner[x]] # {}
    <3>1. CASE x = th
      BY <1>2, <1>8, <2>1, <3>1 DEF TypeInv, TypeOK
    <3>2. CASE x # th
      BY <1>2, <1>11, <2>1, <3>2, OwnerTyped DEF TypeInv, TypeOK, PoolsOK
    <3>3. QED
      BY <3>1, <3>2
  <2>2. ASSUME NEW q \in Listed' PROVE DOMAIN history'[q] # {}
    BY <1>6, <1>11, ListedTyped DEF TypeInv, PoolsOK
  <2>3. QED
    BY <1>10, <2>1, <2>2 DEF PoolsOK
<1>13. UpdatersOK' /\ KeysOK'
  BY <1>2 DEF TypeInv, UpdatersOK, KeysOK
<1>14. QED
  BY <1>7, <1>12, <1>13 DEF TypeInv

LEMMA LastSampleTyped ==
  ASSUME TypeInv, NEW th \in Threads, place[th] # "idle"
  PROVE  /\ LastSample(Owner[th]) \in Sample
         /\ LastSample(Owner[th]).time = Newest(history[Owner[th]])
         /\ Newest(history[Owner[th]]) \in DOMAIN history[Owner[th]]
<1> DEFINE h == history[Owner[th]]
<1>1. h \in Histories /\ DOMAIN h # {} /\ Filed(h)
  BY OwnerTyped DEF TypeInv, TypeOK, PoolsOK
<1>2. Newest(h) \in DOMAIN h
  BY <1>1, NewestIs
<1>3. h[Newest(h)] \in Sample /\ h[Newest(h)].time = Newest(h)
  BY <1>1, <1>2, HistoryIs DEF Filed
<1>4. QED
  BY <1>2, <1>3 DEF LastSample

LEMMA GetLastTyped ==
  ASSUME TypeInv, NEW th \in Threads, GetLast(th)
  PROVE  TypeInv'
<1>1. /\ held' = [held EXCEPT ![th] = LastSample(Owner[th])]
      /\ place[th] = "shifted" /\ place' = [place EXCEPT ![th] = "got"]
      /\ UNCHANGED <<now, setBack, current, history, outcomes, reported, keys, samples, late, live, global,
                     updating, next, seen, sum, updates, overlapped>>
  BY DEF GetLast, poolVars, shownVars, updateVars
<1>2. LastSample(Owner[th]) \in Sample
  BY <1>1, LastSampleTyped
<1>3. held' \in [Threads -> Sample] /\ place' \in [Threads -> {"idle", "shifted", "got"}] /\ Listed' = Listed
  BY <1>1, <1>2 DEF TypeInv, TypeOK, Listed
<1>4. TypeOK'
  BY <1>1, <1>3 DEF TypeInv, TypeOK
<1>5. \A x \in Threads : place'[x] # "idle" => DOMAIN history[Owner[x]] # {}
  BY <1>1 DEF TypeInv, TypeOK, PoolsOK
<1>6. PoolsOK'
  BY <1>1, <1>3, <1>5 DEF TypeInv, PoolsOK
<1>7. QED
  BY <1>1, <1>4, <1>6 DEF TypeInv, UpdatersOK, KeysOK

(* The dictionary gets at most one key more, at the end.                   *)
LEMMA NewKeysIs ==
  ASSUME TypeInv, NEW p \in Pools
  PROVE  /\ NewKeys(p) \in Seq(Pools)
         /\ \A k \in DOMAIN keys : k \in DOMAIN NewKeys(p) /\ NewKeys(p)[k] = keys[k]
         /\ {NewKeys(p)[k] : k \in DOMAIN NewKeys(p)} = Listed \cup {p}
         /\ \A i, j \in DOMAIN NewKeys(p) : NewKeys(p)[i] = NewKeys(p)[j] => i = j
         /\ p \notin Listed => NewKeys(p) = Append(keys, p)
         /\ Len(NewKeys(p)) >= Len(keys)
<1>1. keys \in Seq(Pools) /\ Len(keys) \in Nat /\ DOMAIN keys = 1 .. Len(keys)
      /\ \A i, j \in DOMAIN keys : keys[i] = keys[j] => i = j
  BY LenProperties DEF TypeInv, TypeOK, KeysOK
<1>2. CASE p \in Listed
  <2>1. NewKeys(p) = keys /\ Listed \cup {p} = Listed
    BY <1>2 DEF NewKeys
  <2>2. {NewKeys(p)[k] : k \in DOMAIN NewKeys(p)} = Listed \cup {p}
    BY <2>1, Zenon DEF Listed
  <2>3. Len(NewKeys(p)) >= Len(keys)
    BY <1>1, <2>1
  <2>4. /\ NewKeys(p) \in Seq(Pools)
        /\ \A k \in DOMAIN keys : k \in DOMAIN NewKeys(p) /\ NewKeys(p)[k] = keys[k]
        /\ \A i, j \in DOMAIN NewKeys(p) : NewKeys(p)[i] = NewKeys(p)[j] => i = j
    BY <1>1, <2>1
  <2>5. QED
    BY <1>2, <2>2, <2>3, <2>4
<1>3. CASE p \notin Listed
  <2> DEFINE a == Append(keys, p)
  <2>1. NewKeys(p) = a
    BY <1>3 DEF NewKeys
  <2>2. /\ a \in Seq(Pools) /\ Len(a) = Len(keys) + 1
        /\ \A k \in 1 .. Len(keys) : a[k] = keys[k]
        /\ a[Len(keys) + 1] = p
    BY <1>1, AppendProperties
  <2>3. DOMAIN a = 1 .. Len(keys) + 1
    BY <2>2, LenProperties
  <2> HIDE DEF a
  <2>4. DOMAIN a = DOMAIN keys \cup {Len(keys) + 1} /\ Len(keys) + 1 \notin DOMAIN keys
    BY <1>1, <2>3
  <2>5. {a[k] : k \in DOMAIN a} = Listed \cup {p}
    BY <1>1, <2>2, <2>4 DEF Listed
  <2>6. \A k \in DOMAIN keys : keys[k] # p
    BY <1>3 DEF Listed
  <2>7. ASSUME NEW i \in DOMAIN a, NEW j \in DOMAIN a, a[i] = a[j] PROVE i = j
    BY <1>1, <2>2, <2>4, <2>6, <2>7
  <2>8. QED
    BY <1>1, <2>1, <2>2, <2>4, <2>5, <2>7 DEF a
<1>4. QED
  BY <1>2, <1>3

LEMMA AddSampleLists ==
  ASSUME TypeInv, NEW th \in Threads, AddSample(th)
  PROVE  Listed' = Listed \cup {Owner[th]}
<1>1. {NewKeys(Owner[th])[k] : k \in DOMAIN NewKeys(Owner[th])} = Listed \cup {Owner[th]}
  BY NewKeysIs, OwnerTyped
<1>2. keys' = NewKeys(Owner[th])
  BY DEF AddSample
<1>3. Listed' = {keys'[k] : k \in DOMAIN keys'}
  BY DEF Listed
<1>4. QED
  BY <1>1, <1>2, <1>3

LEMMA AddSampleTyped ==
  ASSUME TypeInv, NEW th \in Threads, AddSample(th)
  PROVE  TypeInv'
<1> DEFINE p == Owner[th]
<1>1. /\ place[th] = "got" /\ place' = [place EXCEPT ![th] = "idle"]
      /\ keys' = NewKeys(p)
      /\ samples' = [q \in Listed \cup {p} |-> IF q = p THEN held[th] ELSE samples[q]]
      /\ late' \in {late, late + 1}
      /\ held' = [held EXCEPT ![th] = NoOutcomes(1)]
      /\ UNCHANGED <<now, setBack, current, history, outcomes, reported, live, global, updating, next, seen, sum,
                     updates, overlapped>>
  BY DEF AddSample, poolVars, updateVars
<1>2. p \in Pools
  BY OwnerTyped
<1>3. keys' \in Seq(Pools) /\ Listed' = Listed \cup {p} /\ Len(keys') >= Len(keys) /\ KeysOK'
  <2>1. /\ keys' \in Seq(Pools) /\ Len(keys') >= Len(keys)
        /\ {keys'[k] : k \in DOMAIN keys'} = Listed \cup {p}
        /\ \A i, j \in DOMAIN keys' : keys'[i] = keys'[j] => i = j
    BY <1>1, <1>2, NewKeysIs
  <2>2. Listed' = {keys'[k] : k \in DOMAIN keys'}
    BY DEF Listed
  <2>3. QED
    BY <2>1, <2>2 DEF KeysOK
<1>4. NoOutcomes(1) \in Sample
  BY BoundsTyped DEF NoOutcomes, Sample, Seconds
<1>5. /\ samples' \in [Listed' -> Sample] /\ held' \in [Threads -> Sample]
      /\ place' \in [Threads -> {"idle", "shifted", "got"}] /\ late' \in Nat
  BY <1>1, <1>3, <1>4 DEF TypeInv, TypeOK
<1>6. TypeOK'
  BY <1>1, <1>3, <1>5 DEF TypeInv, TypeOK
<1>7. \A x \in Threads : place'[x] # "idle" => DOMAIN history[Owner[x]] # {}
  BY <1>1 DEF TypeInv, TypeOK, PoolsOK
<1>8. \A q \in Listed' : DOMAIN history[q] # {}
  BY <1>1, <1>3 DEF TypeInv, TypeOK, PoolsOK
<1>9. PoolsOK'
  BY <1>1, <1>7, <1>8 DEF TypeInv, PoolsOK
<1>10. UpdatersOK'
  <2>1. Len(keys) \in Nat /\ Len(keys') \in Nat /\ \A u \in Updaters : seen[u] \in Nat
    BY <1>3, LenProperties DEF TypeInv, TypeOK
  <2>2. QED
    BY <1>1, <1>3, <2>1 DEF TypeInv, UpdatersOK
<1>11. QED
  BY <1>3, <1>6, <1>9, <1>10 DEF TypeInv

UpdateStep(u) == UpdateGlobalLive(u) \/ UpdateEnds(u) \/ ReadTotal(u) \/ WriteTotal(u)

LEMMA ReadIs ==
  ASSUME TypeInv, NEW u \in Updaters, ReadTotal(u)
  PROVE  samples[keys[next[u]]] \in Sample
<1>1. next[u] \in DOMAIN keys
  <2>1. Len(keys) \in Nat /\ DOMAIN keys = 1 .. Len(keys) /\ next[u] \in Nat /\ seen[u] \in Nat
    BY LenProperties DEF TypeInv, TypeOK
  <2>2. next[u] \in 1 .. seen[u] + 1 /\ next[u] <= seen[u] /\ Len(keys) = seen[u]
    BY DEF ReadTotal, TypeInv, UpdatersOK
  <2>3. QED
    BY <2>1, <2>2
<1>2. keys[next[u]] \in Listed
  BY <1>1 DEF Listed
<1>3. QED
  BY <1>2 DEF TypeInv, TypeOK

LEMMA UpdateTyped ==
  ASSUME TypeInv, NEW u \in Updaters, UpdateStep(u)
  PROVE  TypeInv'
<1>1. UNCHANGED <<now, setBack, current, history, outcomes, reported, place, held, keys, samples, late>>
  BY DEF UpdateStep, UpdateGlobalLive, UpdateEnds, ReadTotal, WriteTotal, poolVars, threadVars, shownVars
<1>2. Listed' = Listed /\ Len(keys) \in Nat
  BY <1>1, LenProperties DEF Listed, TypeInv, TypeOK
<1>3. PoolsOK' /\ KeysOK'
  BY <1>1, <1>2 DEF TypeInv, PoolsOK, KeysOK
<1> DEFINE UpdatesOK == /\ live \in Total /\ global \in Total
                        /\ updating \in [Updaters -> {"idle", "loop", "write"}]
                        /\ next \in [Updaters -> Nat] /\ seen \in [Updaters -> Nat]
                        /\ sum \in [Updaters -> Nat]
                        /\ updates \in 0 .. MaxUpdates
<1> USE DEF TypeInv, TypeOK
<1>4. CASE UpdateGlobalLive(u)
  <2>1. UpdatesOK' /\ overlapped' \in BOOLEAN
    <3>1. UpdatesOK'
      BY <1>2, <1>4, BoundsTyped DEF UpdateGlobalLive, CheckClear
    <3>2. overlapped' \in BOOLEAN
      BY <1>4, Zenon DEF UpdateGlobalLive
    <3>3. QED
      BY <3>1, <3>2
  <2>2. UpdatersOK'
    BY <1>1, <1>2, <1>4 DEF UpdateGlobalLive, UpdatersOK
  <2>3. QED
    BY <1>1, <1>2, <1>3, <2>1, <2>2
<1>5. CASE UpdateEnds(u)
  <2>1. UpdatesOK' /\ overlapped' = overlapped
    BY <1>5 DEF UpdateEnds
  <2>2. UpdatersOK'
    BY <1>1, <1>5 DEF UpdateEnds, UpdatersOK
  <2>3. QED
    BY <1>1, <1>2, <1>3, <2>1, <2>2
<1>6. CASE ReadTotal(u)
  <2>1. samples[keys[next[u]]].processed \in Nat
    <3>1. samples[keys[next[u]]] \in Sample
      BY <1>6, ReadIs
    <3>2. QED
      BY <3>1, BoundsTyped DEF Sample
  <2>2. live.processed + samples[keys[next[u]]].processed \in Nat
    <3>1. live.processed \in Nat
      BY DEF Total
    <3>2. QED
      BY <2>1, <3>1
  <2>3. sum' \in [Updaters -> Nat]
    BY <1>6, <2>2 DEF ReadTotal
  <2>4. UpdatesOK' /\ overlapped' = overlapped
    BY <1>6, <2>3 DEF ReadTotal
  <2>5. UpdatersOK'
    BY <1>1, <1>6 DEF ReadTotal, UpdatersOK
  <2>6. QED
    BY <1>1, <1>2, <1>3, <2>4, <2>5
<1>7. CASE WriteTotal(u)
  <2>1. [time |-> now, processed |-> sum[u]] \in Total
    BY DEF Total
  <2>2. UpdatesOK' /\ overlapped' = overlapped
    BY <1>7, <2>1 DEF WriteTotal
  <2>3. UpdatersOK'
    BY <1>1, <1>7 DEF WriteTotal, UpdatersOK
  <2>4. QED
    BY <1>1, <1>2, <1>3, <2>2, <2>3
<1>8. QED
  BY <1>4, <1>5, <1>6, <1>7 DEF UpdateStep

LEMMA ClockTyped ==
  ASSUME TypeInv, Tick \/ SetBack \/ UNCHANGED vars
  PROVE  TypeInv'
<1>1. UNCHANGED <<poolVars, threadVars, shownVars, updateVars>>
  BY DEF Tick, SetBack, vars
<1>2. now' \in Seconds
  BY BoundsTyped DEF Tick, SetBack, vars, TypeInv, TypeOK, Seconds
<1>3. setBack' \in BOOLEAN
  BY Zenon DEF Tick, SetBack, vars, TypeInv, TypeOK
<1>4. Listed' = Listed
  BY <1>1 DEF Listed, shownVars
<1>5. QED
  BY <1>1, <1>2, <1>3, <1>4
     DEF TypeInv, TypeOK, PoolsOK, UpdatersOK, KeysOK, poolVars, threadVars, shownVars, updateVars

(* The steps there are.                                                    *)
LEMMA Steps ==
  ASSUME TypeInv, [Next]_vars
  PROVE  \/ Tick \/ SetBack \/ UNCHANGED vars
         \/ \E th \in Threads, n \in {0, 1} : AddStep(th, n)
         \/ \E th \in Threads : GetLast(th) \/ AddSample(th)
         \/ \E u \in Updaters : UpdateStep(u)
<1>1. ASSUME NEW th \in Threads, AddOutcome(th) \/ AddNothing(th)
      PROVE  \E x \in Threads, n \in {0, 1} : AddStep(x, n)
  BY <1>1, AddSteps
<1>2. QED
  BY <1>1 DEF Next, HandOver, UpdateStep, Threads

LEMMA NextTyped == TypeInv /\ [Next]_vars => TypeInv'
<1> SUFFICES ASSUME TypeInv, [Next]_vars PROVE TypeInv'
  OBVIOUS
<1>1. QED
  BY Steps, ClockTyped, AddTyped, GetLastTyped, AddSampleTyped, UpdateTyped

THEOREM MetricsTypeCorrect == Spec => []TypeInv
  BY InitTyped, NextTyped, PTL DEF Spec

-----------------------------------------------------------------------------
(* Samples are right                                                       *)

(* A sample that is over has the outcomes of its second.                   *)
Agrees(p, s) == s.time < current[p].time /\ s.processed = outcomes[p][s.time]

CurrentRight(p) ==
  /\ current[p].time <= now
  /\ current[p].processed = outcomes[p][current[p].time]
  /\ \A t \in Seconds : current[p].time < t => outcomes[p][t] = 0

CountsOK ==
  /\ \A p \in Pools : CurrentRight(p) /\ \A t \in DOMAIN history[p] : Agrees(p, history[p][t])
  /\ \A th \in Threads : place[th] = "got" => Agrees(Owner[th], held[th])
  /\ \A p \in Listed : Agrees(p, samples[p])

LEMMA CountsInit == Init => CountsOK
<1> SUFFICES ASSUME Init PROVE CountsOK
  OBVIOUS
<1>1. DOMAIN << >> = {}
  BY EmptySeq, LenProperties
<1>2. Listed = {}
  BY <1>1 DEF Init, Listed
<1>3. \A p \in Pools : DOMAIN history[p] = {} /\ CurrentRight(p)
  BY <1>1, BoundsTyped DEF Init, CurrentRight, NoOutcomes, Seconds
<1>4. QED
  BY <1>2, <1>3 DEF Init, CountsOK

(* What was right when a pool counts an outcome stays right.               *)
LEMMA AgreesStays ==
  ASSUME TypeInv, CountsOK, NEW th \in Threads, NEW n, AddStep(th, n)
  PROVE  /\ \A q \in Pools : CurrentRight(q)'
         /\ \A q \in Pools, s \in Sample : Agrees(q, s) => Agrees(q, s)'
         /\ MustShift(Owner[th]) => \A s \in Sample : s = current[Owner[th]] => Agrees(Owner[th], s)'
<1> DEFINE p == Owner[th]
<1>1. /\ p \in Pools /\ n \in {0, 1}
      /\ current'[p] = [time |-> now, processed |-> Counted(p, n)]
      /\ \A q \in Pools \ {p} : current'[q] = current[q]
  BY AddIs
<1>2. outcomes' = [outcomes EXCEPT ![p][now] = @ + n] /\ now' = now
  BY DEF AddStep, Add
<1>3. /\ now \in Seconds /\ \A t \in Seconds : t \in Int
      /\ \A q \in Pools : current[q].time \in Seconds /\ current[q].processed \in Nat
  BY BoundsTyped DEF TypeInv, TypeOK, Sample, Seconds
<1>4. /\ outcomes'[p][now] = outcomes[p][now] + n
      /\ \A t \in Seconds \ {now} : outcomes'[p][t] = outcomes[p][t]
      /\ \A q \in Pools \ {p} : outcomes'[q] = outcomes[q]
  BY <1>1, <1>2, <1>3 DEF TypeInv, TypeOK
<1>5. \A t \in Seconds : outcomes[p][t] \in Nat
  BY <1>1 DEF TypeInv, TypeOK
<1>6. CurrentRight(p)
  BY <1>1 DEF CountsOK
<1> HIDE DEF p
<1>7. outcomes[p][now] + n = Counted(p, n)
  <2>1. CASE MustShift(p)
    <3>1. outcomes[p][now] = 0
      BY <1>1, <1>3, <1>6, <2>1 DEF MustShift, CurrentRight
    <3>2. QED
      BY <1>1, <2>1, <3>1 DEF Counted
  <2>2. CASE ~MustShift(p)
    BY <1>1, <1>6, <2>2 DEF MustShift, Counted, CurrentRight
  <2>3. QED
    BY <2>1, <2>2
<1>8. CurrentRight(p)'
  <2>1. current'[p].time = now /\ current'[p].processed = outcomes'[p][now]
    BY <1>1, <1>4, <1>7
  <2>2. ASSUME NEW t \in Seconds, now < t PROVE outcomes'[p][t] = 0
    <3>1. t # now /\ current[p].time < t
      BY <1>1, <1>3, <1>6, <2>2 DEF CurrentRight
    <3>2. QED
      BY <1>4, <1>6, <3>1 DEF CurrentRight
  <2>3. QED
    BY <1>2, <1>3, <2>1, <2>2 DEF CurrentRight
<1>9. ASSUME NEW q \in Pools, q # p PROVE CurrentRight(q)'
  BY <1>1, <1>2, <1>4, <1>9 DEF CurrentRight, CountsOK
<1>10. ASSUME NEW q \in Pools, NEW s \in Sample, Agrees(q, s) PROVE Agrees(q, s)'
  <2>1. CASE q # p
    BY <1>1, <1>4, <1>10, <2>1 DEF Agrees
  <2>2. CASE q = p
    <3>1. s.time \in Seconds /\ s.time < current[p].time /\ s.processed = outcomes[p][s.time]
      BY <1>10, <2>2 DEF Agrees, Sample
    <3>2. s.time < now /\ s.time # now
      BY <1>1, <1>3, <1>6, <3>1 DEF CurrentRight
    <3>3. QED
      BY <1>1, <1>4, <2>2, <3>1, <3>2 DEF Agrees
  <2>3. QED
    BY <2>1, <2>2
<1>11. ASSUME MustShift(p), NEW s \in Sample, s = current[p] PROVE Agrees(p, s)'
  <2>1. current[p].time < now /\ current[p].time # now /\ current[p].time \in Seconds
    BY <1>1, <1>3, <1>6, <1>11 DEF MustShift, CurrentRight
  <2>2. current[p].processed = outcomes'[p][current[p].time]
    BY <1>4, <1>6, <2>1 DEF CurrentRight
  <2>3. QED
    BY <1>1, <1>11, <2>1, <2>2 DEF Agrees
<1>12. QED
  BY <1>8, <1>9, <1>10, <1>11 DEF p

LEMMA CountsByAdd ==
  ASSUME TypeInv, CountsOK, NEW th \in Threads, NEW n, AddStep(th, n)
  PROVE  CountsOK'
<1> DEFINE p == Owner[th]
<1>1. /\ p \in Pools
      /\ \A q \in Pools \ {p} : history'[q] = history[q]
      /\ IF MustShift(p) THEN history'[p] = Clear(ShiftCurrent(history[p], current[p]))
                         ELSE history'[p] = history[p]
  BY AddIs
<1>2. /\ \A x \in Threads : place'[x] = "got" => place[x] = "got"
      /\ UNCHANGED <<held, keys, samples>>
  BY DEF AddStep, Add, shownVars, TypeInv, TypeOK
<1>3. /\ \A q \in Pools : CurrentRight(q)'
      /\ \A q \in Pools, s \in Sample : Agrees(q, s) => Agrees(q, s)'
      /\ MustShift(p) => \A s \in Sample : s = current[p] => Agrees(p, s)'
  BY AgreesStays
<1>4. ASSUME NEW q \in Pools, NEW t \in DOMAIN history'[q] PROVE Agrees(q, history[q][t])'
  <2>1. /\ history[q] \in Histories /\ Filed(history[q]) /\ current[q] \in Sample
        /\ \A u \in DOMAIN history[q] : history[q][u] \in Sample /\ Agrees(q, history[q][u])
    BY HistoryIs DEF TypeInv, TypeOK, PoolsOK, CountsOK
  <2>2. PICK s \in Sample : s = history'[q][t] /\ Agrees(q, s)'
    <3>1. CASE t \in DOMAIN history[q] /\ history'[q][t] = history[q][t]
      BY <1>3, <2>1, <3>1
    <3>2. CASE q = p /\ MustShift(p) /\ history'[q][t] = current[p]
      BY <1>3, <2>1, <3>2
    <3>3. CASE ~(q = p /\ MustShift(p))
      <4>1. history'[q] = history[q]
        BY <1>1, <3>3
      <4>2. QED
        BY <1>4, <3>1, <4>1
    <3>4. CASE q = p /\ MustShift(p)
      <4>1. history'[q][t] = current[p] \/ (t \in DOMAIN history[q] /\ history'[q][t] = history[q][t])
        BY <1>1, <1>4, <2>1, <3>4, ShiftIs
      <4>2. QED
        BY <3>1, <3>2, <3>4, <4>1
    <3>5. QED
      BY <3>3, <3>4
  <2>3. QED
    BY <2>2 DEF Agrees
<1>5. ASSUME NEW x \in Threads, place'[x] = "got" PROVE Agrees(Owner[x], held[x])'
  <2>1. PICK s \in Sample : s = held[x] /\ Agrees(Owner[x], s)
    BY <1>2, <1>5 DEF TypeInv, TypeOK, CountsOK
  <2>2. Agrees(Owner[x], s)' /\ held'[x] = s
    BY <1>2, <1>3, <2>1, OwnerTyped
  <2>3. QED
    BY <2>2 DEF Agrees
<1>6. ASSUME NEW q \in Listed' PROVE Agrees(q, samples[q])'
  <2>1. q \in Listed /\ q \in Pools
    BY <1>2, <1>6, ListedTyped DEF Listed, TypeInv
  <2>2. PICK s \in Sample : s = samples[q] /\ Agrees(q, s)
    BY <2>1 DEF TypeInv, TypeOK, CountsOK
  <2>3. Agrees(q, s)' /\ samples'[q] = s
    BY <1>2, <1>3, <2>1, <2>2
  <2>4. QED
    BY <2>3 DEF Agrees
<1>7. QED
  BY <1>3, <1>4, <1>5, <1>6 DEF CountsOK

(* The hand-over, the totals and the clock leave what was counted alone.   *)
LEMMA CountsByOther ==
  ASSUME TypeInv, CountsOK, ~setBack',
         \/ Tick \/ SetBack \/ UNCHANGED vars
         \/ \E th \in Threads : GetLast(th) \/ AddSample(th)
         \/ \E u \in Updaters : UpdateStep(u)
  PROVE  CountsOK'
<1>1. UNCHANGED <<current, history, outcomes>> /\ now \in Int /\ now' \in Int /\ now' >= now
  <2>1. ~SetBack
    BY DEF SetBack
  <2>2. now \in Int
    BY BoundsTyped DEF TypeInv, TypeOK, Seconds
  <2>3. now' \in {now, now + 1}
    BY <2>1 DEF Tick, vars, GetLast, AddSample, UpdateStep, UpdateGlobalLive, UpdateEnds, ReadTotal, WriteTotal
  <2>4. UNCHANGED poolVars
    BY DEF Tick, SetBack, vars, GetLast, AddSample, UpdateStep, UpdateGlobalLive, UpdateEnds, ReadTotal, WriteTotal
  <2>5. QED
    BY <2>2, <2>3, <2>4 DEF poolVars
<1>2. \A q \in Pools : CurrentRight(q)' /\ \A t \in DOMAIN history'[q] : Agrees(q, history'[q][t])
  <2> SUFFICES ASSUME NEW q \in Pools
               PROVE  CurrentRight(q)' /\ \A t \in DOMAIN history'[q] : Agrees(q, history'[q][t])
    OBVIOUS
  <2>1. CurrentRight(q) /\ \A t \in DOMAIN history[q] : Agrees(q, history[q][t])
    BY DEF CountsOK
  <2>2. current[q].time \in Int
    BY BoundsTyped DEF TypeInv, TypeOK, Sample, Seconds
  <2>3. CurrentRight(q)'
    BY <1>1, <2>1, <2>2 DEF CurrentRight
  <2>4. QED
    BY <1>1, <2>1, <2>3
<1>3. \A q, s : Agrees(q, s)' <=> Agrees(q, s)
  BY <1>1 DEF Agrees
<1>4. ASSUME NEW th \in Threads, GetLast(th)
      PROVE  /\ \A x \in Threads : place'[x] = "got" => Agrees(Owner[x], held'[x])
             /\ \A q \in Listed' : Agrees(q, samples'[q])
  <2>1. /\ held' = [held EXCEPT ![th] = LastSample(Owner[th])]
        /\ place' = [place EXCEPT ![th] = "got"] /\ place[th] = "shifted"
        /\ UNCHANGED <<keys, samples>>
    BY <1>4 DEF GetLast, shownVars
  <2>2. Agrees(Owner[th], LastSample(Owner[th]))
    BY <2>1, LastSampleTyped, OwnerTyped DEF CountsOK, LastSample
  <2>3. \A x \in Threads : place'[x] = "got" => Agrees(Owner[x], held'[x])
    BY <2>1, <2>2 DEF CountsOK, TypeInv, TypeOK
  <2>4. QED
    BY <2>1, <2>3 DEF CountsOK, Listed
<1>5. ASSUME NEW th \in Threads, AddSample(th)
      PROVE  /\ \A x \in Threads : place'[x] = "got" => Agrees(Owner[x], held'[x])
             /\ \A q \in Listed' : Agrees(q, samples'[q])
  <2> DEFINE p == Owner[th]
  <2>1. /\ held' = [held EXCEPT ![th] = NoOutcomes(1)]
        /\ place' = [place EXCEPT ![th] = "idle"] /\ place[th] = "got"
        /\ samples' = [q \in Listed \cup {p} |-> IF q = p THEN held[th] ELSE samples[q]]
    BY <1>5 DEF AddSample
  <2>2. Listed' = Listed \cup {p}
    BY <1>5, AddSampleLists
  <2>3. \A x \in Threads : place'[x] = "got" => Agrees(Owner[x], held'[x])
    BY <2>1 DEF CountsOK, TypeInv, TypeOK
  <2>4. \A q \in Listed' : Agrees(q, samples'[q])
    BY <2>1, <2>2 DEF CountsOK
  <2>5. QED
    BY <2>3, <2>4
<1>6. ASSUME UNCHANGED <<place, held, keys, samples>>
      PROVE  /\ \A x \in Threads : place'[x] = "got" => Agrees(Owner[x], held'[x])
             /\ \A q \in Listed' : Agrees(q, samples'[q])
  BY <1>6 DEF CountsOK, Listed
<1>7. /\ \A x \in Threads : place'[x] = "got" => Agrees(Owner[x], held'[x])
      /\ \A q \in Listed' : Agrees(q, samples'[q])
  <2>1. CASE \E th \in Threads : GetLast(th) \/ AddSample(th)
    BY <1>4, <1>5, <2>1
  <2>2. CASE ~\E th \in Threads : GetLast(th) \/ AddSample(th)
    <3>1. UNCHANGED <<place, held, keys, samples>>
      BY <2>2 DEF Tick, SetBack, vars, threadVars, shownVars, UpdateStep, UpdateGlobalLive, UpdateEnds, ReadTotal,
                  WriteTotal
    <3>2. QED
      BY <1>6, <3>1
  <2>3. QED
    BY <2>1, <2>2
<1>8. ASSUME NEW q \in Pools, NEW t \in DOMAIN history'[q] PROVE Agrees(q, history[q][t])'
  BY <1>1, <1>2, <1>8 DEF Agrees
<1>9. ASSUME NEW x \in Threads, place'[x] = "got" PROVE Agrees(Owner[x], held[x])'
  BY <1>1, <1>7, <1>9 DEF Agrees
<1>10. ASSUME NEW q \in Listed' PROVE Agrees(q, samples[q])'
  BY <1>1, <1>7, <1>10 DEF Agrees
<1>11. QED
  BY <1>2, <1>8, <1>9, <1>10 DEF CountsOK

LEMMA CountsNext ==
  ASSUME TypeInv, ~setBack => CountsOK, [Next]_vars
  PROVE  ~setBack' => CountsOK'
<1> SUFFICES ASSUME ~setBack' PROVE CountsOK'
  OBVIOUS
<1>1. ~setBack
  BY Steps DEF Tick, SetBack, vars, AddStep, Add, GetLast, AddSample, UpdateStep, UpdateGlobalLive, UpdateEnds,
               ReadTotal, WriteTotal
<1>2. QED
  BY <1>1, Steps, CountsByAdd, CountsByOther

-----------------------------------------------------------------------------
(* The newest sample is not left behind                                    *)

Last(p) == Newest(history[p])

NothingNewer ==
  /\ \A th \in Threads : place[th] = "got" => held[th].time <= Last(Owner[th])
  /\ \A p \in Listed : samples[p].time <= Last(p)

(* The newest sample of p is on its way, or shown.                         *)
Comes(p, th) ==
  /\ Owner[th] = p
  /\ place[th] = "shifted" \/ (place[th] = "got" /\ held[th].time = Last(p))

NewestComes(p) ==
  \/ \E th \in Threads : Comes(p, th)
  \/ p \in Listed /\ samples[p].time = Last(p)

NewestOK ==
  /\ NothingNewer
  /\ late = 0 => \A p \in ShowInUi : DOMAIN history[p] # {} => NewestComes(p)

LEMMA NewestInit == Init => NewestOK
<1> SUFFICES ASSUME Init PROVE NewestOK
  OBVIOUS
<1>1. DOMAIN << >> = {}
  BY EmptySeq, LenProperties
<1>2. Listed = {} /\ \A p \in Pools : DOMAIN history[p] = {}
  BY <1>1 DEF Init, Listed
<1>3. QED
  BY <1>2, MetricsAssumption DEF Init, NewestOK, NothingNewer

LEMMA NewestByAdd ==
  ASSUME TypeInv, NewestOK, NEW th \in Threads, NEW n, AddStep(th, n)
  PROVE  NewestOK'
<1> DEFINE p == Owner[th]
<1>1. /\ p \in Pools
      /\ \A q \in Pools \ {p} : history'[q] = history[q]
      /\ IF MustShift(p) THEN history'[p] = Clear(ShiftCurrent(history[p], current[p]))
                         ELSE history'[p] = history[p]
      /\ history' \in [Pools -> Histories]
  BY AddIs
<1>2. /\ place[th] = "idle" /\ place' = [place EXCEPT ![th] = IF MustShift(p) THEN "shifted" ELSE @]
      /\ UNCHANGED <<held, keys, samples, late>>
  BY DEF AddStep, Add, shownVars
<1>3. Listed' = Listed
  BY <1>2 DEF Listed
<1>4. /\ DOMAIN history[p] # {} => Last(p) <= Last(p)'
      /\ \A q \in Pools : q # p \/ ~MustShift(p) => history'[q] = history[q]
  <2>1. history[p] \in Histories /\ Filed(history[p]) /\ current[p] \in Sample
    BY <1>1 DEF TypeInv, TypeOK, PoolsOK
  <2>2. CASE MustShift(p)
    BY <1>1, <2>1, <2>2, ShiftIs DEF Last
  <2>3. CASE ~MustShift(p)
    <3>1. DOMAIN history[p] # {} => Newest(history[p]) \in Int
      BY <2>1, NewestIs, BoundsTyped DEF Seconds
    <3>2. QED
      BY <1>1, <2>3, <3>1 DEF Last
  <2>4. QED
    BY <2>2, <2>3
<1>5. ASSUME NEW q \in Pools, DOMAIN history[q] # {}
      PROVE  /\ Last(q) \in Int /\ Last(q)' \in Int /\ Last(q) <= Last(q)'
  <2>1. history[q] \in Histories /\ history'[q] \in Histories
    BY <1>1 DEF TypeInv, TypeOK
  <2>2. Newest(history[q]) \in Int
    BY <1>5, <2>1, NewestIs, BoundsTyped DEF Seconds
  <2>3. CASE q # p \/ ~MustShift(p)
    BY <1>4, <2>2, <2>3 DEF Last
  <2>4. CASE q = p /\ MustShift(p)
    <3>1. history[p] \in Histories /\ Filed(history[p]) /\ current[p] \in Sample
      BY <1>1 DEF TypeInv, TypeOK, PoolsOK
    <3>2. DOMAIN history'[p] # {}
      BY <1>1, <2>4, <3>1, ShiftIs
    <3>3. Newest(history'[q]) \in Int
      BY <2>1, <2>4, <3>2, NewestIs, BoundsTyped DEF Seconds
    <3>4. QED
      BY <1>4, <1>5, <2>2, <2>4, <3>3 DEF Last
  <2>5. QED
    BY <2>3, <2>4
<1>6. NothingNewer'
  <2>1. ASSUME NEW x \in Threads, place'[x] = "got" PROVE held'[x].time <= Last(Owner[x])'
    <3>1. place[x] = "got" /\ held'[x] = held[x] /\ held[x].time \in Int
      BY <1>2, <2>1, BoundsTyped DEF TypeInv, TypeOK, Sample, Seconds
    <3>2. held[x].time <= Last(Owner[x]) /\ DOMAIN history[Owner[x]] # {} /\ Owner[x] \in Pools
      BY <3>1, OwnerTyped DEF NewestOK, NothingNewer, TypeInv, PoolsOK
    <3>3. QED
      BY <1>5, <3>1, <3>2
  <2>2. ASSUME NEW q \in Listed PROVE samples'[q].time <= Last(q)'
    <3>1. samples'[q] = samples[q] /\ samples[q].time \in Int
      BY <1>2, BoundsTyped DEF TypeInv, TypeOK, Sample, Seconds
    <3>2. samples[q].time <= Last(q) /\ DOMAIN history[q] # {} /\ q \in Pools
      BY ListedTyped DEF NewestOK, NothingNewer, TypeInv, PoolsOK
    <3>3. QED
      BY <1>5, <3>1, <3>2
  <2>3. QED
    BY <1>3, <2>1, <2>2 DEF NothingNewer
<1>7. ASSUME late' = 0, NEW q \in ShowInUi, DOMAIN history'[q] # {} PROVE NewestComes(q)'
  <2>1. CASE q = p /\ MustShift(p)
    <3>1. Comes(q, th)'
      BY <1>2, <2>1 DEF Comes, TypeInv, TypeOK
    <3>2. QED
      BY <3>1 DEF NewestComes
  <2>2. CASE ~(q = p /\ MustShift(p))
    <3>1. history'[q] = history[q]
      BY <1>4, <2>2, MetricsAssumption
    <3>2. NewestComes(q)
      BY <1>2, <1>7, <3>1 DEF NewestOK
    <3>3. ASSUME NEW x \in Threads, Comes(q, x) PROVE Comes(q, x)'
      BY <1>2, <3>1, <3>3 DEF Comes, Last, TypeInv, TypeOK
    <3>4. QED
      BY <1>2, <1>3, <3>1, <3>2, <3>3 DEF NewestComes, Last
  <2>3. QED
    BY <2>1, <2>2
<1>8. QED
  BY <1>6, <1>7 DEF NewestOK

LEMMA NewestByGetLast ==
  ASSUME TypeInv, NewestOK, NEW th \in Threads, GetLast(th)
  PROVE  NewestOK'
<1> DEFINE p == Owner[th]
<1>1. /\ held' = [held EXCEPT ![th] = LastSample(p)]
      /\ place' = [place EXCEPT ![th] = "got"] /\ place[th] = "shifted"
      /\ UNCHANGED <<keys, samples, late, history>>
  BY DEF GetLast, shownVars, poolVars
<1>2. LastSample(p).time = Last(p) /\ Last(p) \in Int
  BY <1>1, LastSampleTyped, OwnerTyped, HistoryIs, BoundsTyped DEF Last, TypeInv, TypeOK
<1>3. held'[th].time = Last(p) /\ place'[th] = "got"
  BY <1>1, <1>2 DEF TypeInv, TypeOK
<1>4. Listed' = Listed /\ \A q : Last(q)' = Last(q)
  BY <1>1 DEF Listed, Last
<1>5. NothingNewer'
  BY <1>1, <1>2, <1>3, <1>4 DEF NewestOK, NothingNewer, TypeInv, TypeOK
<1>6. ASSUME late' = 0, NEW q \in ShowInUi, DOMAIN history'[q] # {} PROVE NewestComes(q)'
  <2>1. NewestComes(q)
    BY <1>1, <1>6 DEF NewestOK
  <2>2. ASSUME NEW x \in Threads, Comes(q, x) PROVE Comes(q, x)'
    BY <1>1, <1>3, <1>4, <2>2 DEF Comes, TypeInv, TypeOK
  <2>3. QED
    BY <1>1, <1>4, <2>1, <2>2 DEF NewestComes
<1>7. QED
  BY <1>5, <1>6 DEF NewestOK

LEMMA NewestByAddSample ==
  ASSUME TypeInv, NewestOK, NEW th \in Threads, AddSample(th)
  PROVE  NewestOK'
<1> DEFINE p == Owner[th]
<1>1. /\ held' = [held EXCEPT ![th] = NoOutcomes(1)]
      /\ place' = [place EXCEPT ![th] = "idle"] /\ place[th] = "got"
      /\ samples' = [q \in Listed \cup {p} |-> IF q = p THEN held[th] ELSE samples[q]]
      /\ late' = IF p \in ShowInUi \cap Listed /\ held[th].time < samples[p].time THEN late + 1 ELSE late
      /\ UNCHANGED history
  BY DEF AddSample, poolVars
<1>2. Listed' = Listed \cup {p} /\ \A q : Last(q)' = Last(q)
  BY <1>1, AddSampleLists DEF Last
<1>3. held[th].time <= Last(p)
  BY <1>1 DEF NewestOK, NothingNewer
<1>4. NothingNewer'
  <2>1. \A x \in Threads : place'[x] = "got" => held'[x].time <= Last(Owner[x])
    BY <1>1 DEF NewestOK, NothingNewer, TypeInv, TypeOK
  <2>2. \A q \in Listed \cup {p} : samples'[q].time <= Last(q)
    BY <1>1, <1>3 DEF NewestOK, NothingNewer
  <2>3. QED
    BY <1>2, <2>1, <2>2 DEF NothingNewer
<1>5. ASSUME late' = 0, NEW q \in ShowInUi, DOMAIN history'[q] # {} PROVE NewestComes(q)'
  <2>1. late = 0 /\ (q = p /\ q \in Listed => ~(held[th].time < samples[p].time))
    BY <1>1, <1>5 DEF TypeInv, TypeOK
  <2>2. NewestComes(q)
    BY <1>1, <1>5, <2>1 DEF NewestOK
  <2>3. CASE q # p
    <3>1. ASSUME NEW x \in Threads, Comes(q, x) PROVE Comes(q, x)'
      BY <1>1, <1>2, <2>3, <3>1 DEF Comes, TypeInv, TypeOK
    <3>2. QED
      BY <1>1, <1>2, <2>2, <2>3, <3>1 DEF NewestComes
  <2>4. CASE q = p
    <3>1. ASSUME NEW x \in Threads, Comes(q, x), x # th PROVE Comes(q, x)'
      BY <1>1, <1>2, <3>1 DEF Comes, TypeInv, TypeOK
    <3>2. CASE Comes(q, th)
      <4>1. held[th].time = Last(p)
        BY <1>1, <3>2 DEF Comes
      <4>2. samples'[p].time = Last(p)' /\ p \in Listed'
        BY <1>1, <1>2, <4>1
      <4>3. QED
        BY <2>4, <4>2 DEF NewestComes
    <3>3. CASE q \in Listed /\ samples[q].time = Last(q)
      <4>1. held[th].time \in Int /\ samples[q].time \in Int
        BY <3>3, BoundsTyped DEF TypeInv, TypeOK, Sample, Seconds
      <4>2. held[th].time = Last(p)
        BY <1>3, <2>1, <2>4, <3>3, <4>1
      <4>3. samples'[p].time = Last(p)' /\ p \in Listed'
        BY <1>1, <1>2, <4>2
      <4>4. QED
        BY <2>4, <4>3 DEF NewestComes
    <3>4. QED
      BY <2>2, <3>1, <3>2, <3>3 DEF NewestComes
  <2>5. QED
    BY <2>3, <2>4
<1>6. QED
  BY <1>4, <1>5 DEF NewestOK

LEMMA NewestNext ==
  ASSUME TypeInv, NewestOK, [Next]_vars
  PROVE  NewestOK'
<1>1. ASSUME UNCHANGED <<history, place, held, keys, samples, late>> PROVE NewestOK'
  <2>1. Listed' = Listed /\ \A q : Last(q)' = Last(q)
    BY <1>1 DEF Listed, Last
  <2>2. NothingNewer'
    BY <1>1, <2>1 DEF NewestOK, NothingNewer
  <2>3. \A q : NewestComes(q) => NewestComes(q)'
    BY <1>1, <2>1 DEF NewestComes, Comes
  <2>4. QED
    BY <1>1, <2>2, <2>3 DEF NewestOK
<1>2. CASE Tick \/ SetBack \/ UNCHANGED vars \/ \E u \in Updaters : UpdateStep(u)
  BY <1>1, <1>2 DEF Tick, SetBack, vars, poolVars, threadVars, shownVars, UpdateStep, UpdateGlobalLive, UpdateEnds,
                    ReadTotal, WriteTotal
<1>3. QED
  BY <1>2, Steps, NewestByAdd, NewestByGetLast, NewestByAddSample

(* Whatever the interleaving of a pool's threads, a sample that is shown   *)
(* has the outcomes of its second, and the newest comes to be shown.       *)
THEOREM SamplesAreRight == Spec => []SamplesRight
<1> DEFINE Inv == TypeInv /\ (~setBack => CountsOK) /\ NewestOK
<1>1. Init => Inv
  BY InitTyped, CountsInit, NewestInit
<1>2. Inv /\ [Next]_vars => Inv'
  BY NextTyped, CountsNext, NewestNext
<1>3. Inv => SamplesRight
  <2> SUFFICES ASSUME Inv, NEW p \in Listed
               PROVE  /\ ~setBack => samples[p].processed = outcomes[p][samples[p].time]
                      /\ Quiet(p) /\ late = 0 /\ p \in ShowInUi => samples[p].time = Newest(history[p])
    BY DEF SamplesRight
  <2>1. ~setBack => samples[p].processed = outcomes[p][samples[p].time]
    BY DEF CountsOK, Agrees
  <2>2. Quiet(p) /\ late = 0 /\ p \in ShowInUi => samples[p].time = Newest(history[p])
    BY DEF Quiet, NewestOK, NewestComes, Comes, Last, TypeInv, PoolsOK
  <2>3. QED
    BY <2>1, <2>2
<1> HIDE DEF Inv
<1>4. QED
  BY <1>1, <1>2, <1>3, PTL DEF Spec

-----------------------------------------------------------------------------
(* How often a thread can be late                                          *)

Busy == {th \in Threads : place[th] # "idle"}

(* The seconds that are over, with the threads that may have begun them.   *)
Past == {pair \in Threads \X Seconds : pair[2] < current[Owner[pair[1]]].time}

LateBounded == late + Cardinality(Busy) <= Cardinality(Past)

LEMMA FiniteSets ==
  /\ IsFiniteSet(Threads) /\ IsFiniteSet(Seconds) /\ IsFiniteSet(Busy) /\ IsFiniteSet(Past)
  /\ Cardinality(Threads) \in Nat /\ Cardinality(Busy) \in Nat /\ Cardinality(Past) \in Nat
  /\ Cardinality(Past) <= LastTime * Cardinality(Threads)
<1>1. IsFiniteSet(Threads)
  BY FS_Union, MetricsAssumption DEF Threads
<1>2. IsFiniteSet(Seconds) /\ Cardinality(Seconds) = LastTime
  BY FS_Interval, BoundsTyped DEF Seconds
<1>3. IsFiniteSet(Threads \X Seconds) /\ Cardinality(Threads \X Seconds) = Cardinality(Threads) * LastTime
  BY <1>1, <1>2, FS_Product
<1>4. IsFiniteSet(Busy)
  BY <1>1, FS_Subset DEF Busy
<1>5. IsFiniteSet(Past) /\ Cardinality(Past) <= Cardinality(Threads) * LastTime
  <2>1. Past \in SUBSET (Threads \X Seconds)
    BY DEF Past
  <2>2. QED
    BY <1>3, <2>1, FS_Subset
<1>6. Cardinality(Threads) \in Nat
  BY <1>1, FS_CardinalityType
<1>7. Cardinality(Threads) * LastTime = LastTime * Cardinality(Threads)
  BY <1>6, BoundsTyped
<1>8. QED
  BY <1>1, <1>2, <1>4, <1>5, <1>6, <1>7, FS_CardinalityType

LEMMA LateInit == Init => LateBounded
<1> SUFFICES ASSUME Init PROVE LateBounded
  OBVIOUS
<1>1. Busy = {} /\ late = 0
  BY DEF Init, Busy
<1>2. QED
  BY <1>1, FiniteSets, FS_EmptySet DEF LateBounded

LEMMA LateByAdd ==
  ASSUME TypeInv, CountsOK, LateBounded, NEW th \in Threads, NEW n, AddStep(th, n)
  PROVE  LateBounded'
<1> DEFINE p == Owner[th]
<1>1. /\ p \in Pools
      /\ current'[p].time = now
      /\ \A q \in Pools \ {p} : current'[q] = current[q]
  <2>1. /\ p \in Pools
        /\ current'[p] = [time |-> now, processed |-> Counted(p, n)]
        /\ \A q \in Pools \ {p} : current'[q] = current[q]
    BY AddIs
  <2>2. QED
    BY <2>1
<1>2. /\ place[th] = "idle" /\ place' = [place EXCEPT ![th] = IF MustShift(p) THEN "shifted" ELSE @]
      /\ late' = late
  BY DEF AddStep, Add, shownVars
<1>3. /\ \A q \in Pools : current[q].time \in Seconds
      /\ now \in Seconds /\ current[p].time <= now /\ \A t \in Seconds : t \in Int
  BY <1>1, BoundsTyped DEF TypeInv, TypeOK, Sample, CountsOK, CurrentRight, Seconds
<1>4. CASE MustShift(p)
  <2>1. Busy' = Busy \cup {th} /\ th \notin Busy
    BY <1>2, <1>4 DEF Busy, TypeInv, TypeOK
  <2>2. Cardinality(Busy)' = Cardinality(Busy) + 1
    BY <2>1, FiniteSets, FS_AddElement
  <2>3. current[p].time < now
    BY <1>1, <1>3, <1>4 DEF MustShift
  <2>4. Past \subseteq Past'
    <3> SUFFICES ASSUME NEW pair \in Threads \X Seconds, pair[2] < current[Owner[pair[1]]].time
                 PROVE  pair[2] < current'[Owner[pair[1]]].time
      BY DEF Past
    <3>1. pair[2] \in Int /\ Owner[pair[1]] \in Pools
      BY <1>3, OwnerTyped
    <3>2. QED
      BY <1>1, <1>3, <2>3, <3>1
  <2>5. <<th, current[p].time>> \in Past' /\ <<th, current[p].time>> \notin Past
    BY <1>1, <1>3, <2>3 DEF Past
  <2>6. IsFiniteSet(Past') /\ Cardinality(Past)' \in Nat
    <3>1. Past' \in SUBSET (Threads \X Seconds)
      BY DEF Past
    <3>2. IsFiniteSet(Threads \X Seconds)
      BY FiniteSets, FS_Product
    <3>3. QED
      BY <3>1, <3>2, FS_Subset, FS_CardinalityType
  <2>7. Cardinality(Past) <= Cardinality(Past') /\ Cardinality(Past) # Cardinality(Past')
    BY <2>4, <2>5, <2>6, FS_Subset
  <2>8. QED
    BY <1>2, <2>2, <2>6, <2>7, FiniteSets DEF LateBounded, TypeInv, TypeOK
<1>5. CASE ~MustShift(p)
  <2>1. Busy' = Busy
    BY <1>2, <1>5 DEF Busy, TypeInv, TypeOK
  <2>2. \A q \in Pools : current'[q].time = current[q].time
    BY <1>1, <1>5 DEF MustShift
  <2>3. Past' = Past
    BY <2>2, OwnerTyped DEF Past
  <2>4. QED
    BY <1>2, <2>1, <2>3 DEF LateBounded
<1>6. QED
  BY <1>4, <1>5

LEMMA LateByHandOver ==
  ASSUME TypeInv, LateBounded, NEW th \in Threads, GetLast(th) \/ AddSample(th)
  PROVE  LateBounded'
<1>1. Past' = Past
  BY DEF GetLast, AddSample, poolVars, Past
<1>2. CASE GetLast(th)
  <2>1. Busy' = Busy /\ late' = late
    BY <1>2 DEF GetLast, Busy, shownVars, TypeInv, TypeOK
  <2>2. QED
    BY <1>1, <2>1 DEF LateBounded
<1>3. CASE AddSample(th)
  <2>1. Busy' = Busy \ {th} /\ th \in Busy /\ late' \in {late, late + 1}
    BY <1>3 DEF AddSample, Busy, TypeInv, TypeOK
  <2>2. Cardinality(Busy)' = Cardinality(Busy) - 1
    BY <2>1, FiniteSets, FS_RemoveElement
  <2>3. QED
    BY <1>1, <2>1, <2>2, FiniteSets DEF LateBounded, TypeInv, TypeOK
<1>4. QED
  BY <1>2, <1>3

LEMMA LateNext ==
  ASSUME TypeInv, ~setBack => CountsOK /\ LateBounded, [Next]_vars
  PROVE  ~setBack' => LateBounded'
<1> SUFFICES ASSUME ~setBack' PROVE LateBounded'
  OBVIOUS
<1>1. ~setBack
  BY Steps DEF Tick, SetBack, vars, AddStep, Add, GetLast, AddSample, UpdateStep, UpdateGlobalLive, UpdateEnds,
               ReadTotal, WriteTotal
<1>2. CASE Tick \/ SetBack \/ UNCHANGED vars \/ \E u \in Updaters : UpdateStep(u)
  <2>1. UNCHANGED <<current, place, late>>
    BY <1>2 DEF Tick, SetBack, vars, poolVars, threadVars, shownVars, UpdateStep, UpdateGlobalLive, UpdateEnds,
                ReadTotal, WriteTotal
  <2>2. Busy' = Busy /\ Past' = Past
    BY <2>1 DEF Busy, Past
  <2>3. QED
    BY <1>1, <2>1, <2>2 DEF LateBounded
<1>3. QED
  BY <1>1, <1>2, Steps, LateByAdd, LateByHandOver

-----------------------------------------------------------------------------
(* What the totals can be, when updates do not overlap                     *)

Width == Cardinality(Pools)

(* How many samples the updates have added so far.                         *)
AddedBy(u) == Width * (updates - 1) + (next[u] - 1)

TotalsOK ==
  /\ global.processed <= live.processed
  /\ \A u, v \in Updaters : updating[u] # "idle" /\ updating[v] # "idle" => u = v
  /\ (\A u \in Updaters : updating[u] = "idle") => live.processed <= MaxOutcomes * (Width * updates)
  /\ \A u \in Updaters :
       /\ updating[u] # "idle" => updates > 0 /\ live.processed <= MaxOutcomes * AddedBy(u)
       /\ updating[u] = "write" => /\ live.processed <= sum[u]
                                  /\ sum[u] <= MaxOutcomes * (AddedBy(u) + 1)

LEMMA Times ==
  /\ \A a, b \in Nat : a * b \in Nat
  /\ \A a, b \in Nat : a * (b + 1) = a * b + a
  /\ \A a, b, c \in Nat : b <= c => a * b <= a * c
<1>1. \A a, b \in Nat : a * b \in Nat
  OBVIOUS
<1>2. \A a, b \in Nat : a * (b + 1) = a * b + a
  OBVIOUS
<1>3. ASSUME NEW a \in Nat, NEW b \in Nat, NEW c \in Nat, b <= c PROVE a * b <= a * c
  <2>1. a * (c - b) \in Nat
    BY <1>1, <1>3
  <2>2. a * c = a * b + a * (c - b)
    OBVIOUS
  <2>3. a * b \in Nat /\ a * c \in Nat
    BY <1>1
  <2>4. QED
    BY <2>1, <2>2, <2>3
<1>4. QED
  BY <1>1, <1>2, <1>3

LEMMA WidthIs ==
  /\ Width \in Nat
  /\ TypeInv => Len(keys) <= Width
<1>1. Width \in Nat
  BY FS_CardinalityType, MetricsAssumption DEF Width
<1>2. ASSUME TypeInv PROVE Len(keys) <= Width
  <2>1. keys \in [1 .. Len(keys) -> Pools] /\ DOMAIN keys = 1 .. Len(keys) /\ Len(keys) \in Nat
    BY <1>2, LenProperties DEF TypeInv, TypeOK
  <2>2. keys \in Injection(1 .. Len(keys), Pools)
    BY <1>2, <2>1 DEF TypeInv, KeysOK, Injection, IsInjective
  <2>3. Cardinality(1 .. Len(keys)) <= Width
    BY <2>2, FS_Injection, MetricsAssumption DEF Width
  <2>4. QED
    BY <2>1, <2>3, FS_Interval
<1>3. QED
  BY <1>1, <1>2

LEMMA TotalsInit == Init => TotalsOK
<1> SUFFICES ASSUME Init PROVE TotalsOK
  OBVIOUS
<1>1. MaxOutcomes * (Width * updates) \in Nat
  BY WidthIs, BoundsTyped, Times DEF Init
<1>2. QED
  BY <1>1 DEF Init, TotalsOK, NoOutcomes

LEMMA AddedTyped ==
  ASSUME TypeInv, TotalsOK, NEW u \in Updaters, updating[u] # "idle"
  PROVE  /\ AddedBy(u) \in Nat /\ updates - 1 \in Nat
         /\ Width * (updates - 1) \in Nat /\ next[u] - 1 \in Nat
<1>1. updates - 1 \in Nat
  BY DEF TypeInv, TypeOK, TotalsOK
<1>2. next[u] - 1 \in Nat
  BY DEF TypeInv, TypeOK, UpdatersOK
<1>3. Width * (updates - 1) \in Nat
  BY <1>1, WidthIs, Times
<1>4. QED
  BY <1>1, <1>2, <1>3 DEF AddedBy

LEMMA TotalsByStart ==
  ASSUME TypeInv, TotalsOK, NEW u \in Updaters, UpdateGlobalLive(u), ~overlapped'
  PROVE  TotalsOK'
<1>1. /\ updating[u] = "idle" /\ updating' = [updating EXCEPT ![u] = "loop"]
      /\ updates' = updates + 1 /\ next' = [next EXCEPT ![u] = 1]
      /\ UNCHANGED <<live, sum>>
      /\ global' \in {live, global}
  BY DEF UpdateGlobalLive, CheckClear
<1>2. ASSUME NEW v \in Updaters PROVE updating[v] = "idle"
  BY <1>1 DEF UpdateGlobalLive
<1>3. updates \in Nat /\ live.processed \in Nat
  BY DEF TypeInv, TypeOK, Total
<1>4. live.processed <= MaxOutcomes * (Width * updates)
  BY <1>2 DEF TotalsOK
<1>5. AddedBy(u)' = Width * updates
  <2>1. AddedBy(u)' = Width * ((updates + 1) - 1) + (1 - 1)
    BY <1>1 DEF AddedBy, TypeInv, TypeOK
  <2>2. (updates + 1) - 1 = updates /\ Width * updates \in Nat
    BY <1>3, WidthIs, Times
  <2>3. QED
    BY <2>1, <2>2
<1>6. \A v \in Updaters : updating'[v] = IF v = u THEN "loop" ELSE "idle"
  BY <1>1, <1>2 DEF TypeInv, TypeOK
<1>7. global'.processed <= live'.processed
  BY <1>1, <1>3 DEF TotalsOK
<1>8. QED
  BY <1>1, <1>3, <1>4, <1>5, <1>6, <1>7 DEF TotalsOK

LEMMA TotalsByEnd ==
  ASSUME TypeInv, TotalsOK, NEW u \in Updaters, UpdateEnds(u)
  PROVE  TotalsOK'
<1>1. /\ updating[u] = "loop" /\ updating' = [updating EXCEPT ![u] = "idle"]
      /\ UNCHANGED <<live, global, sum, updates>>
  BY DEF UpdateEnds
<1>2. \A v \in Updaters : updating'[v] = "idle"
  BY <1>1 DEF TotalsOK, TypeInv, TypeOK
<1>3. live.processed <= MaxOutcomes * AddedBy(u)
  BY <1>1 DEF TotalsOK
<1>4. AddedBy(u) <= Width * updates
  <2>1. /\ AddedBy(u) \in Nat /\ updates - 1 \in Nat
        /\ Width * (updates - 1) \in Nat /\ next[u] - 1 \in Nat
    BY <1>1, AddedTyped
  <2>2. next[u] - 1 <= Width
    <3>1. next[u] \in 1 .. seen[u] + 1 /\ seen[u] <= Len(keys) /\ Len(keys) <= Width
      BY <1>1, WidthIs DEF TypeInv, UpdatersOK
    <3>2. seen[u] \in Nat /\ Len(keys) \in Nat /\ Width \in Nat
      BY WidthIs, LenProperties DEF TypeInv, TypeOK
    <3>3. QED
      BY <3>1, <3>2
  <2>3. Width * updates = Width * (updates - 1) + Width
    <3>1. Width * ((updates - 1) + 1) = Width * (updates - 1) + Width
      BY <2>1, WidthIs, Times
    <3>2. (updates - 1) + 1 = updates
      BY DEF TypeInv, TypeOK
    <3>3. QED
      BY <3>1, <3>2
  <2>4. QED
    BY <2>1, <2>2, <2>3, WidthIs DEF AddedBy
<1>5. live.processed <= MaxOutcomes * (Width * updates)
  <2>1. AddedBy(u) \in Nat /\ Width * updates \in Nat
    BY <1>1, AddedTyped, WidthIs, Times DEF TypeInv, TypeOK
  <2>2. MaxOutcomes * AddedBy(u) <= MaxOutcomes * (Width * updates)
    BY <1>4, <2>1, BoundsTyped, Times
  <2>3. MaxOutcomes * AddedBy(u) \in Nat /\ MaxOutcomes * (Width * updates) \in Nat
    BY <2>1, BoundsTyped, Times
  <2>4. QED
    BY <1>3, <2>2, <2>3 DEF TypeInv, TypeOK, Total
<1>6. QED
  BY <1>1, <1>2, <1>5 DEF TotalsOK

LEMMA TotalsByRead ==
  ASSUME TypeInv, TotalsOK, NEW u \in Updaters, ReadTotal(u)
  PROVE  TotalsOK'
<1> DEFINE k == samples[keys[next[u]]].processed
<1>1. /\ updating[u] = "loop" /\ updating' = [updating EXCEPT ![u] = "write"]
      /\ sum' = [sum EXCEPT ![u] = live.processed + k]
      /\ UNCHANGED <<live, global, next, updates>>
  BY DEF ReadTotal
<1>2. k \in 0 .. MaxOutcomes
  BY ReadIs DEF Sample
<1>3. /\ live.processed <= MaxOutcomes * AddedBy(u)
      /\ AddedBy(u) \in Nat /\ live.processed \in Nat
  BY <1>1, AddedTyped DEF TotalsOK, TypeInv, TypeOK, Total
<1> HIDE DEF k
<1>4. live.processed + k <= MaxOutcomes * (AddedBy(u) + 1)
  <2>1. MaxOutcomes * (AddedBy(u) + 1) = MaxOutcomes * AddedBy(u) + MaxOutcomes
    BY <1>3, BoundsTyped, Times
  <2>2. MaxOutcomes * AddedBy(u) \in Nat
    BY <1>3, BoundsTyped, Times
  <2>3. QED
    BY <1>2, <1>3, <2>1, <2>2, BoundsTyped
<1>5. sum'[u] = live.processed + k /\ live.processed <= live.processed + k
  BY <1>1, <1>2, <1>3 DEF TypeInv, TypeOK
<1>6. \A v \in Updaters : AddedBy(v)' = AddedBy(v)
  BY <1>1 DEF AddedBy
<1>7. /\ \A v \in Updaters : (updating'[v] # "idle" <=> updating[v] # "idle")
      /\ \A v \in Updaters : v # u => updating[v] = "idle" /\ updating'[v] = "idle"
  BY <1>1 DEF TotalsOK, TypeInv, TypeOK
<1>8. /\ updates' > 0 /\ live'.processed <= MaxOutcomes * AddedBy(u)'
      /\ live'.processed <= sum'[u] /\ sum'[u] <= MaxOutcomes * (AddedBy(u)' + 1)
  BY <1>1, <1>3, <1>4, <1>5, <1>6 DEF TotalsOK
<1>9. updating'[u] # "idle"
  BY <1>1 DEF TypeInv, TypeOK
<1>10. global'.processed <= live'.processed
  BY <1>1 DEF TotalsOK
<1>11. \A v \in Updaters : updating'[v] # "idle" => v = u
  BY <1>7
<1>12. QED
  BY <1>8, <1>9, <1>10, <1>11 DEF TotalsOK

LEMMA TotalsByWrite ==
  ASSUME TypeInv, TotalsOK, NEW u \in Updaters, WriteTotal(u)
  PROVE  TotalsOK'
<1>1. /\ updating[u] = "write" /\ updating' = [updating EXCEPT ![u] = "loop"]
      /\ live'.processed = sum[u] /\ next' = [next EXCEPT ![u] = @ + 1]
      /\ UNCHANGED <<global, updates>>
  BY DEF WriteTotal
<1>2. sum[u] <= MaxOutcomes * (AddedBy(u) + 1) /\ live.processed <= sum[u] /\ updates > 0
  BY <1>1 DEF TotalsOK
<1>3. AddedBy(u)' = AddedBy(u) + 1
  <2>1. AddedBy(u)' = Width * (updates - 1) + ((next[u] + 1) - 1)
    BY <1>1 DEF AddedBy, TypeInv, TypeOK
  <2>2. Width * (updates - 1) \in Nat /\ next[u] \in Nat
    BY <1>1, AddedTyped DEF TypeInv, TypeOK
  <2>3. QED
    BY <2>1, <2>2 DEF AddedBy
<1>4. \A v \in Updaters : updating'[v] # "idle" => v = u
  BY <1>1 DEF TotalsOK, TypeInv, TypeOK
<1>5. updating'[u] = "loop"
  BY <1>1 DEF TypeInv, TypeOK
<1>6. global'.processed <= live'.processed
  <2>1. global.processed \in Int /\ live.processed \in Int /\ sum[u] \in Int
    BY DEF TypeInv, TypeOK, Total
  <2>2. QED
    BY <1>1, <1>2, <2>1 DEF TotalsOK
<1>7. live'.processed <= MaxOutcomes * AddedBy(u)'
  BY <1>1, <1>2, <1>3
<1>8. QED
  BY <1>1, <1>2, <1>4, <1>5, <1>6, <1>7 DEF TotalsOK

LEMMA TotalsNext ==
  ASSUME TypeInv, ~overlapped => TotalsOK, [Next]_vars
  PROVE  ~overlapped' => TotalsOK'
<1> SUFFICES ASSUME ~overlapped' PROVE TotalsOK'
  OBVIOUS
<1>1. ~overlapped
  BY Steps DEF Tick, SetBack, vars, AddStep, Add, GetLast, AddSample, UpdateStep, UpdateGlobalLive, UpdateEnds,
               ReadTotal, WriteTotal, updateVars
<1>2. CASE UNCHANGED updateVars
  BY <1>1, <1>2 DEF updateVars, TotalsOK, AddedBy
<1>3. CASE \E u \in Updaters : UpdateStep(u)
  BY <1>1, <1>3, TotalsByStart, TotalsByEnd, TotalsByRead, TotalsByWrite DEF UpdateStep
<1>4. QED
  BY <1>2, <1>3, Steps DEF Tick, SetBack, vars, AddStep, Add, GetLast, AddSample

-----------------------------------------------------------------------------
(* What the dashboard sees                                                 *)

LEMMA ShownIs ==
  ASSUME keys \in Seq(Pools)
  PROVE  /\ Shown \in SUBSET Int /\ IsFiniteSet(Shown) /\ Shown \subseteq DOMAIN keys
         /\ DOMAIN keys = 1 .. Len(keys) /\ Len(keys) \in Nat
<1>1. DOMAIN keys = 1 .. Len(keys) /\ Len(keys) \in Nat
  BY LenProperties
<1>2. IsFiniteSet(DOMAIN keys)
  BY <1>1, FS_Interval
<1>3. Shown \subseteq DOMAIN keys
  BY DEF Shown
<1>4. QED
  BY <1>1, <1>2, <1>3, FS_Subset

LEMMA NamesIs ==
  ASSUME TypeInv
  PROVE  /\ Names \in Seq(Pools) /\ Len(Names) = Cardinality(Shown) /\ Cardinality(Shown) \in Nat
         /\ DOMAIN Names = 1 .. Cardinality(Shown)
         /\ \A i \in 1 .. Cardinality(Shown) : Names[i] = keys[InOrder(Shown)[i]]
         /\ {Names[k] : k \in DOMAIN Names} = Listed \cap ShowInUi
<1> DEFINE o == InOrder(Shown)
<1>1. keys \in Seq(Pools)
  BY DEF TypeInv, TypeOK
<1>2. /\ o \in Seq(Shown) /\ DOMAIN o = 1 .. Cardinality(Shown) /\ Len(o) = Cardinality(Shown)
      /\ Cardinality(Shown) \in Nat
      /\ \A k \in Shown : \E i \in DOMAIN o : o[i] = k
  BY <1>1, ShownIs, InOrderIs
<1>3. /\ DOMAIN Names = 1 .. Cardinality(Shown)
      /\ \A i \in 1 .. Cardinality(Shown) : Names[i] = keys[o[i]]
  BY <1>2 DEF Names
<1>4. \A i \in DOMAIN o : o[i] \in Shown
  BY <1>2, ElementOfSeq
<1>5. \A k \in Shown : keys[k] \in Pools /\ keys[k] \in Listed /\ keys[k] \in ShowInUi
  BY <1>1, ShownIs DEF Shown, Listed
<1> HIDE DEF o
<1>6. Names \in [1 .. Cardinality(Shown) -> Pools]
  <2>1. Names = [i \in 1 .. Cardinality(Shown) |-> keys[o[i]]]
    BY <1>2 DEF Names, o
  <2>2. QED
    BY <1>2, <1>4, <1>5, <2>1
<1>7. Names \in Seq(Pools) /\ Len(Names) = Cardinality(Shown)
  BY <1>2, <1>6
<1>8. ASSUME NEW p \in Listed \cap ShowInUi PROVE \E i \in DOMAIN Names : Names[i] = p
  <2>1. PICK k \in DOMAIN keys : keys[k] = p
    BY DEF Listed
  <2>2. k \in Shown
    BY <2>1 DEF Shown
  <2>3. PICK i \in DOMAIN o : o[i] = k
    BY <1>2, <2>2
  <2>4. QED
    BY <1>2, <1>3, <2>1, <2>3
<1>9. ASSUME NEW i \in DOMAIN Names PROVE Names[i] \in Listed \cap ShowInUi
  BY <1>2, <1>3, <1>4, <1>5
<1>10. {Names[k] : k \in DOMAIN Names} = Listed \cap ShowInUi
  BY <1>8, <1>9
<1>11. QED
  BY <1>2, <1>3, <1>7, <1>10 DEF o

(* A pool that is shown gets the place after all others.                   *)
LEMMA NamesNew ==
  ASSUME TypeInv, NEW th \in Threads, AddSample(th)
  PROVE  Names' = IF Owner[th] \in ShowInUi /\ Owner[th] \notin Listed
                    THEN Append(Names, Owner[th]) ELSE Names
<1> DEFINE p == Owner[th]
           c == Cardinality(Shown)
           n == Len(keys) + 1
<1>1. p \in Pools /\ keys \in Seq(Pools) /\ keys' = NewKeys(p) /\ TypeInv'
  BY OwnerTyped, AddSampleTyped DEF AddSample, TypeInv, TypeOK
<1>2. CASE p \in Listed
  <2>1. keys' = keys
    BY <1>1, <1>2 DEF NewKeys
  <2>2. QED
    BY <1>2, <2>1 DEF Names, Shown
<1>3. CASE p \notin Listed
  <2>1. keys' = Append(keys, p)
    BY <1>1, <1>3 DEF NewKeys
  <2>2. /\ keys' \in Seq(Pools) /\ Len(keys') = n
        /\ \A k \in 1 .. Len(keys) : keys'[k] = keys[k]
        /\ keys'[n] = p
    BY <1>1, <2>1, AppendProperties
  <2>3. /\ Shown \in SUBSET Int /\ IsFiniteSet(Shown) /\ Shown \subseteq 1 .. Len(keys)
        /\ DOMAIN keys = 1 .. Len(keys) /\ DOMAIN keys' = 1 .. n /\ Len(keys) \in Nat
    BY <1>1, <2>2, ShownIs, LenProperties
  <2>4. DOMAIN keys' = DOMAIN keys \cup {n} /\ n \in Int /\ \A k \in Shown : k < n
    BY <2>3
  <2> HIDE DEF n
  <2>5. CASE p \notin ShowInUi
    <3>1. Shown' = Shown
      BY <2>2, <2>3, <2>4, <2>5 DEF Shown
    <3>2. \A i \in DOMAIN InOrder(Shown) : keys'[InOrder(Shown)[i]] = keys[InOrder(Shown)[i]]
      <4>1. \A i \in DOMAIN InOrder(Shown) : InOrder(Shown)[i] \in Shown
        BY <2>3, InOrderIs, ElementOfSeq
      <4>2. QED
        BY <2>2, <2>3, <4>1
    <3>3. Names' = Names
      BY <3>1, <3>2 DEF Names
    <3>4. QED
      BY <2>5, <3>3
  <2>6. CASE p \in ShowInUi
    <3>1. Shown' = Shown \cup {n}
      BY <2>2, <2>3, <2>4, <2>6 DEF Shown
    <3>2. InOrder(Shown') = Append(InOrder(Shown), n)
      BY <2>3, <2>4, <3>1, InOrderAppend
    <3>3. /\ InOrder(Shown) \in Seq(Shown) /\ Len(InOrder(Shown)) = c
          /\ DOMAIN InOrder(Shown) = 1 .. c /\ c \in Nat
          /\ \A i \in 1 .. c : InOrder(Shown)[i] \in Shown
      BY <2>3, InOrderIs, ElementOfSeq
    <3>4. /\ InOrder(Shown) \in Seq(Int)
          /\ \A i \in 1 .. c : InOrder(Shown')[i] = InOrder(Shown)[i]
          /\ InOrder(Shown')[c + 1] = n
      <4>1. InOrder(Shown) \in Seq(Int)
        BY <2>3, <3>3, SeqMonotonic
      <4>2. QED
        BY <2>4, <3>2, <3>3, <4>1, AppendProperties
    <3>5. Cardinality(Shown') = c + 1
      <4>1. n \notin Shown
        BY <2>4
      <4>2. QED
        BY <2>3, <3>1, <4>1, FS_AddElement
    <3>6. /\ Names \in Seq(Pools) /\ Len(Names) = c
          /\ \A i \in 1 .. c : Names[i] = keys[InOrder(Shown)[i]]
      BY NamesIs
    <3>7. /\ Names' \in Seq(Pools) /\ Len(Names') = c + 1
          /\ \A i \in 1 .. c + 1 : Names'[i] = keys'[InOrder(Shown')[i]]
      <4>1. DOMAIN InOrder(Shown') = 1 .. c + 1
        BY <3>5 DEF InOrder
      <4>2. Names' = [i \in 1 .. c + 1 |-> keys'[InOrder(Shown')[i]]]
        BY <4>1 DEF Names
      <4>3. ASSUME NEW i \in 1 .. c + 1 PROVE InOrder(Shown')[i] \in 1 .. Len(keys')
        <5>1. CASE i = c + 1
          BY <2>2, <2>3, <2>4, <3>4, <5>1
        <5>2. CASE i \in 1 .. c
          BY <2>2, <2>3, <2>4, <3>3, <3>4, <5>2
        <5>3. i = c + 1 \/ i \in 1 .. c
          BY <3>3
        <5>4. QED
          BY <5>1, <5>2, <5>3
      <4>4. \A i \in 1 .. c + 1 : keys'[InOrder(Shown')[i]] \in Pools
        BY <2>2, <4>3, ElementOfSeq
      <4>5. Names' \in [1 .. c + 1 -> Pools] /\ c + 1 \in Nat
        BY <3>3, <4>2, <4>4
      <4>6. QED
        BY <4>2, <4>5
    <3> HIDE DEF c, p
    <3>8. /\ Append(Names, p) \in Seq(Pools) /\ Len(Append(Names, p)) = c + 1
          /\ \A i \in 1 .. c : Append(Names, p)[i] = Names[i]
          /\ Append(Names, p)[c + 1] = p
      BY <1>1, <3>6, AppendProperties
    <3>9. ASSUME NEW i \in 1 .. c + 1 PROVE Names'[i] = Append(Names, p)[i]
      <4>1. CASE i = c + 1
        BY <2>2, <3>4, <3>7, <3>8, <4>1
      <4>2. CASE i \in 1 .. c
        <5>1. Names'[i] = keys'[InOrder(Shown)[i]]
          BY <3>3, <3>4, <3>7, <4>2
        <5>2. InOrder(Shown)[i] \in 1 .. Len(keys)
          BY <2>3, <3>3, <4>2
        <5>3. QED
          BY <2>2, <3>6, <3>8, <4>2, <5>1, <5>2
      <4>3. i = c + 1 \/ i \in 1 .. c
        BY <3>3
      <4>4. QED
        BY <4>1, <4>2, <4>3
    <3>10. Names' = Append(Names, p)
      BY <3>7, <3>8, <3>9, SeqEqual
    <3>11. QED
      BY <1>3, <2>6, <3>10 DEF p
  <2>7. QED
    BY <2>5, <2>6
<1>4. QED
  BY <1>2, <1>3

-----------------------------------------------------------------------------
(* The server is a MetricsSource                                           *)

(* What MetricsSource assumes of its parameters.                           *)
LEMMA SourceParameters == Source!SourceAssumption
<1>1. LastTime * Cardinality(Threads) \in Nat
  BY FiniteSets, BoundsTyped, Times
<1>2. MaxUpdates * MaxOutcomes * Cardinality(Pools) \in Nat
  <2>1. MaxUpdates * MaxOutcomes \in Nat
    BY BoundsTyped, Times
  <2>2. QED
    BY <2>1, WidthIs, Times DEF Width
<1>3. QED
  BY <1>1, <1>2, BoundsTyped DEF Source!SourceAssumption

Published == [p \in Listed \cap ShowInUi |-> samples[p].time]

LEMMA SourceStutters ==
  ASSUME UNCHANGED <<now, keys, samples, late, global>>
  PROVE  UNCHANGED Source!sourceVars
<1>1. Names' = Names /\ Published' = Published
  BY DEF Names, Shown, Published, Listed
<1>2. QED
  BY <1>1 DEF Source!sourceVars, Published

LEMMA SourceTicks ==
  ASSUME Tick
  PROVE  Source!Tick
<1>1. UNCHANGED <<keys, samples, late, global>> /\ now < LastTime /\ now' = now + 1
  BY DEF Tick, shownVars, updateVars
<1>2. Names' = Names /\ Published' = Published
  BY <1>1 DEF Names, Shown, Published, Listed
<1>3. QED
  BY <1>1, <1>2 DEF Source!Tick, Published

(* A hand-over is Publish, or not seen at all.                             *)
LEMMA SourcePublishes ==
  ASSUME TypeInv, CountsOK, LateBounded, NEW th \in Threads, AddSample(th)
  PROVE  (\E s \in ShowInUi, t \in Source!Seconds : Source!Publish(s, t)) \/ UNCHANGED Source!sourceVars
<1> DEFINE p == Owner[th]
<1>0. PICK t \in Seconds : t = held[th].time
  BY DEF TypeInv, TypeOK, Sample
<1>1. /\ samples' = [q \in Listed \cup {p} |-> IF q = p THEN held[th] ELSE samples[q]]
      /\ late' = IF p \in ShowInUi \cap Listed /\ held[th].time < samples[p].time THEN late + 1 ELSE late
      /\ place[th] = "got"
      /\ UNCHANGED <<now, global>>
  BY DEF AddSample, updateVars
<1>2. Listed' = Listed \cup {p} /\ p \in Pools
  BY AddSampleLists, OwnerTyped
<1>3. Names' = IF p \in ShowInUi /\ p \notin Listed THEN Append(Names, p) ELSE Names
  BY NamesNew
<1>4. CASE p \notin ShowInUi
  <2>1. Listed' \cap ShowInUi = Listed \cap ShowInUi
    BY <1>2, <1>4
  <2>2. \A q \in Listed \cap ShowInUi : samples'[q] = samples[q]
    BY <1>1, <1>4
  <2>3. Published' = Published
    BY <2>1, <2>2 DEF Published
  <2>4. QED
    BY <1>1, <1>3, <1>4, <2>3 DEF Source!sourceVars, Published
<1>5. CASE p \in ShowInUi
  <2>1. Source!Named = Listed \cap ShowInUi
    BY NamesIs DEF Source!Named
  <2>2. t \in Source!Seconds /\ t \in Int /\ t >= 1 /\ now \in Int /\ now <= LastTime
    BY BoundsTyped DEF TypeInv, TypeOK, Sample, Seconds, Source!Seconds
  <2>3. t < now
    <3>1. t < current[p].time /\ current[p].time <= now /\ current[p].time \in Int
      BY <1>0, <1>1, <1>2, BoundsTyped DEF CountsOK, Agrees, CurrentRight, TypeInv, TypeOK, Sample, Seconds
    <3>2. QED
      BY <2>2, <3>1
  <2>4. t >= now - LastTime
    BY <2>2, BoundsTyped
  <2> HIDE DEF p
  <2>5. \A q \in Listed \cap ShowInUi : Published[q] = samples[q].time
    BY DEF Published
  <2>6. late' = IF p \in Source!Named /\ t < Published[p] THEN late + 1 ELSE late
    BY <1>0, <1>1, <1>5, <2>1, <2>5 DEF p
  <2>7. late' <= LastTime * Cardinality(Threads)
    <3>1. late' \in {late, late + 1} /\ late \in Nat
      BY <1>1 DEF TypeInv, TypeOK
    <3>2. Cardinality(Busy) >= 1
      <4>1. th \in Busy
        BY <1>1 DEF Busy
      <4>2. Cardinality(Busy) # 0
        BY <4>1, FiniteSets, FS_EmptySet
      <4>3. QED
        BY <4>2, FiniteSets
    <3>3. LastTime * Cardinality(Threads) \in Nat
      BY FiniteSets, BoundsTyped, Times
    <3>4. QED
      BY <3>1, <3>2, <3>3, FiniteSets DEF LateBounded
  <2>8. Names' = Source!Listed(p)
    BY <1>3, <1>5, <2>1 DEF Source!Listed
  <2>9. Published' = [q \in Source!Named \cup {p} |-> IF q = p THEN t ELSE Published[q]]
    <3>1. Listed' \cap ShowInUi = Source!Named \cup {p}
      BY <1>2, <1>5, <2>1 DEF p
    <3>2. \A q \in Source!Named \cup {p} : samples'[q].time = IF q = p THEN t ELSE Published[q]
      BY <1>0, <1>1, <2>1, <2>5 DEF p
    <3>3. QED
      BY <3>1, <3>2 DEF Published
  <2>10. Source!Publish(p, t)
    BY <1>1, <2>3, <2>4, <2>6, <2>7, <2>8, <2>9 DEF Source!Publish, Published
  <2>11. p \in ShowInUi
    BY <1>5 DEF p
  <2>12. QED
    BY <2>2, <2>10, <2>11
<1>6. QED
  BY <1>4, <1>5

LEMMA TotalBounded ==
  ASSUME TypeInv, TotalsOK, \A u \in Updaters : updating[u] = "idle"
  PROVE  live.processed <= MaxUpdates * MaxOutcomes * Cardinality(Pools)
<1> DEFINE W == Cardinality(Pools)
<1>1. /\ MaxOutcomes \in Nat /\ MaxUpdates \in Nat /\ W \in Nat /\ updates \in Nat /\ updates <= MaxUpdates
      /\ live.processed \in Nat
  BY BoundsTyped, WidthIs DEF TypeInv, TypeOK, Total, Width
<1>2. live.processed <= MaxOutcomes * (W * updates)
  BY DEF TotalsOK, Width
<1> HIDE DEF W
<1>3. W * updates \in Nat /\ W * MaxUpdates \in Nat /\ W * updates <= W * MaxUpdates
  BY <1>1, Times
<1>4. /\ MaxOutcomes * (W * updates) \in Nat /\ MaxOutcomes * (W * MaxUpdates) \in Nat
      /\ MaxOutcomes * (W * updates) <= MaxOutcomes * (W * MaxUpdates)
  BY <1>1, <1>3, Times
<1>5. MaxOutcomes * (W * MaxUpdates) = MaxUpdates * MaxOutcomes * W
  BY <1>1
<1>6. QED
  BY <1>1, <1>2, <1>4, <1>5 DEF W

(* An update that overlaps no other shows a total that is not smaller.     *)
LEMMA SourceShows ==
  ASSUME TypeInv, TotalsOK, NEW u \in Updaters, UpdateGlobalLive(u), ~overlapped'
  PROVE  \/ \E n \in 0 .. MaxUpdates * MaxOutcomes * Cardinality(Pools) : Source!ShowTotal(n)
         \/ UNCHANGED Source!sourceVars
<1>1. UNCHANGED <<now, keys, samples, late>> /\ (global' = live \/ global' = global)
  BY DEF UpdateGlobalLive, CheckClear, shownVars
<1>2. CASE global' = global
  BY <1>1, <1>2, SourceStutters
<1>3. CASE global' = live
  <2>1. Names' = Names /\ Published' = Published
    BY <1>1 DEF Names, Shown, Published, Listed
  <2>2. \A v \in Updaters : updating[v] = "idle"
    BY DEF UpdateGlobalLive
  <2>3. live.processed \in 0 .. MaxUpdates * MaxOutcomes * Cardinality(Pools)
    <3>1. MaxUpdates * MaxOutcomes * Cardinality(Pools) \in Nat
      BY SourceParameters DEF Source!SourceAssumption
    <3>2. live.processed \in Nat
      BY DEF TypeInv, TypeOK, Total
    <3>3. QED
      BY <2>2, <3>1, <3>2, TotalBounded
  <2>4. live.processed >= global.processed
    BY DEF TotalsOK, TypeInv, TypeOK, Total
  <2>5. Source!ShowTotal(live.processed)
    BY <1>1, <1>3, <2>1, <2>4 DEF Source!ShowTotal, Source!CanShow, Published
  <2>6. QED
    BY <2>3, <2>5
<1>4. QED
  BY <1>1, <1>2, <1>3

LEMMA StepImplements ==
  ASSUME TypeInv, ~setBack => CountsOK /\ LateBounded, ~overlapped => TotalsOK, [Next]_vars,
         ~setBack', ~overlapped'
  PROVE  Source!SourceNext \/ UNCHANGED Source!sourceVars
<1>1. ~setBack /\ ~overlapped
  <2>1. ~setBack
    BY Steps DEF Tick, SetBack, vars, AddStep, Add, GetLast, AddSample, UpdateStep, UpdateGlobalLive, UpdateEnds,
                 ReadTotal, WriteTotal
  <2>2. CASE UNCHANGED updateVars
    BY <2>1, <2>2 DEF updateVars
  <2>3. CASE \E u \in Updaters : UpdateStep(u)
    <3>1. PICK u \in Updaters : UpdateStep(u)
      BY <2>3
    <3>2. UpdateGlobalLive(u) \/ overlapped' = overlapped
      BY <3>1 DEF UpdateStep, UpdateEnds, ReadTotal, WriteTotal
    <3>3. UpdateGlobalLive(u) => ~overlapped
      BY Zenon DEF UpdateGlobalLive
    <3>4. QED
      BY <2>1, <3>2, <3>3
  <2>4. UNCHANGED updateVars \/ \E u \in Updaters : UpdateStep(u)
    BY Steps DEF Tick, SetBack, vars, AddStep, Add, GetLast, AddSample
  <2>5. QED
    BY <2>1, <2>2, <2>3, <2>4
<1>2. CASE Tick
  BY <1>2, SourceTicks DEF Source!SourceNext
<1>3. ASSUME NEW th \in Threads, AddSample(th) PROVE Source!SourceNext \/ UNCHANGED Source!sourceVars
  BY <1>1, <1>3, SourcePublishes DEF Source!SourceNext
<1>4. ASSUME NEW u \in Updaters, UpdateGlobalLive(u) PROVE Source!SourceNext \/ UNCHANGED Source!sourceVars
  BY <1>1, <1>4, SourceShows DEF Source!SourceNext
<1>5. CASE UNCHANGED <<now, keys, samples, late, global>>
  BY <1>5, SourceStutters
<1>6. ~SetBack
  BY DEF SetBack
<1>7. QED
  BY <1>2, <1>3, <1>4, <1>5, <1>6, Steps
     DEF vars, shownVars, updateVars, AddStep, Add, GetLast, UpdateStep, UpdateEnds, ReadTotal, WriteTotal

LEMMA InitImplements == Init => Source!SourceInit
<1> SUFFICES ASSUME Init PROVE Source!SourceInit
  OBVIOUS
<1>1. keys = << >> /\ DOMAIN << >> = {} /\ 1 .. 0 = {}
  BY EmptySeq, LenProperties DEF Init
<1>2. Listed = {} /\ Shown = {}
  BY <1>1 DEF Listed, Shown
<1>3. Cardinality(Shown) = 0
  BY <1>2, FS_EmptySet
<1>4. Names = << >>
  <2>1. TypeInv
    BY InitTyped
  <2>2. Names \in Seq(Pools) /\ Len(Names) = 0
    BY <1>3, <2>1, NamesIs
  <2>3. QED
    BY <2>2, EmptySeq
<1>5. [p \in Listed \cap ShowInUi |-> samples[p].time] = << >>
  <2>1. << >> \in [1 .. 0 -> Pools]
    BY EmptySeq, LenProperties
  <2>2. QED
    BY <1>1, <1>2, <2>1
<1>6. QED
  BY <1>4, <1>5 DEF Source!SourceInit, Init, NoOutcomes

(* For any pools, threads and bounds: a reader of the metrics sees what    *)
(* MetricsSource promises, until the time is set back or two threads       *)
(* update the totals at once.                                              *)
THEOREM ServerImplementsSource == Spec => ImplementsSource
<1> DEFINE Inv == /\ TypeInv
                  /\ ~setBack => CountsOK /\ LateBounded
                  /\ ~overlapped => TotalsOK
<1>1. Init => Inv
  BY InitTyped, CountsInit, LateInit, TotalsInit
<1>2. Inv /\ [Next]_vars => Inv'
  BY NextTyped, CountsNext, LateNext, TotalsNext
<1>3. Inv /\ [Next]_vars => [Source!SourceNext \/ setBack' \/ overlapped']_(Source!sourceVars)
  BY StepImplements
<1> HIDE DEF Inv
<1>4. QED
  BY InitImplements, <1>1, <1>2, <1>3, PTL DEF Spec, ImplementsSource
=============================================================================
