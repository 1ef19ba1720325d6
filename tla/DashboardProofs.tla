-------------------------- MODULE DashboardProofs --------------------------
(***************************************************************************)
(* Theorems about Dashboard: whatever the answers, their order and the     *)
(* time zone, the window stays bounded, its lines complete and true.       *)
(***************************************************************************)
EXTENDS Dashboard, OrderingProofs

USE SourceAssumption, DashboardAssumption

-----------------------------------------------------------------------------
(* What the page is made of *)

\* The cells of a row: numbers of some of the series.
Cells == UNION {[S -> Nat] : S \in SUBSET Series}

\* A row says of each of its cells what the server said of that second, or zero.
Rows ==
    {r \in [time : Int, cells : Cells] :
        \A s \in DOMAIN r.cells :
            \/ r.cells[s] = 0
            \/ r.time \in Seconds /\ r.cells[s] = Work[s][r.time]}

Samples == UNION {[S -> Seconds] : S \in SUBSET Series}

Answers ==
    {a \in [names : Seq(Series), published : Samples, total : 0 .. MaxTotal] :
        DOMAIN a.published = NamesIn(a)}

Distinct(d) == \A i, j \in DOMAIN d : i # j => d[i].time # d[j].time

(* An answer names series and has a second for each.                       *)
LEMMA AnswerIs ==
  ASSUME NEW a \in Answers
  PROVE  /\ NamesIn(a) \subseteq Series /\ \A k \in DOMAIN a.names : a.names[k] \in NamesIn(a)
         /\ a.names \in Seq(Series) /\ a.total \in 0 .. MaxTotal
         /\ a.published \in [NamesIn(a) -> Seconds]
         /\ \A s \in NamesIn(a) : a.published[s] \in Seconds /\ a.published[s] \in Int
<1>1. a.names \in Seq(Series) /\ a.published \in Samples /\ DOMAIN a.published = NamesIn(a)
      /\ a.total \in 0 .. MaxTotal
  BY DEF Answers
<1>2. PICK S \in SUBSET Series : a.published \in [S -> Seconds]
  BY <1>1 DEF Samples
<1>3. S = NamesIn(a)
  BY <1>1, <1>2
<1>4. \A k \in DOMAIN a.names : a.names[k] \in NamesIn(a)
  BY DEF NamesIn
<1>5. \A t \in Seconds : t \in Int
  BY DEF Seconds
<1>6. QED
  BY <1>1, <1>2, <1>3, <1>4, <1>5

LEMMA RowIs ==
  ASSUME NEW r \in Rows
  PROVE  /\ r = [time |-> r.time, cells |-> r.cells] /\ r.time \in Int
         /\ DOMAIN r.cells \subseteq Series /\ r.cells \in [DOMAIN r.cells -> Nat]
         /\ \A s \in DOMAIN r.cells :
               \/ r.cells[s] = 0
               \/ r.time \in Seconds /\ r.cells[s] = Work[s][r.time]
<1>1. r \in [time : Int, cells : Cells]
  BY DEF Rows
<1>2. PICK S \in SUBSET Series : r.cells \in [S -> Nat]
  BY <1>1 DEF Cells
<1>3. QED
  BY <1>1, <1>2 DEF Rows

(* Zeros are a row of any time.                                            *)
LEMMA ZeroRow ==
  ASSUME NEW t \in Int, NEW S \in SUBSET Series
  PROVE  [time |-> t, cells |-> [s \in S |-> 0]] \in Rows
<1> DEFINE c == [s \in S |-> 0]
<1>1. c \in [S -> Nat] /\ DOMAIN c = S /\ \A s \in S : c[s] = 0
  OBVIOUS
<1>2. c \in Cells
  BY <1>1 DEF Cells
<1> HIDE DEF c
<1>3. [time |-> t, cells |-> c] \in [time : Int, cells : Cells]
  BY <1>2
<1>4. QED
  BY <1>1, <1>3 DEF Rows, c

(* A row stays one when an answer's samples of its second are written over *)
(* its cells: those it had, or none.                                       *)
LEMMA SamplesMakeRow ==
  ASSUME NEW a \in Answers, NEW t \in Int, NEW cells,
         [time |-> t, cells |-> cells] \in Rows \/ cells = << >>
  PROVE  [time |-> t, cells |-> WithSamples(cells, t, a)] \in Rows
<1> DEFINE U == UpdatedAt(t, a)
           w == WithSamples(cells, t, a)
<1>1. /\ U \subseteq Series
      /\ \A s \in U : t \in Seconds /\ Sample(a, s) = Work[s][t] /\ Work[s][t] \in Nat
  BY AnswerIs DEF UpdatedAt, Sample
<1>2. /\ DOMAIN cells \subseteq Series
      /\ \A s \in DOMAIN cells :
            /\ cells[s] \in Nat
            /\ cells[s] = 0 \/ (t \in Seconds /\ cells[s] = Work[s][t])
  <2>1. CASE cells = << >>
    BY <2>1
  <2>2. CASE [time |-> t, cells |-> cells] \in Rows
    <3> DEFINE r == [time |-> t, cells |-> cells]
    <3>1. r.time = t /\ r.cells = cells
      OBVIOUS
    <3>2. r \in Rows
      BY <2>2
    <3> HIDE DEF r
    <3>3. /\ DOMAIN r.cells \subseteq Series /\ r.cells \in [DOMAIN r.cells -> Nat]
          /\ \A s \in DOMAIN r.cells :
                \/ r.cells[s] = 0
                \/ r.time \in Seconds /\ r.cells[s] = Work[s][r.time]
      BY <3>2, RowIs
    <3>4. \A s \in DOMAIN r.cells : r.cells[s] \in Nat
      BY <3>3
    <3>5. QED
      BY <3>1, <3>3, <3>4, Zenon
  <2>3. QED
    BY <2>1, <2>2
<1>3. /\ DOMAIN w = DOMAIN cells \cup U
      /\ \A s \in DOMAIN w : w[s] = IF s \in U THEN Sample(a, s) ELSE cells[s]
  BY DEF WithSamples
<1>4. \A s \in DOMAIN w : w[s] \in Nat /\ (w[s] = 0 \/ (t \in Seconds /\ w[s] = Work[s][t]))
  BY <1>1, <1>2, <1>3
<1>5. w \in [DOMAIN w -> Nat] /\ DOMAIN w \in SUBSET Series
  BY <1>1, <1>2, <1>3, <1>4 DEF WithSamples
<1>6. w \in Cells
  BY <1>5 DEF Cells
<1> HIDE DEF w
<1>7. [time |-> t, cells |-> w] \in [time : Int, cells : Cells]
  BY <1>6
<1>8. QED
  BY <1>4, <1>7 DEF Rows, w

-----------------------------------------------------------------------------
(* The window *)

LEMMA RefreshedIs ==
  ASSUME NEW d \in Seq(Rows), NEW a \in Answers
  PROVE  /\ Refreshed(d, a) \in Seq(Rows) /\ Len(Refreshed(d, a)) = Len(d)
         /\ \A i \in DOMAIN d :
               Refreshed(d, a)[i] = [time |-> d[i].time,
                                     cells |-> WithSamples(d[i].cells, d[i].time, a)]
<1> DEFINE R == Refreshed(d, a)
<1>1. DOMAIN R = 1 .. Len(d) /\ DOMAIN d = 1 .. Len(d) /\ Len(d) \in Nat
  BY DEF Refreshed
<1>2. ASSUME NEW i \in DOMAIN d
      PROVE  /\ R[i] = [time |-> d[i].time, cells |-> WithSamples(d[i].cells, d[i].time, a)]
             /\ R[i] \in Rows
  <2>1. d[i] \in Rows
    OBVIOUS
  <2>2. d[i] = [time |-> d[i].time, cells |-> d[i].cells] /\ d[i].time \in Int
    BY <2>1, RowIs
  <2>3. R[i] = [d[i] EXCEPT !.cells = WithSamples(d[i].cells, d[i].time, a)]
    BY DEF Refreshed
  <2>4. R[i] = [time |-> d[i].time, cells |-> WithSamples(d[i].cells, d[i].time, a)]
    BY <2>2, <2>3
  <2>5. [time |-> d[i].time, cells |-> d[i].cells] \in Rows
    BY <2>1, <2>2
  <2>6. QED
    BY <2>2, <2>4, <2>5, SamplesMakeRow
<1>3. R \in [1 .. Len(d) -> Rows]
  BY <1>1, <1>2 DEF Refreshed
<1>4. R \in Seq(Rows) /\ Len(R) = Len(d)
  BY <1>1, <1>3
<1>5. QED
  BY <1>2, <1>4

(* Two windows without a time in common make one.                          *)
LEMMA DistinctConcat ==
  ASSUME NEW d \in Seq(Rows), NEW e \in Seq(Rows), Distinct(d), Distinct(e),
         \A i \in DOMAIN d, j \in DOMAIN e : d[i].time # e[j].time
  PROVE  d \o e \in Seq(Rows) /\ Len(d \o e) = Len(d) + Len(e) /\ Distinct(d \o e)
<1> DEFINE c == d \o e
<1>1. /\ c \in Seq(Rows) /\ Len(c) = Len(d) + Len(e)
      /\ Len(d) \in Nat /\ Len(e) \in Nat /\ DOMAIN c = 1 .. Len(d) + Len(e)
      /\ DOMAIN d = 1 .. Len(d) /\ DOMAIN e = 1 .. Len(e)
  OBVIOUS
<1>2. \A i \in 1 .. Len(d) : c[i] = d[i]
  OBVIOUS
<1>3. \A i \in DOMAIN c : i > Len(d) => i - Len(d) \in DOMAIN e /\ c[i] = e[i - Len(d)]
  BY <1>1
<1> HIDE DEF c
<1>4. ASSUME NEW i \in DOMAIN c, NEW j \in DOMAIN c, i # j PROVE c[i].time # c[j].time
  <2>1. CASE i <= Len(d) /\ j <= Len(d)
    BY <1>1, <1>2, <1>4, <2>1 DEF Distinct
  <2>2. CASE i <= Len(d) /\ j > Len(d)
    BY <1>1, <1>2, <1>3, <2>2
  <2>3. CASE i > Len(d) /\ j <= Len(d)
    BY <1>1, <1>2, <1>3, <2>3
  <2>4. CASE i > Len(d) /\ j > Len(d)
    <3>1. i - Len(d) # j - Len(d)
      BY <1>1, <1>4
    <3>2. QED
      BY <1>3, <2>4, <3>1 DEF Distinct
  <2>5. QED
    BY <1>1, <2>1, <2>2, <2>3, <2>4
<1>5. QED
  BY <1>1, <1>4 DEF c, Distinct

(* update: the rows of the window stay where they are, with new samples;   *)
(* the seconds that had no row get one each.                               *)
LEMMA AddSamplesIs ==
  ASSUME NEW d \in Seq(Rows), Distinct(d), NEW a \in Answers
  PROVE  /\ AddSamples(d, a) \in Seq(Rows) /\ Distinct(AddSamples(d, a))
         /\ Len(AddSamples(d, a)) >= Len(d)
         /\ \A i \in DOMAIN d :
               AddSamples(d, a)[i] = [time |-> d[i].time,
                                      cells |-> WithSamples(d[i].cells, d[i].time, a)]
         /\ \A i \in DOMAIN AddSamples(d, a) :
               i > Len(d) => AddSamples(d, a)[i].time \in Seconds
<1> DEFINE TimeOf(k) == a.published[a.names[k]]
           firsts == {k \in DOMAIN a.names :
                         /\ TimeOf(k) \notin Times(d)
                         /\ \A j \in 1 .. k - 1 : TimeOf(j) # TimeOf(k)}
           added == InOrder(firsts)
           R == Refreshed(d, a)
           e == [i \in DOMAIN added |->
                    [time |-> TimeOf(added[i]), cells |-> WithSamples(<< >>, TimeOf(added[i]), a)]]
<1>1. AddSamples(d, a) = R \o e
  BY DEF AddSamples
<1>2. a.names \in Seq(Series) /\ DOMAIN a.names = 1 .. Len(a.names) /\ Len(a.names) \in Nat
  BY AnswerIs
<1>3. \A k \in DOMAIN a.names : TimeOf(k) \in Seconds /\ TimeOf(k) \in Int
  BY AnswerIs
<1>4. firsts \in SUBSET Int /\ IsFiniteSet(firsts)
  <2>1. firsts \subseteq 1 .. Len(a.names)
    BY <1>2
  <2>2. IsFiniteSet(1 .. Len(a.names))
    BY <1>2, FS_Interval
  <2>3. QED
    BY <2>1, <2>2, FS_Subset
<1>5. /\ added \in Seq(firsts) /\ DOMAIN added = 1 .. Cardinality(firsts)
      /\ Cardinality(firsts) \in Nat
      /\ \A i, j \in DOMAIN added : i < j => added[i] < added[j]
  BY <1>4, InOrderIs
<1> HIDE DEF added
<1>6. \A i \in DOMAIN added : added[i] \in firsts
  <2> HIDE DEF firsts
  <2>1. QED
    BY <1>5
<1>7. /\ R \in Seq(Rows) /\ Len(R) = Len(d)
      /\ \A i \in DOMAIN d : R[i] = [time |-> d[i].time,
                                     cells |-> WithSamples(d[i].cells, d[i].time, a)]
  BY RefreshedIs
<1>8. Distinct(R) /\ DOMAIN R = DOMAIN d /\ \A i \in DOMAIN R : R[i].time = d[i].time
  <2> HIDE DEF R
  <2>1. DOMAIN R = DOMAIN d
    BY <1>7
  <2>2. ASSUME NEW i \in DOMAIN d PROVE R[i].time = d[i].time
    <3>1. R[i] = [time |-> d[i].time, cells |-> WithSamples(d[i].cells, d[i].time, a)]
      BY <1>7
    <3>2. QED
      BY <3>1
  <2>3. QED
    BY <2>1, <2>2 DEF Distinct
<1>9. ASSUME NEW i \in DOMAIN added
      PROVE  e[i] \in Rows /\ e[i].time = TimeOf(added[i]) /\ e[i].time \in Seconds
  <2>1. TimeOf(added[i]) \in Seconds /\ TimeOf(added[i]) \in Int
    BY <1>3, <1>6
  <2>2. [time |-> TimeOf(added[i]), cells |-> WithSamples(<< >>, TimeOf(added[i]), a)] \in Rows
    BY <2>1, SamplesMakeRow
  <2>3. QED
    BY <2>1, <2>2
<1>10. e \in [1 .. Cardinality(firsts) -> Rows]
  BY <1>5, <1>9
<1> HIDE DEF e
<1>11. e \in Seq(Rows) /\ Len(e) = Cardinality(firsts) /\ DOMAIN e = DOMAIN added
  <2> HIDE DEF firsts
  <2>1. QED
    BY <1>5, <1>10
<1>12. ASSUME NEW i \in DOMAIN added, NEW j \in DOMAIN added, i < j
       PROVE  TimeOf(added[i]) # TimeOf(added[j])
  <2>1. added[i] \in firsts /\ added[j] \in firsts /\ added[i] < added[j]
    BY <1>5, <1>6, <1>12
  <2>2. added[i] \in 1 .. added[j] - 1
    BY <1>2, <2>1
  <2>3. QED
    BY <2>1, <2>2
<1>13. Distinct(e)
  <2> SUFFICES ASSUME NEW i \in DOMAIN added, NEW j \in DOMAIN added, i # j
               PROVE  e[i].time # e[j].time
    BY <1>11 DEF Distinct
  <2>1. i < j \/ j < i
    <3> HIDE DEF firsts
    <3>1. QED
      BY <1>5
  <2>2. e[i].time = TimeOf(added[i]) /\ e[j].time = TimeOf(added[j])
    BY <1>9
  <2>3. TimeOf(added[i]) # TimeOf(added[j])
    BY <1>12, <2>1
  <2>4. QED
    BY <2>2, <2>3
<1>14. \A i \in DOMAIN R, j \in DOMAIN e : R[i].time # e[j].time
  BY <1>6, <1>8, <1>9, <1>11 DEF Times
<1> HIDE DEF R, firsts
<1>15. R \o e \in Seq(Rows) /\ Len(R \o e) = Len(R) + Len(e) /\ Distinct(R \o e)
  BY <1>7, <1>8, <1>11, <1>13, <1>14, DistinctConcat
<1>16. Len(R \o e) >= Len(d) /\ \A i \in DOMAIN d : (R \o e)[i] = R[i]
  BY <1>7, <1>11, <1>15
<1>17. ASSUME NEW i \in DOMAIN (R \o e), i > Len(d) PROVE (R \o e)[i].time \in Seconds
  <2>1. i - Len(d) \in DOMAIN e /\ (R \o e)[i] = e[i - Len(d)]
    BY <1>7, <1>11, <1>17
  <2>2. QED
    BY <1>9, <1>11, <2>1
<1>18. QED
  BY <1>1, <1>7, <1>15, <1>16, <1>17

LEMMA DropFirstIs ==
  ASSUME NEW d \in Seq(Rows), Distinct(d)
  PROVE  /\ DropFirst(d) \in Seq(Rows) /\ Distinct(DropFirst(d)) /\ Len(DropFirst(d)) <= Size
         /\ Len(d) >= Size => Len(DropFirst(d)) = Size
         /\ Len(d) <= Size => DropFirst(d) = d
         /\ \A j \in DOMAIN DropFirst(d) : \E i \in DOMAIN d : DropFirst(d)[j] = d[i]
<1>1. CASE Len(d) > Size
  <2> DEFINE n == Len(d) - Size
             e == SubSeq(d, n + 1, Len(d))
  <2>1. DropFirst(d) = e /\ n \in Nat /\ Len(d) \in Nat /\ n >= 1 /\ n < Len(d)
    BY <1>1 DEF DropFirst
  <2>2. /\ e \in Seq(Rows) /\ Len(e) = Size /\ DOMAIN e = 1 .. Size
        /\ \A j \in DOMAIN e : n + j \in DOMAIN d /\ e[j] = d[n + j]
    BY <1>1, <2>1
  <2> HIDE DEF e, n
  <2>3. Distinct(e)
    BY <2>1, <2>2 DEF Distinct
  <2>4. QED
    BY <1>1, <2>1, <2>2, <2>3
<1>2. CASE ~ Len(d) > Size
  BY <1>2 DEF DropFirst
<1>3. QED
  BY <1>1, <1>2

(* createWindow: the padding takes rows over or adds them, never twice for *)
(* a second, and never more than the window lacks; far from UTC, and over  *)
(* rows that are samples, it adds all of them.                             *)
LEMMA PadIs ==
  ASSUME NEW d \in Seq(Rows), Distinct(d), Len(d) <= Size, NEW S \in SUBSET Series,
         now \in Int, offset \in Int
  PROVE  /\ Pad(d, S) \in Seq(Rows) /\ Distinct(Pad(d, S)) /\ Len(Pad(d, S)) <= Size
         /\ Len(d) = Size => Pad(d, S) = d
         /\ FarFromUtc /\ (\A i \in DOMAIN d : d[i].time \in Seconds) => Len(Pad(d, S)) = Size
<1> DEFINE refTime == IF d = << >> THEN now ELSE d[1].time
           PadTime(k) == ToJson(refTime - k)
           padded == 1 .. Size - Len(d)
           Zeros(t) == [time |-> t, cells |-> [s \in S |-> 0]]
           free == {k \in padded : PadTime(k) \notin Times(d)}
           added == InOrder(free)
           p == [i \in DOMAIN d |->
                    IF \E k \in padded : PadTime(k) = d[i].time THEN Zeros(d[i].time) ELSE d[i]]
           e == [i \in DOMAIN added |-> Zeros(PadTime(added[i]))]
<1>1. Pad(d, S) = p \o e
  BY DEF Pad
<1>2. Len(d) \in Nat /\ DOMAIN d = 1 .. Len(d) /\ Size - Len(d) \in Nat /\ padded \subseteq Int
  OBVIOUS
<1>3. \A i \in DOMAIN d : d[i] \in Rows /\ d[i].time \in Int
  BY RowIs
<1>4. refTime \in Int
  BY <1>2, <1>3
<1> HIDE DEF refTime
<1>5. \A k \in Int : PadTime(k) = refTime - k - offset /\ PadTime(k) \in Int
  BY <1>4 DEF ToJson
<1>6. \A t \in Int : Zeros(t) \in Rows /\ Zeros(t).time = t
  BY ZeroRow
<1>7. IsFiniteSet(padded) /\ Cardinality(padded) = Size - Len(d)
  <2> DEFINE m == Size - Len(d)
  <2>1. m \in Nat
    BY <1>2
  <2> HIDE DEF m
  <2>2. IsFiniteSet(1 .. m) /\ Cardinality(1 .. m) = m
    BY <2>1, FS_Interval
  <2>3. QED
    BY <2>2 DEF m
<1>8. IsFiniteSet(free) /\ free \in SUBSET Int /\ Cardinality(free) <= Size - Len(d)
  BY <1>2, <1>7, FS_Subset
<1> HIDE DEF PadTime, Zeros
<1>9. /\ DOMAIN added = 1 .. Cardinality(free) /\ Cardinality(free) \in Nat
      /\ added \in Seq(free)
      /\ \A i, j \in DOMAIN added : i < j => added[i] < added[j]
  BY <1>8, InOrderIs
<1>10. \A i \in DOMAIN added : added[i] \in free /\ added[i] \in Int
  <2> HIDE DEF free, added
  <2>1. \A i \in DOMAIN added : added[i] \in free
    BY <1>9
  <2>2. QED
    BY <1>8, <2>1
<1> HIDE DEF added
<1>11. ASSUME NEW i \in DOMAIN d PROVE p[i] \in Rows /\ p[i].time = d[i].time
  BY <1>3, <1>6
<1>12. p \in [1 .. Len(d) -> Rows]
  BY <1>2, <1>11
<1> HIDE DEF p
<1>13. p \in Seq(Rows) /\ Len(p) = Len(d) /\ DOMAIN p = DOMAIN d
  BY <1>2, <1>12
<1>14. Distinct(p)
  BY <1>11, <1>13 DEF Distinct
<1>15. ASSUME NEW i \in DOMAIN added
       PROVE  e[i] \in Rows /\ e[i].time = PadTime(added[i])
  BY <1>5, <1>6, <1>10
<1>16. e \in [1 .. Cardinality(free) -> Rows]
  BY <1>9, <1>15
<1> HIDE DEF e
<1>17. e \in Seq(Rows) /\ Len(e) = Cardinality(free) /\ DOMAIN e = DOMAIN added
  <2> HIDE DEF free
  <2>1. QED
    BY <1>9, <1>16
<1>18. Distinct(e)
  <2> SUFFICES ASSUME NEW i \in DOMAIN added, NEW j \in DOMAIN added, i # j
               PROVE  e[i].time # e[j].time
    BY <1>17 DEF Distinct
  <2>1. added[i] # added[j]
    <3> HIDE DEF free
    <3>1. i < j \/ j < i
      BY <1>9
    <3>2. QED
      BY <1>9, <1>10, <3>1
  <2>2. PadTime(added[i]) # PadTime(added[j])
    BY <1>4, <1>5, <1>10, <2>1
  <2>3. QED
    BY <1>15, <2>2
<1>19. \A i \in DOMAIN p, j \in DOMAIN e : p[i].time # e[j].time
  BY <1>10, <1>11, <1>13, <1>15, <1>17 DEF Times
<1>20. p \o e \in Seq(Rows) /\ Len(p \o e) = Len(p) + Len(e) /\ Distinct(p \o e)
  BY <1>13, <1>14, <1>17, <1>18, <1>19, DistinctConcat
<1>21. Len(p \o e) <= Size
  <2> HIDE DEF free
  <2>1. QED
    BY <1>2, <1>8, <1>9, <1>13, <1>17, <1>20
<1>22. ASSUME Len(d) = Size PROVE p \o e = d
  <2>1. padded = {} /\ free = {}
    BY <1>2, <1>22
  <2>2. Cardinality(free) = 0
    BY <2>1, FS_EmptySet
  <2>3. e = << >>
    BY <1>17, <2>2
  <2>4. p = d
    BY <1>2, <2>1 DEF p
  <2>5. QED
    BY <2>3, <2>4
<1>23. ASSUME FarFromUtc, \A i \in DOMAIN d : d[i].time \in Seconds PROVE Len(p \o e) = Size
  <2>1. ASSUME NEW k \in padded PROVE k \in free
    <3>1. k \in 1 .. Size /\ k \in Int
      BY <1>2
    <3>2. ASSUME NEW i \in DOMAIN d PROVE PadTime(k) # d[i].time
      <4>1. d # << >> /\ 1 \in DOMAIN d
        BY <1>2, <3>2
      <4>2. refTime \in 1 .. MaxTime /\ d[i].time \in 1 .. MaxTime
        BY <1>23, <4>1 DEF refTime, Seconds
      <4>3. PadTime(k) = refTime - k - offset
        BY <1>5, <3>1
      <4>4. offset > MaxTime + Size \/ offset < -(MaxTime + Size)
        BY <1>23 DEF FarFromUtc
      <4>5. QED
        BY <3>1, <4>2, <4>3, <4>4
    <3>3. QED
      BY <3>2 DEF Times
  <2>2. free = padded
    BY <2>1
  <2>3. Len(e) = Size - Len(d)
    BY <1>7, <1>17, <2>2
  <2>4. QED
    BY <1>2, <1>13, <1>20, <2>3
<1>24. QED
  BY <1>1, <1>20, <1>21, <1>22, <1>23

(* The whole of createWindow.                                              *)
LEMMA CreateWindowIs ==
  ASSUME NEW d \in Seq(Rows), Distinct(d), NEW S \in SUBSET Series, now \in Int, offset \in Int
  PROVE  /\ CreateWindow(d, S) \in Seq(Rows) /\ Distinct(CreateWindow(d, S))
         /\ Len(CreateWindow(d, S)) <= Size
         /\ Len(d) >= Size =>
               /\ Len(CreateWindow(d, S)) = Size
               /\ \A j \in DOMAIN CreateWindow(d, S) :
                     \E i \in DOMAIN d : CreateWindow(d, S)[j] = d[i]
         /\ FarFromUtc /\ (\A i \in DOMAIN d : d[i].time \in Seconds) =>
               Len(CreateWindow(d, S)) = Size
<1> DEFINE e == DropFirst(d)
<1>1. /\ e \in Seq(Rows) /\ Distinct(e) /\ Len(e) <= Size
      /\ Len(d) >= Size => Len(e) = Size
      /\ \A j \in DOMAIN e : \E i \in DOMAIN d : e[j] = d[i]
  BY DropFirstIs
<1>2. CreateWindow(d, S) = Pad(e, S)
  BY DEF CreateWindow
<1> HIDE DEF e
<1>3. /\ Pad(e, S) \in Seq(Rows) /\ Distinct(Pad(e, S)) /\ Len(Pad(e, S)) <= Size
      /\ Len(e) = Size => Pad(e, S) = e
      /\ FarFromUtc /\ (\A i \in DOMAIN e : e[i].time \in Seconds) => Len(Pad(e, S)) = Size
  BY <1>1, PadIs
<1>4. (\A i \in DOMAIN d : d[i].time \in Seconds) => \A i \in DOMAIN e : e[i].time \in Seconds
  BY <1>1
<1>5. QED
  BY <1>1, <1>2, <1>3, <1>4

-----------------------------------------------------------------------------
(* The inductive invariant *)

SourceOk ==
    /\ now \in Int
    /\ names \in Seq(Series)
    /\ published \in [Named -> Seconds]
    /\ total \in 0 .. MaxTotal

PageOk ==
    /\ offset \in Int
    /\ asked \in 0 .. MaxRequests
    /\ answers \in Seq(Answers)
    /\ failures \in 0 .. MaxFailures
    /\ shown \in 0 .. MaxTotal
    /\ data \in Seq(Rows)
    /\ overtaken \in BOOLEAN

\* The server gave the answers in this order, and what it says only grows.
AnswersGrow ==
    /\ \A i, j \in DOMAIN answers : i < j =>
          /\ NamesIn(answers[i]) \subseteq NamesIn(answers[j])
          /\ answers[i].total <= answers[j].total
    /\ \A i \in DOMAIN answers :
          NamesIn(answers[i]) \subseteq Named /\ answers[i].total <= total

\* Until an answer is overtaken, the page knows less than any that is to come.
NothingMissed ==
    ~ overtaken =>
        /\ shown <= total /\ Drawn \subseteq Named
        /\ \A i \in DOMAIN answers :
              shown <= answers[i].total /\ Drawn \subseteq NamesIn(answers[i])

\* The chart is drawn from the rows.
ChartOf(c, d, o) ==
    c # NoChart =>
        /\ c.labels = [i \in DOMAIN d |-> d[i].time]
        /\ \A k \in DOMAIN c.datasets :
              /\ c.datasets[k].name \in Series
              /\ \/ c.datasets[k].data = Line(d, c.datasets[k].name)
                 \/ c.datasets[k].data = Missing /\ o

\* Once there is a row, far from UTC, nothing is padded any more.
FullWindow == FarFromUtc => data = << >> \/ Len(data) = Size

IInv ==
    /\ SourceOk
    /\ PageOk
    /\ AnswersGrow
    /\ NothingMissed
    /\ ChartOf(chart, data, overtaken)
    /\ WindowBounded
    /\ FullWindow

LEMMA RemoveAtIs ==
  ASSUME NEW S, NEW s \in Seq(S), NEW i \in DOMAIN s
  PROVE  /\ RemoveAt(s, i) \in Seq(S) /\ DOMAIN RemoveAt(s, i) = 1 .. Len(s) - 1
         /\ \A j \in 1 .. Len(s) - 1 : RemoveAt(s, i)[j] = IF j < i THEN s[j] ELSE s[j + 1]
<1> DEFINE p == SubSeq(s, 1, i - 1)
           q == SubSeq(s, i + 1, Len(s))
<1>1. Len(s) \in Nat /\ i \in 1 .. Len(s) /\ i \in Int
  OBVIOUS
<1>2. p \in Seq(S) /\ Len(p) = i - 1 /\ \A j \in 1 .. i - 1 : p[j] = s[j]
  BY <1>1
<1>3. /\ q \in Seq(S) /\ Len(q) = Len(s) - i
      /\ \A j \in 1 .. Len(s) - i : q[j] = s[i + j]
  BY <1>1
<1> HIDE DEF p, q
<1>4. RemoveAt(s, i) = p \o q
  BY DEF RemoveAt, p, q
<1>5. p \o q \in Seq(S) /\ Len(p \o q) = Len(s) - 1 /\ DOMAIN (p \o q) = 1 .. Len(s) - 1
  BY <1>1, <1>2, <1>3
<1>6. ASSUME NEW j \in 1 .. Len(s) - 1
      PROVE  (p \o q)[j] = IF j < i THEN s[j] ELSE s[j + 1]
  <2>1. CASE j < i
    BY <1>1, <1>2, <1>3, <2>1
  <2>2. CASE ~ j < i
    <3>1. j - (i - 1) \in 1 .. Len(s) - i /\ i + (j - (i - 1)) = j + 1
      BY <1>1, <2>2
    <3>2. (p \o q)[j] = q[j - (i - 1)]
      BY <1>1, <1>2, <1>3, <2>2
    <3>3. QED
      BY <1>3, <2>2, <3>1, <3>2
  <2>3. QED
    BY <2>1, <2>2
<1>7. QED
  BY <1>4, <1>5, <1>6

(* A line has a number for each row.                                       *)
LEMMA LineIs ==
  ASSUME NEW d \in Seq(Rows), NEW s
  PROVE  /\ Line(d, s) \in Seq(Int) /\ Len(Line(d, s)) = Len(d) /\ Line(d, s) # Missing
         /\ \A i \in DOMAIN d :
               \/ Line(d, s)[i] = 0
               \/ d[i].time \in Seconds /\ Line(d, s)[i] = Work[s][d[i].time]
<1>1. Len(d) \in Nat /\ DOMAIN d = 1 .. Len(d)
  OBVIOUS
<1>2. ASSUME NEW i \in DOMAIN d
      PROVE  /\ Line(d, s)[i] \in Int
             /\ \/ Line(d, s)[i] = 0
                \/ d[i].time \in Seconds /\ Line(d, s)[i] = Work[s][d[i].time]
  <2>1. d[i] \in Rows
    OBVIOUS
  <2>2. Line(d, s)[i] = IF s \in DOMAIN d[i].cells THEN d[i].cells[s] ELSE 0
    BY DEF Line
  <2>3. CASE s \in DOMAIN d[i].cells
    <3>1. d[i].cells[s] \in Nat
      BY <2>1, <2>3, RowIs
    <3>2. QED
      BY <2>1, <2>2, <2>3, <3>1, RowIs
  <2>4. CASE s \notin DOMAIN d[i].cells
    BY <2>2, <2>4
  <2>5. QED
    BY <2>3, <2>4
<1>3. Line(d, s) \in [1 .. Len(d) -> Int]
  BY <1>1, <1>2 DEF Line
<1>4. Line(d, s) \in Seq(Int) /\ Len(Line(d, s)) = Len(d)
  BY <1>1, <1>3
<1>5. QED
  BY <1>2, <1>4

\* The series of the lines of a chart.
SeriesOf(c) == {c.datasets[k].name : k \in DOMAIN c.datasets}

(* updateChartFullData: the lines keep their series, and those the answer  *)
(* mentions are drawn.                                                     *)
LEMMA ChartIs ==
  ASSUME NEW c, NEW d, NEW S \in SUBSET Series, NEW o \in BOOLEAN,
         \A k \in DOMAIN c.datasets :
            c.datasets[k].name \in Series /\ (c.datasets[k].name \in S \/ o)
  PROVE  /\ ChartOf(UpdateChartFullData(c, d, S), d, o)
         /\ SeriesOf(UpdateChartFullData(c, d, S)) = SeriesOf(c)
<1> DEFINE u == UpdateChartFullData(c, d, S)
<1>1. /\ u.labels = [i \in DOMAIN d |-> d[i].time]
      /\ DOMAIN u.datasets = DOMAIN c.datasets
      /\ \A k \in DOMAIN c.datasets :
            u.datasets[k] = [name |-> c.datasets[k].name,
                             data |-> IF c.datasets[k].name \in S THEN Line(d, c.datasets[k].name)
                                      ELSE Missing]
  BY DEF UpdateChartFullData
<1> HIDE DEF u
<1>2. ASSUME NEW k \in DOMAIN c.datasets
      PROVE  /\ u.datasets[k].name = c.datasets[k].name
             /\ u.datasets[k].data = IF c.datasets[k].name \in S THEN Line(d, c.datasets[k].name)
                                     ELSE Missing
  <2>1. u.datasets[k] = [name |-> c.datasets[k].name,
                         data |-> IF c.datasets[k].name \in S THEN Line(d, c.datasets[k].name)
                                  ELSE Missing]
    BY <1>1
  <2>2. QED
    BY <2>1
<1>3. ChartOf(u, d, o)
  <2> SUFFICES ASSUME NEW k \in DOMAIN c.datasets
               PROVE  /\ u.datasets[k].name \in Series
                      /\ \/ u.datasets[k].data = Line(d, u.datasets[k].name)
                         \/ u.datasets[k].data = Missing /\ o
    BY <1>1 DEF ChartOf
  <2>1. CASE c.datasets[k].name \in S
    BY <1>2, <2>1
  <2>2. CASE c.datasets[k].name \notin S
    BY <1>2, <2>2
  <2>3. QED
    BY <2>1, <2>2
<1>4. SeriesOf(u) = SeriesOf(c)
  <2>1. ASSUME NEW x \in SeriesOf(u) PROVE x \in SeriesOf(c)
    <3>1. PICK k \in DOMAIN u.datasets : x = u.datasets[k].name
      BY DEF SeriesOf
    <3>2. k \in DOMAIN c.datasets /\ x = c.datasets[k].name
      BY <1>1, <1>2, <3>1
    <3>3. QED
      BY <3>2 DEF SeriesOf
  <2>2. ASSUME NEW x \in SeriesOf(c) PROVE x \in SeriesOf(u)
    <3>1. PICK k \in DOMAIN c.datasets : x = c.datasets[k].name
      BY DEF SeriesOf
    <3>2. k \in DOMAIN u.datasets /\ x = u.datasets[k].name
      BY <1>1, <1>2, <3>1
    <3>3. QED
      BY <3>2 DEF SeriesOf
  <2>3. QED
    BY <2>1, <2>2
<1>5. QED
  BY <1>3, <1>4 DEF u

-----------------------------------------------------------------------------
(* The steps *)

LEMMA InitIInv == Init => IInv
<1> SUFFICES ASSUME Init PROVE IInv
  OBVIOUS
<1>1. /\ now = 1 /\ names = << >> /\ published = << >> /\ total = 0
      /\ offset \in Offsets /\ asked = 0 /\ answers = << >> /\ failures = 0
      /\ shown = 0 /\ data = << >> /\ chart = NoChart /\ overtaken = FALSE
  BY DEF Init, SourceInit, PageInit
<1>2. Named = {} /\ Drawn = {}
  BY <1>1 DEF Named, Drawn
<1>3. SourceOk
  BY <1>1, <1>2 DEF SourceOk
<1>4. PageOk
  <2>1. answers \in Seq(Answers) /\ data \in Seq(Rows)
    BY <1>1
  <2>2. overtaken \in BOOLEAN
    BY <1>1
  <2>3. /\ offset \in Int /\ asked \in 0 .. MaxRequests /\ failures \in 0 .. MaxFailures
        /\ shown \in 0 .. MaxTotal
    BY <1>1
  <2>4. QED
    BY <2>1, <2>2, <2>3 DEF PageOk
<1>5. AnswersGrow /\ NothingMissed
  BY <1>1, <1>2 DEF AnswersGrow, NothingMissed
<1>6. ChartOf(chart, data, overtaken) /\ WindowBounded /\ FullWindow
  BY <1>1 DEF ChartOf, WindowBounded, FullWindow
<1>7. QED
  BY <1>3, <1>4, <1>5, <1>6 DEF IInv

(* The server: pools that have appeared stay, the total only grows.        *)
LEMMA SourceStep ==
  ASSUME SourceOk, SourceNext
  PROVE  SourceOk' /\ Named \subseteq Named' /\ total <= total'
<1>1. /\ now \in Int /\ names \in Seq(Series) /\ published \in [Named -> Seconds]
      /\ total \in 0 .. MaxTotal
  BY DEF SourceOk
<1>2. CASE Tick
  BY <1>1, <1>2 DEF Tick, SourceOk, Named
<1>3. ASSUME NEW s \in Series, NEW t \in Seconds, Publish(s, t)
      PROVE  SourceOk' /\ Named \subseteq Named' /\ total <= total'
  <2>1. names' = Listed(s) /\ UNCHANGED <<now, total>>
        /\ published' = [p \in Named \cup {s} |-> IF p = s THEN t ELSE published[p]]
    BY <1>3 DEF Publish
  <2>2. names' \in Seq(Series) /\ Named' = Named \cup {s}
    <3>1. CASE s \in Named
      BY <1>1, <2>1, <3>1 DEF Listed, Named
    <3>2. CASE s \notin Named
      <4>1. names' = Append(names, s)
        BY <2>1, <3>2 DEF Listed
      <4>2. /\ names' \in Seq(Series) /\ DOMAIN names' = 1 .. Len(names) + 1
            /\ DOMAIN names = 1 .. Len(names) /\ Len(names) \in Nat
            /\ names'[Len(names) + 1] = s
            /\ \A k \in 1 .. Len(names) : names'[k] = names[k]
        BY <1>1, <4>1
      <4>3. ASSUME NEW x \in Named' PROVE x \in Named \cup {s}
        <5>1. PICK k \in DOMAIN names' : x = names'[k]
          BY DEF Named
        <5>2. k \in 1 .. Len(names) \/ k = Len(names) + 1
          BY <4>2
        <5>3. QED
          BY <4>2, <5>1, <5>2 DEF Named
      <4>4. ASSUME NEW x \in Named \cup {s} PROVE x \in Named'
        <5>1. CASE x = s
          <6>1. Len(names) + 1 \in DOMAIN names'
            BY <4>2
          <6>2. QED
            BY <4>2, <5>1, <6>1 DEF Named
        <5>2. CASE x \in Named
          <6>1. PICK k \in DOMAIN names : x = names[k]
            BY <5>2 DEF Named
          <6>2. k \in DOMAIN names' /\ x = names'[k]
            BY <4>2, <6>1
          <6>3. QED
            BY <6>2 DEF Named
        <5>3. QED
          BY <5>1, <5>2
      <4>5. QED
        BY <4>2, <4>3, <4>4
    <3>3. QED
      BY <3>1, <3>2
  <2>3. published' \in [Named \cup {s} -> Seconds]
    BY <1>1, <2>1
  <2>4. QED
    BY <1>1, <2>1, <2>2, <2>3 DEF SourceOk, Seconds
<1>4. ASSUME NEW n \in 0 .. MaxTotal, ShowTotal(n)
      PROVE  SourceOk' /\ Named \subseteq Named' /\ total <= total'
  BY <1>1, <1>4 DEF ShowTotal, CanShow, SourceOk, Named
<1>5. QED
  BY <1>2, <1>3, <1>4 DEF SourceNext

(* What is left of the answers when one is taken out, still in order.      *)
LEMMA AnswersLeft ==
  ASSUME answers \in Seq(Answers), AnswersGrow, UNCHANGED <<names, total>>,
         NEW i \in DOMAIN answers, answers' = RemoveAt(answers, i)
  PROVE  /\ answers' \in Seq(Answers) /\ AnswersGrow'
         /\ \A j \in DOMAIN answers' : \E k \in DOMAIN answers : answers'[j] = answers[k]
         /\ i = 1 => \A j \in DOMAIN answers' :
                        j + 1 \in DOMAIN answers /\ 1 < j + 1 /\ answers'[j] = answers[j + 1]
<1>1. /\ answers' \in Seq(Answers) /\ DOMAIN answers' = 1 .. Len(answers) - 1
      /\ \A j \in 1 .. Len(answers) - 1 :
            answers'[j] = IF j < i THEN answers[j] ELSE answers[j + 1]
  BY RemoveAtIs
<1>2. DOMAIN answers = 1 .. Len(answers) /\ Len(answers) \in Nat /\ i \in Int /\ i >= 1
  OBVIOUS
<1> DEFINE At(j) == IF j < i THEN j ELSE j + 1
<1>3. \A j \in DOMAIN answers' : At(j) \in DOMAIN answers /\ answers'[j] = answers[At(j)]
  BY <1>1, <1>2
<1>4. \A j, k \in DOMAIN answers' : j < k => At(j) < At(k)
  BY <1>1, <1>2
<1>5. i = 1 => \A j \in DOMAIN answers' : At(j) = j + 1 /\ 1 < j + 1
  BY <1>1, <1>2
<1> HIDE DEF At
<1>6. Named' = Named /\ total' = total
  BY DEF Named
<1>7. AnswersGrow'
  <2>1. ASSUME NEW j \in DOMAIN answers', NEW k \in DOMAIN answers', j < k
        PROVE  /\ NamesIn(answers'[j]) \subseteq NamesIn(answers'[k])
               /\ answers'[j].total <= answers'[k].total
    <3>1. At(j) < At(k) /\ At(j) \in DOMAIN answers /\ At(k) \in DOMAIN answers
      BY <1>3, <1>4, <2>1
    <3>2. /\ NamesIn(answers[At(j)]) \subseteq NamesIn(answers[At(k)])
          /\ answers[At(j)].total <= answers[At(k)].total
      BY <3>1 DEF AnswersGrow
    <3>3. answers'[j] = answers[At(j)] /\ answers'[k] = answers[At(k)]
      BY <1>3
    <3>4. QED
      BY <3>2, <3>3
  <2>2. ASSUME NEW j \in DOMAIN answers'
        PROVE  NamesIn(answers'[j]) \subseteq Named' /\ answers'[j].total <= total'
    <3>1. NamesIn(answers[At(j)]) \subseteq Named /\ answers[At(j)].total <= total
      BY <1>3 DEF AnswersGrow
    <3>2. QED
      BY <1>3, <1>6, <3>1
  <2>3. QED
    BY <2>1, <2>2 DEF AnswersGrow, NamesIn
<1>8. QED
  BY <1>1, <1>3, <1>5, <1>7

LEMMA WindowStays ==
  ASSUME ChartOf(chart, data, overtaken), WindowBounded, FullWindow,
         UNCHANGED <<offset, data, chart, overtaken>>
  PROVE  ChartOf(chart, data, overtaken)' /\ WindowBounded' /\ FullWindow'
<1>1. ChartOf(chart, data, overtaken)'
  BY DEF ChartOf
<1>2. WindowBounded'
  BY DEF WindowBounded
<1>3. FullWindow'
  BY DEF FullWindow, FarFromUtc
<1>4. QED
  BY <1>1, <1>2, <1>3

LEMMA AnswersStay ==
  ASSUME AnswersGrow, UNCHANGED <<names, total, answers>>
  PROVE  AnswersGrow'
<1>1. Named' = Named
  BY DEF Named
<1>2. ASSUME NEW i \in DOMAIN answers
      PROVE  NamesIn(answers[i]) \subseteq Named' /\ answers[i].total <= total'
  BY <1>1 DEF AnswersGrow
<1>3. ASSUME NEW i \in DOMAIN answers, NEW j \in DOMAIN answers, i < j
      PROVE  /\ NamesIn(answers[i]) \subseteq NamesIn(answers[j])
             /\ answers[i].total <= answers[j].total
  BY <1>3 DEF AnswersGrow
<1>4. QED
  BY <1>2, <1>3 DEF AnswersGrow

(* The page, while the server goes on.                                     *)
LEMMA ServerStepKeeps == IInv /\ ServerStep => IInv'
<1> SUFFICES ASSUME IInv, ServerStep PROVE IInv'
  OBVIOUS
<1>1. UNCHANGED <<offset, asked, answers, failures, shown, data, chart, overtaken>>
  BY DEF ServerStep, requestVars, pageVars
<1>2. SourceOk' /\ Named \subseteq Named' /\ total <= total'
  BY SourceStep DEF IInv, ServerStep
<1>3. total \in Int /\ total' \in Int /\ shown \in Int
  BY <1>2 DEF IInv, SourceOk, PageOk
<1>4. PageOk'
  BY <1>1 DEF IInv, PageOk
<1>5. \A i \in DOMAIN answers : answers[i].total \in Int
  BY AnswerIs DEF IInv, PageOk
<1>6. AnswersGrow'
  <2>1. \A i \in DOMAIN answers : NamesIn(answers[i]) \subseteq Named' /\ answers[i].total <= total'
    BY <1>2, <1>3, <1>5 DEF IInv, AnswersGrow
  <2>2. ASSUME NEW i \in DOMAIN answers, NEW j \in DOMAIN answers, i < j
        PROVE  /\ NamesIn(answers[i]) \subseteq NamesIn(answers[j])
               /\ answers[i].total <= answers[j].total
    BY <2>2 DEF IInv, AnswersGrow
  <2>3. QED
    BY <1>1, <2>1, <2>2 DEF AnswersGrow
<1>7. Drawn' = Drawn
  BY <1>1 DEF Drawn
<1>8. NothingMissed'
  <2> SUFFICES ASSUME ~ overtaken
               PROVE  /\ shown <= total' /\ Drawn \subseteq Named'
                      /\ \A i \in DOMAIN answers :
                            shown <= answers[i].total /\ Drawn \subseteq NamesIn(answers[i])
    BY <1>1, <1>7 DEF NothingMissed, NamesIn
  <2>1. QED
    BY <1>2, <1>3 DEF IInv, NothingMissed
<1>9. ChartOf(chart, data, overtaken)' /\ WindowBounded' /\ FullWindow'
  BY <1>1, WindowStays DEF IInv
<1>10. QED
  BY <1>2, <1>4, <1>6, <1>8, <1>9 DEF IInv

LEMMA UpdateKeeps == IInv /\ Update => IInv'
<1> SUFFICES ASSUME IInv, Update PROVE IInv'
  OBVIOUS
<1>1. /\ UNCHANGED <<now, names, published, late, total>>
      /\ UNCHANGED <<offset, answers, failures, shown, data, chart, overtaken>>
      /\ asked' = asked + 1 /\ asked + Len(answers) < MaxRequests
  BY DEF Update, sourceVars, pageVars
<1>2. Named' = Named /\ Drawn' = Drawn
  BY <1>1 DEF Named, Drawn
<1>3. SourceOk' /\ AnswersGrow' /\ NothingMissed'
  <2>1. SourceOk'
    BY <1>1, <1>2 DEF IInv, SourceOk
  <2>2. AnswersGrow'
    BY <1>1, AnswersStay DEF IInv
  <2>3. NothingMissed'
    BY <1>1, <1>2 DEF IInv, NothingMissed, NamesIn
  <2>4. QED
    BY <2>1, <2>2, <2>3
<1>4. asked \in 0 .. MaxRequests /\ answers \in Seq(Answers)
  BY DEF IInv, PageOk
<1>5. asked' \in 0 .. MaxRequests
  <2>1. Len(answers) \in Nat
    BY <1>4
  <2>2. QED
    BY <1>1, <1>4, <2>1
<1>6. PageOk'
  BY <1>1, <1>5 DEF IInv, PageOk
<1>7. ChartOf(chart, data, overtaken)' /\ WindowBounded' /\ FullWindow'
  BY <1>1, WindowStays DEF IInv
<1>8. QED
  BY <1>3, <1>6, <1>7 DEF IInv

(* MetricsController.Server: the newest answer is the last.                *)
LEMMA AnswerKeeps == IInv /\ Answer => IInv'
<1> SUFFICES ASSUME IInv, Answer PROVE IInv'
  OBVIOUS
<1> DEFINE a == [names |-> names, published |-> published, total |-> total]
           n == Len(answers)
<1>1. /\ UNCHANGED <<now, names, published, late, total>>
      /\ UNCHANGED <<offset, failures, shown, data, chart, overtaken>>
      /\ asked' = asked - 1 /\ asked > 0 /\ answers' = Append(answers, a)
  BY DEF Answer, sourceVars, pageVars
<1>2. Named' = Named /\ Drawn' = Drawn
  BY <1>1 DEF Named, Drawn
<1>3. /\ names \in Seq(Series) /\ published \in [Named -> Seconds] /\ total \in 0 .. MaxTotal
      /\ asked \in 0 .. MaxRequests /\ answers \in Seq(Answers)
  BY DEF IInv, SourceOk, PageOk
<1>4. a.names = names /\ a.published = published /\ a.total = total /\ NamesIn(a) = Named
  BY DEF NamesIn, Named
<1>5. a \in Answers
  <2>1. Named \in SUBSET Series
    BY <1>3 DEF Named
  <2>2. published \in Samples
    BY <1>3, <2>1 DEF Samples
  <2>3. DOMAIN a.published = NamesIn(a)
    BY <1>3, <1>4
  <2>4. a \in [names : Seq(Series), published : Samples, total : 0 .. MaxTotal]
    BY <1>3, <2>2
  <2> HIDE DEF a
  <2>5. QED
    BY <2>3, <2>4 DEF Answers
<1> HIDE DEF a
<1>6. /\ answers' \in Seq(Answers) /\ n \in Nat /\ DOMAIN answers = 1 .. n
      /\ DOMAIN answers' = 1 .. n + 1 /\ answers'[n + 1] = a
      /\ \A i \in 1 .. n : answers'[i] = answers[i]
  BY <1>1, <1>3, <1>5
<1>7. \A i \in DOMAIN answers' : i \in 1 .. n \/ i = n + 1
  BY <1>6
<1>8. SourceOk'
  BY <1>1, <1>2 DEF IInv, SourceOk
<1>9. PageOk'
  BY <1>1, <1>3, <1>6 DEF IInv, PageOk
<1>10. AnswersGrow'
  <2>1. ASSUME NEW i \in DOMAIN answers'
        PROVE  NamesIn(answers'[i]) \subseteq Named /\ answers'[i].total <= total
    BY <1>3, <1>4, <1>6, <1>7 DEF IInv, AnswersGrow
  <2>2. ASSUME NEW i \in DOMAIN answers', NEW j \in DOMAIN answers', i < j
        PROVE  /\ NamesIn(answers'[i]) \subseteq NamesIn(answers'[j])
               /\ answers'[i].total <= answers'[j].total
    <3>1. i \in 1 .. n
      BY <1>6, <1>7, <2>2
    <3>2. CASE j \in 1 .. n
      BY <1>6, <2>2, <3>1, <3>2 DEF IInv, AnswersGrow
    <3>3. CASE j = n + 1
      BY <1>4, <1>6, <2>1, <3>3
    <3>4. QED
      BY <1>7, <3>2, <3>3
  <2>3. QED
    BY <1>1, <1>2, <2>1, <2>2 DEF AnswersGrow, NamesIn
<1>11. NothingMissed'
  <2> SUFFICES ASSUME ~ overtaken
               PROVE  /\ shown <= total /\ Drawn \subseteq Named
                      /\ \A i \in DOMAIN answers' :
                            shown <= answers'[i].total /\ Drawn \subseteq NamesIn(answers'[i])
    BY <1>1, <1>2 DEF NothingMissed, NamesIn
  <2>1. QED
    BY <1>4, <1>6, <1>7 DEF IInv, NothingMissed
<1>12. ChartOf(chart, data, overtaken)' /\ WindowBounded' /\ FullWindow'
  BY <1>1, WindowStays DEF IInv
<1>13. QED
  BY <1>8, <1>9, <1>10, <1>11, <1>12 DEF IInv

LEMMA FailKeeps == IInv /\ Fail => IInv'
<1> SUFFICES ASSUME IInv, Fail PROVE IInv'
  OBVIOUS
<1>1. /\ UNCHANGED <<now, names, published, late, total>>
      /\ UNCHANGED <<offset, shown, data, chart, overtaken>>
      /\ failures' = failures + 1 /\ failures < MaxFailures
  BY DEF Fail, sourceVars, pageVars
<1>2. /\ Named' = Named /\ Drawn' = Drawn
      /\ answers \in Seq(Answers) /\ asked \in 0 .. MaxRequests /\ failures \in 0 .. MaxFailures
  BY <1>1 DEF Named, Drawn, IInv, PageOk
<1>3. SourceOk' /\ failures' \in 0 .. MaxFailures
  BY <1>1, <1>2 DEF IInv, SourceOk
<1>4. ChartOf(chart, data, overtaken)' /\ WindowBounded' /\ FullWindow'
  BY <1>1, WindowStays DEF IInv
<1>5. /\ answers' \in Seq(Answers) /\ asked' \in 0 .. MaxRequests /\ AnswersGrow'
      /\ \A j \in DOMAIN answers' : \E k \in DOMAIN answers : answers'[j] = answers[k]
  <2>1. CASE asked > 0 /\ asked' = asked - 1 /\ UNCHANGED answers
    <3>1. AnswersGrow'
      BY <1>1, <2>1, AnswersStay DEF IInv
    <3>2. QED
      BY <1>2, <2>1, <3>1
  <2>2. CASE (\E i \in DOMAIN answers : answers' = RemoveAt(answers, i)) /\ UNCHANGED asked
    <3>1. PICK i \in DOMAIN answers : answers' = RemoveAt(answers, i)
      BY <2>2
    <3>2. QED
      BY <1>1, <1>2, <2>2, <3>1, AnswersLeft DEF IInv
  <2>3. QED
    BY <2>1, <2>2 DEF Fail
<1>6. PageOk'
  BY <1>1, <1>3, <1>5 DEF IInv, PageOk
<1>7. NothingMissed'
  <2> SUFFICES ASSUME ~ overtaken
               PROVE  /\ shown <= total /\ Drawn \subseteq Named
                      /\ \A i \in DOMAIN answers' :
                            shown <= answers'[i].total /\ Drawn \subseteq NamesIn(answers'[i])
    BY <1>1, <1>2 DEF NothingMissed, NamesIn
  <2>1. QED
    BY <1>5 DEF IInv, NothingMissed
<1>8. QED
  BY <1>3, <1>4, <1>5, <1>6, <1>7 DEF IInv

(* The chart an answer updates: the one there is, or a new one.            *)
LEMMA ChartUpdated ==
  ASSUME IInv, NEW i \in DOMAIN answers, NEW d, NEW o \in BOOLEAN, overtaken \/ i > 1 => o,
         NEW a \in Answers, a = answers[i], NEW c,
         c = UpdateChartFullData(IF chart = NoChart THEN InitChart(a.names) ELSE chart,
                                 d, NamesIn(a))
  PROVE  ChartOf(c, d, o) /\ (~ o => SeriesOf(c) \subseteq NamesIn(a))
<1> DEFINE b == IF chart = NoChart THEN InitChart(a.names) ELSE chart
<1>1. NamesIn(a) \in SUBSET Series /\ \A k \in DOMAIN a.names : a.names[k] \in NamesIn(a)
  BY AnswerIs
<1>2. ASSUME NEW k \in DOMAIN b.datasets
      PROVE  b.datasets[k].name \in Series /\ (b.datasets[k].name \in NamesIn(a) \/ o)
  <2>1. CASE chart = NoChart
    <3>1. b = InitChart(a.names)
      BY <2>1
    <3> HIDE DEF b
    <3>2. DOMAIN b.datasets = DOMAIN a.names
      BY <3>1 DEF InitChart
    <3>3. b.datasets[k].name = a.names[k]
      BY <3>1, <3>2 DEF InitChart
    <3>4. QED
      BY <1>1, <3>2, <3>3
  <2>2. CASE chart # NoChart
    <3>1. b = chart
      BY <2>2
    <3>2. chart.datasets[k].name \in Series /\ chart.datasets[k].name \in Drawn
      BY <2>2, <3>1 DEF IInv, ChartOf, Drawn
    <3>3. ~ o => Drawn \subseteq NamesIn(a)
      BY DEF IInv, NothingMissed
    <3>4. QED
      BY <3>1, <3>2, <3>3
  <2>3. QED
    BY <2>1, <2>2
<1> HIDE DEF b
<1>3. c = UpdateChartFullData(b, d, NamesIn(a))
  BY DEF b
<1>4. ChartOf(c, d, o) /\ SeriesOf(c) = SeriesOf(b)
  BY <1>1, <1>2, <1>3, ChartIs
<1>5. ~ o => SeriesOf(b) \subseteq NamesIn(a)
  BY <1>2 DEF SeriesOf
<1>6. QED
  BY <1>4, <1>5

(* The window an answer updates.                                           *)
LEMMA WindowUpdated ==
  ASSUME IInv, NEW a \in Answers, NEW d, d = CreateWindow(AddSamples(data, a), NamesIn(a))
  PROVE  /\ d \in Seq(Rows) /\ Distinct(d) /\ Len(d) <= Size
         /\ FarFromUtc => Len(d) = Size
         /\ Len(data) = Size =>
               \A j \in DOMAIN d :
                  \E i \in DOMAIN AddSamples(data, a) : d[j] = AddSamples(data, a)[i]
<1> DEFINE e == AddSamples(data, a)
<1>1. data \in Seq(Rows) /\ Distinct(data) /\ now \in Int /\ offset \in Int
  BY DEF IInv, PageOk, SourceOk, WindowBounded, Distinct
<1>2. /\ e \in Seq(Rows) /\ Distinct(e) /\ Len(e) >= Len(data)
      /\ \A i \in DOMAIN e : i > Len(data) => e[i].time \in Seconds
  BY <1>1, AddSamplesIs
<1>3. NamesIn(a) \in SUBSET Series /\ d = CreateWindow(e, NamesIn(a))
  BY AnswerIs
<1> HIDE DEF e
<1>4. /\ d \in Seq(Rows) /\ Distinct(d) /\ Len(d) <= Size
      /\ Len(e) >= Size => Len(d) = Size /\ \A j \in DOMAIN d : \E i \in DOMAIN e : d[j] = e[i]
      /\ FarFromUtc /\ (\A i \in DOMAIN e : e[i].time \in Seconds) => Len(d) = Size
  BY <1>1, <1>2, <1>3, CreateWindowIs
<1>5. Len(data) = Size => Len(e) >= Size
  BY <1>2
<1>6. FarFromUtc => Len(d) = Size
  <2>1. CASE data = << >>
    <3>1. \A i \in DOMAIN e : i > Len(data)
      BY <1>2, <2>1
    <3>2. QED
      BY <1>2, <1>4, <3>1
  <2>2. CASE Len(data) = Size
    BY <1>4, <1>5, <2>2
  <2>3. QED
    BY <2>1, <2>2 DEF IInv, FullWindow
<1>7. QED
  BY <1>4, <1>5, <1>6 DEF e

LEMMA DataReceivedKeeps ==
  ASSUME IInv, NEW i \in DOMAIN answers, DataReceived(i)
  PROVE  IInv'
<1>1. PICK a \in Answers : a = answers[i]
  BY DEF IInv, PageOk
<1>2. /\ UNCHANGED <<now, names, published, late, total, offset, asked, failures>>
      /\ answers' = RemoveAt(answers, i) /\ shown' = a.total
      /\ overtaken' = (overtaken \/ i > 1)
      /\ data' = CreateWindow(AddSamples(data, a), NamesIn(a))
      /\ chart' = UpdateChartFullData(IF chart = NoChart THEN InitChart(a.names) ELSE chart,
                                      data', NamesIn(a))
  BY <1>1 DEF DataReceived, UpdateGraph, sourceVars
<1>3. Named' = Named
  BY <1>2 DEF Named
<1>4. SourceOk'
  BY <1>2, <1>3 DEF IInv, SourceOk
<1>5. /\ answers' \in Seq(Answers) /\ AnswersGrow'
      /\ i = 1 => \A j \in DOMAIN answers' :
                     j + 1 \in DOMAIN answers /\ 1 < j + 1 /\ answers'[j] = answers[j + 1]
  BY <1>2, AnswersLeft DEF IInv, PageOk
<1>6. /\ data' \in Seq(Rows) /\ Distinct(data') /\ Len(data') <= Size
      /\ FarFromUtc => Len(data') = Size
  BY <1>2, WindowUpdated
<1>7. overtaken' \in BOOLEAN /\ shown' \in 0 .. MaxTotal
  <2>1. shown' \in 0 .. MaxTotal
    BY <1>2, AnswerIs
  <2>2. overtaken' \in BOOLEAN
    BY <1>2
  <2>3. QED
    BY <2>1, <2>2
<1>8. PageOk'
  BY <1>2, <1>5, <1>6, <1>7 DEF IInv, PageOk
<1>9. ChartOf(chart', data', overtaken') /\ (~ overtaken' => SeriesOf(chart') \subseteq NamesIn(a))
  <2>1. overtaken \/ i > 1 => overtaken'
    BY <1>2
  <2>2. QED
    BY <1>1, <1>2, <1>7, <2>1, ChartUpdated
<1>10. WindowBounded' /\ FullWindow'
  BY <1>2, <1>6 DEF WindowBounded, FullWindow, FarFromUtc, Distinct
<1>11. NothingMissed'
  <2> SUFFICES ASSUME ~ overtaken'
               PROVE  /\ shown' <= total /\ Drawn' \subseteq Named
                      /\ \A j \in DOMAIN answers' :
                            shown' <= answers'[j].total /\ Drawn' \subseteq NamesIn(answers'[j])
    BY <1>2, <1>3 DEF NothingMissed
  <2>1. i = 1
    <3>1. ~ (i > 1)
      BY <1>2, Zenon
    <3>2. i \in 1 .. Len(answers) /\ Len(answers) \in Nat
      BY DEF IInv, PageOk
    <3>3. QED
      BY <3>1, <3>2
  <2>2. NamesIn(a) \subseteq Named /\ a.total <= total
    BY <1>1 DEF IInv, AnswersGrow
  <2>3. Drawn' \subseteq NamesIn(a)
    BY <1>9 DEF Drawn, SeriesOf
  <2>4. ASSUME NEW j \in DOMAIN answers'
        PROVE  shown' <= answers'[j].total /\ Drawn' \subseteq NamesIn(answers'[j])
    <3>1. j + 1 \in DOMAIN answers /\ i < j + 1 /\ answers'[j] = answers[j + 1]
      BY <1>5, <2>1
    <3>2. NamesIn(a) \subseteq NamesIn(answers[j + 1]) /\ a.total <= answers[j + 1].total
      BY <1>1, <3>1 DEF IInv, AnswersGrow
    <3>3. QED
      BY <1>2, <2>3, <3>1, <3>2
  <2>5. QED
    BY <1>2, <2>2, <2>3, <2>4
<1>12. QED
  BY <1>4, <1>5, <1>8, <1>9, <1>10, <1>11 DEF IInv

LEMMA NextKeeps == IInv /\ [Next]_vars => IInv'
<1> SUFFICES ASSUME IInv, [Next]_vars PROVE IInv'
  OBVIOUS
<1>1. CASE ServerStep
  BY <1>1, ServerStepKeeps
<1>2. CASE Update
  BY <1>2, UpdateKeeps
<1>3. CASE Answer
  BY <1>3, AnswerKeeps
<1>4. CASE Fail
  BY <1>4, FailKeeps
<1>5. ASSUME NEW i \in DOMAIN answers, DataReceived(i) PROVE IInv'
  BY <1>5, DataReceivedKeeps
<1>6. CASE UNCHANGED vars
  <2>1. /\ UNCHANGED <<now, names, published, late, total, offset, asked, answers, failures>>
        /\ UNCHANGED <<shown, data, chart, overtaken>>
    BY <1>6 DEF vars, sourceVars, requestVars, pageVars
  <2>2. Named' = Named /\ Drawn' = Drawn
    BY <2>1 DEF Named, Drawn
  <2>3. SourceOk' /\ PageOk'
    BY <2>1, <2>2 DEF IInv, SourceOk, PageOk
  <2>4. AnswersGrow'
    BY <2>1, AnswersStay DEF IInv
  <2>5. NothingMissed'
    BY <2>1, <2>2 DEF IInv, NothingMissed, NamesIn
  <2>6. QED
    BY <2>1, <2>3, <2>4, <2>5, WindowStays DEF IInv
<1>7. QED
  BY <1>1, <1>2, <1>3, <1>4, <1>5, <1>6 DEF Next

(* What the runs check follows from the invariant.                         *)
LEMMA Implied == IInv => TypeOK /\ WindowBounded /\ LinesComplete /\ NeverInvents
<1> SUFFICES ASSUME IInv PROVE TypeOK /\ WindowBounded /\ LinesComplete /\ NeverInvents
  OBVIOUS
<1>1. data \in Seq(Rows) /\ \A i \in DOMAIN data : data[i] \in Rows
  BY DEF IInv, PageOk
<1>2. TypeOK
  <2>1. /\ asked \in 0 .. MaxRequests /\ failures \in 0 .. MaxFailures
        /\ shown \in 0 .. MaxTotal /\ overtaken \in BOOLEAN
    BY DEF IInv, PageOk
  <2>2. ASSUME NEW i \in DOMAIN answers
        PROVE  /\ NamesIn(answers[i]) = DOMAIN answers[i].published
               /\ NamesIn(answers[i]) \subseteq Series
               /\ answers[i].total \in 0 .. MaxTotal
    <3>1. answers[i] \in Answers
      BY DEF IInv, PageOk
    <3>2. QED
      BY <3>1, AnswerIs
  <2>3. ASSUME NEW i \in DOMAIN data
        PROVE  data[i].time \in Int /\ DOMAIN data[i].cells \subseteq Series
    BY <1>1, RowIs
  <2>4. Drawn \subseteq Series
    BY DEF IInv, ChartOf, Drawn
  <2>5. QED
    BY <2>1, <2>2, <2>3, <2>4 DEF TypeOK
<1>3. ASSUME chart # NoChart
      PROVE  /\ chart.labels = [i \in DOMAIN data |-> data[i].time]
             /\ Len(chart.labels) = Len(data) /\ DOMAIN chart.labels = DOMAIN data
  <2>1. chart.labels = [i \in DOMAIN data |-> data[i].time]
    BY <1>3 DEF IInv, ChartOf
  <2>2. \A i \in DOMAIN data : data[i].time \in Int
    BY <1>1, RowIs
  <2>3. DOMAIN data = 1 .. Len(data) /\ Len(data) \in Nat
    BY <1>1
  <2>4. chart.labels \in [1 .. Len(data) -> Int]
    BY <2>1, <2>2, <2>3
  <2>5. QED
    BY <2>1, <2>3, <2>4
<1>4. ASSUME chart # NoChart, NEW k \in DOMAIN chart.datasets
      PROVE  \/ chart.datasets[k].data = Line(data, chart.datasets[k].name)
             \/ chart.datasets[k].data = Missing /\ overtaken
  BY <1>4 DEF IInv, ChartOf
<1>5. LinesComplete
  <2> SUFFICES ASSUME chart # NoChart, NEW k \in DOMAIN chart.datasets
               PROVE  LET line == chart.datasets[k].data
                      IN  IF line = Missing THEN overtaken ELSE Len(line) = Len(data)
    BY <1>3 DEF LinesComplete
  <2>1. QED
    BY <1>1, <1>4, LineIs
<1>6. NeverInvents
  <2> SUFFICES ASSUME chart # NoChart, NEW k \in DOMAIN chart.datasets,
                      chart.datasets[k].data # Missing, NEW i \in DOMAIN data
               PROVE  \/ chart.datasets[k].data[i] = 0
                      \/ /\ data[i].time \in Seconds
                         /\ chart.datasets[k].data[i]
                              = Work[chart.datasets[k].name][data[i].time]
    BY <1>3 DEF NeverInvents
  <2>1. chart.datasets[k].data = Line(data, chart.datasets[k].name)
    BY <1>4
  <2>2. QED
    BY <1>1, <2>1, LineIs
<1>7. QED
  BY <1>2, <1>5, <1>6 DEF IInv

(* What Value finds in a window without two rows for one second.           *)
LEMMA ValueAt ==
  ASSUME NEW d \in Seq(Rows), Distinct(d), NEW s, NEW i \in DOMAIN d, s \in DOMAIN d[i].cells
  PROVE  Value(d, s, d[i].time) = d[i].cells[s]
<1> DEFINE rows == {j \in DOMAIN d : d[j].time = d[i].time /\ s \in DOMAIN d[j].cells}
<1>1. rows = {i}
  BY DEF Distinct
<1>2. Value(d, s, d[i].time) = IF rows = {} THEN 0 ELSE d[CHOOSE j \in rows : TRUE].cells[s]
  BY DEF Value
<1>3. (CHOOSE j \in rows : TRUE) = i /\ rows # {}
  BY <1>1
<1>4. QED
  BY <1>2, <1>3

LEMMA ValueFrom ==
  ASSUME NEW d \in Seq(Rows), NEW s, NEW t, Value(d, s, t) # 0
  PROVE  \E i \in DOMAIN d : /\ d[i].time = t /\ s \in DOMAIN d[i].cells
                             /\ Value(d, s, t) = d[i].cells[s]
<1> DEFINE rows == {j \in DOMAIN d : d[j].time = t /\ s \in DOMAIN d[j].cells}
<1>1. Value(d, s, t) = IF rows = {} THEN 0 ELSE d[CHOOSE j \in rows : TRUE].cells[s]
  BY DEF Value
<1>2. rows # {} /\ Value(d, s, t) = d[CHOOSE j \in rows : TRUE].cells[s]
  BY <1>1
<1>3. (CHOOSE j \in rows : TRUE) \in rows
  BY <1>2
<1>4. QED
  BY <1>2, <1>3

(* A step that keeps a row keeps what it says.                             *)
LEMMA ReceivedKeepsSamples ==
  ASSUME IInv, FarFromUtc, NEW a \in Answers,
         NEW d, d = CreateWindow(AddSamples(data, a), NamesIn(a)),
         NEW t \in Times(data) \cap Times(d), NEW s \in Series, Value(data, s, t) # 0
  PROVE  Value(d, s, t) = Value(data, s, t)
<1> DEFINE e == AddSamples(data, a)
<1>1. data \in Seq(Rows) /\ Distinct(data)
  BY DEF IInv, PageOk, WindowBounded, Distinct
<1>2. /\ e \in Seq(Rows) /\ Distinct(e) /\ Len(e) >= Len(data)
      /\ \A i \in DOMAIN data :
            e[i] = [time |-> data[i].time, cells |-> WithSamples(data[i].cells, data[i].time, a)]
  BY <1>1, AddSamplesIs
<1>3. PICK i \in DOMAIN data : /\ data[i].time = t /\ s \in DOMAIN data[i].cells
                               /\ Value(data, s, t) = data[i].cells[s]
  BY <1>1, ValueFrom
<1>4. data # << >>
  BY <1>3
<1>5. /\ d \in Seq(Rows) /\ Distinct(d)
      /\ \A j \in DOMAIN d : \E k \in DOMAIN e : d[j] = e[k]
  BY <1>4, WindowUpdated DEF IInv, FullWindow
<1>6. PICK j \in DOMAIN d : d[j].time = t
  BY DEF Times
<1>7. e[i] = [time |-> t, cells |-> WithSamples(data[i].cells, t, a)]
  BY <1>2, <1>3
<1> HIDE DEF e
<1>8. i \in DOMAIN e
  BY <1>1, <1>2
<1>9. d[j] = e[i]
  <2>1. PICK k \in DOMAIN e : d[j] = e[k]
    BY <1>5
  <2>2. e[k].time = e[i].time
    BY <1>6, <1>7, <2>1
  <2>3. QED
    BY <1>2, <1>8, <2>1, <2>2 DEF Distinct
<1>10. d[j].cells = WithSamples(data[i].cells, t, a)
  BY <1>7, <1>9
<1>11. /\ s \in DOMAIN d[j].cells
       /\ d[j].cells[s] = IF s \in UpdatedAt(t, a) THEN Sample(a, s) ELSE data[i].cells[s]
  BY <1>3, <1>10 DEF WithSamples
<1>12. Value(d, s, t) = d[j].cells[s]
  BY <1>5, <1>6, <1>11, ValueAt
<1>13. data[i].cells[s] = Work[s][t]
  <2>1. data[i] \in Rows
    BY <1>1
  <2>2. QED
    BY <1>3, <2>1, RowIs
<1>14. s \in UpdatedAt(t, a) => Sample(a, s) = Work[s][t]
  BY DEF UpdatedAt, Sample
<1>15. QED
  BY <1>3, <1>11, <1>12, <1>13, <1>14

-----------------------------------------------------------------------------
(* The theorems *)

LEMMA Invariance == Spec => []IInv
<1>1. QED
  BY InitIInv, NextKeeps, PTL DEF Spec

(* The types of what the page and the answers on their way keep.           *)
THEOREM PageTypeCorrect == Spec => []TypeOK
<1>1. QED
  BY Invariance, Implied, PTL

(* createWindow: never more than Size rows, never two for a second, in any *)
(* time zone and for any order and loss of the answers.                    *)
THEOREM WindowStaysBounded == Spec => []WindowBounded
<1>1. QED
  BY Invariance, Implied, PTL

(* updateChartFullData: a line without values is the work of an answer     *)
(* that was overtaken.                                                     *)
THEOREM LinesAreComplete == Spec => []LinesComplete
<1>1. QED
  BY Invariance, Implied, PTL

(* What is drawn over a second is zero or what the server said of it.      *)
THEOREM NothingIsInvented == Spec => []NeverInvents
<1>1. QED
  BY Invariance, Implied, PTL

(* dataReceived: only an overtaken answer sets the total back.             *)
THEOREM TotalsAdvance == Spec => CountersAdvance
<1>1. IInv /\ [Next]_vars => [shown' < shown => overtaken']_vars
  <2> SUFFICES ASSUME IInv, Next, shown' < shown PROVE overtaken'
    OBVIOUS
  <2>1. shown \in Int
    BY DEF IInv, PageOk
  <2>2. ASSUME UNCHANGED shown PROVE FALSE
    BY <2>1, <2>2
  <2>3. PICK i \in DOMAIN answers : DataReceived(i)
    BY <2>2 DEF Next, ServerStep, Update, Answer, Fail, pageVars
  <2>4. answers[i] \in Answers /\ shown' = answers[i].total
    BY <2>3 DEF IInv, PageOk, DataReceived
  <2>5. answers[i].total \in Int
    BY <2>4, AnswerIs
  <2>6. overtaken
    BY <2>1, <2>4, <2>5 DEF IInv, NothingMissed
  <2>7. QED
    BY <2>3, <2>6 DEF DataReceived
<1>2. QED
  BY <1>1, Invariance, PTL DEF CountersAdvance, Spec

(* createWindow: far from UTC, a second that stays in the window keeps     *)
(* every sample it has.                                                    *)
THEOREM SamplesAreKept == Spec => SamplesStay
<1> DEFINE Kept == FarFromUtc =>
              \A t \in Times(data) \cap Times(data'), s \in Series :
                  Value(data, s, t) # 0 => Value(data', s, t) = Value(data, s, t)
<1>1. IInv /\ [Next]_vars => [Kept]_vars
  <2> SUFFICES ASSUME IInv, Next PROVE Kept
    OBVIOUS
  <2>1. CASE UNCHANGED data
    BY <2>1
  <2>2. ASSUME NEW i \in DOMAIN answers, DataReceived(i) PROVE Kept
    <3>1. PICK a \in Answers : a = answers[i]
      BY DEF IInv, PageOk
    <3>2. data' = CreateWindow(AddSamples(data, a), NamesIn(a))
      BY <2>2, <3>1 DEF DataReceived, UpdateGraph
    <3>3. QED
      BY <3>2, ReceivedKeepsSamples
  <2>3. QED
    BY <2>1, <2>2 DEF Next, ServerStep, Update, Answer, Fail, pageVars
<1>2. QED
  BY <1>1, Invariance, PTL DEF SamplesStay, Spec
=============================================================================
