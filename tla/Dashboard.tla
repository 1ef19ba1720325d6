----------------------------- MODULE Dashboard -----------------------------
(***************************************************************************)
(* The dashboard page: Jobman.js polls the metrics once a second and draws *)
(* a window of Size seconds.  Requests overlap, answers arrive in any      *)
(* order or not at all; each callback of the page is one step.             *)
(***************************************************************************)
EXTENDS MetricsSource, Ordering, SequencesExt

CONSTANTS
    Size,           \* rows of the window, 100 in the code
    Work,           \* Work[s][t]: what pool s processed in second t
    Offsets,        \* seconds by which a browser's clock may differ from UTC
    MaxRequests,    \* bound: requests in flight
    MaxFailures,    \* bound: requests that fail
    Missing,        \* undefined, as the data of a dataset
    NoChart         \* null, as the chart

ASSUME DashboardAssumption ==
    /\ Size \in Nat \ {0}
    /\ Work \in [Series -> [Seconds -> Nat]]
    /\ Offsets \subseteq Int
    /\ MaxRequests \in Nat \ {0}
    /\ MaxFailures \in Nat
    /\ Missing \notin Seq(Int)

VARIABLES
    offset,     \* the time zone of this browser
    asked,      \* requests the server has not answered yet
    answers,    \* answers on their way, in the order the server gave them
    failures,   \* requests that have failed
    shown,      \* the total on the page
    data,       \* WorkGraph.data: rows in the order their keys were added
    chart,      \* what Chart.js draws
    overtaken   \* history: an answer has arrived before an older one

requestVars == <<asked, answers, failures>>
pageVars == <<shown, data, chart, overtaken>>
vars == <<sourceVars, offset, requestVars, pageVars>>

Times(d) == {d[i].time : i \in DOMAIN d}

-----------------------------------------------------------------------------
(* WorkGraph *)

\* initData and init: one dataset for each series of the first answer.
InitChart(serieNames) ==
    [labels |-> << >>,
     datasets |-> [k \in DOMAIN serieNames |-> [name |-> serieNames[k], data |-> << >>]]]

NamesIn(a) == {a.names[k] : k \in DOMAIN a.names}

\* The series of answer a whose sample is of time t, and that sample.
UpdatedAt_Any(t, a) == NamesIn(a)    \* mutant: the time of the sample is ignored
UpdatedAt(t, a) == {s \in NamesIn(a) : a.published[s] = t}
Sample(a, s) == Work[s][a.published[s]]

\* The row of time t with the samples that answer a has for t.
WithSamples_Replaced(cells, t, a) ==    \* mutant: a new row instead of the old
    [s \in UpdatedAt(t, a) |-> Sample(a, s)]
WithSamples(cells, t, a) ==
    [s \in DOMAIN cells \cup UpdatedAt(t, a) |->
        IF s \in UpdatedAt(t, a) THEN Sample(a, s) ELSE cells[s]]

Refreshed_Never(d, a) == d    \* mutant: rows that exist are final
Refreshed(d, a) ==
    [i \in DOMAIN d |-> [d[i] EXCEPT !.cells = WithSamples(@, d[i].time, a)]]

\* The loop of update: rows that exist are updated where they are, the others
\* are added at the end, one for the first series of each time.
AddSamples(d, a) ==
    LET TimeOf(k) == a.published[a.names[k]]
        firsts == {k \in DOMAIN a.names :
                      /\ TimeOf(k) \notin Times(d)
                      /\ \A j \in 1 .. k - 1 : TimeOf(j) # TimeOf(k)}
        added == InOrder(firsts)
    IN  Refreshed(d, a)
        \o [i \in DOMAIN added |->
               [time |-> TimeOf(added[i]), cells |-> WithSamples(<< >>, TimeOf(added[i]), a)]]

\* Keys are deleted from the front, whatever time they stand for.
DropFirst_OneLate(d) ==    \* mutant
    IF Len(d) > Size + 1 THEN SubSeq(d, Len(d) - Size, Len(d)) ELSE d
DropFirst(d) == IF Len(d) > Size THEN SubSeq(d, Len(d) - Size + 1, Len(d)) ELSE d

\* toJSON().slice(0, 19) of a time of day of this browser: the time in UTC.
ToJson(t) == t - offset

\* Zeros for the seconds before the first row, as many as the window lacks rows.
\* A row that has one of these times is overwritten.
Pad(d, series) ==
    LET refTime == IF d = << >> THEN now ELSE d[1].time
        PadTime(k) == ToJson(refTime - k)
        padded == 1 .. Size - Len(d)
        Zeros(t) == [time |-> t, cells |-> [s \in series |-> 0]]
        added == InOrder({k \in padded : PadTime(k) \notin Times(d)})
    IN  [i \in DOMAIN d |->
            IF \E k \in padded : PadTime(k) = d[i].time THEN Zeros(d[i].time) ELSE d[i]]
        \o [i \in DOMAIN added |-> Zeros(PadTime(added[i]))]

CreateWindow(d, series) == Pad(DropFirst(d), series)

\* The values of series s, a zero where a row has none.
Line_Gaps(d, s) ==    \* mutant: no value where a row has none
    LET with == SelectSeq(d, LAMBDA row : s \in DOMAIN row.cells)
    IN  [i \in DOMAIN with |-> with[i].cells[s]]
Line(d, s) == [i \in DOMAIN d |-> IF s \in DOMAIN d[i].cells THEN d[i].cells[s] ELSE 0]

\* Every dataset gets its line, or undefined when the answer does not mention
\* the series.
UpdateChartFullData(c, d, series) ==
    [labels |-> [i \in DOMAIN d |-> d[i].time],
     datasets |-> [k \in DOMAIN c.datasets |->
        LET s == c.datasets[k].name
        IN  [name |-> s,
             data |-> IF s \in series THEN Line(d, s) ELSE Missing]]]

-----------------------------------------------------------------------------
(* DashboardServerDataProvider *)

PageInit ==
    /\ offset \in Offsets
    /\ asked = 0
    /\ answers = << >>
    /\ failures = 0
    /\ shown = 0
    /\ data = << >>
    /\ chart = NoChart
    /\ overtaken = FALSE

\* The timer does not wait for the answers of earlier requests.
Update ==
    /\ asked + Len(answers) < MaxRequests
    /\ asked' = asked + 1
    /\ UNCHANGED <<sourceVars, offset, answers, failures, pageVars>>

\* MetricsController.Server.  The live collection is written out without the
\* lock of WorkServerMetrics; the answer here is of one moment.
Answer ==
    /\ asked > 0
    /\ asked' = asked - 1
    /\ answers' = Append(answers, [names |-> names, published |-> published, total |-> total])
    /\ UNCHANGED <<sourceVars, offset, failures, pageVars>>

\* The error callback only writes to the console.
Fail ==
    /\ failures < MaxFailures
    /\ failures' = failures + 1
    /\ \/ /\ asked > 0
          /\ asked' = asked - 1
          /\ UNCHANGED answers
       \/ /\ \E i \in DOMAIN answers : answers' = RemoveAt(answers, i)
          /\ UNCHANGED asked
    /\ UNCHANGED <<sourceVars, offset, pageVars>>

\* WorkGraph.update
UpdateGraph(a) ==
    /\ data' = CreateWindow(AddSamples(data, a), NamesIn(a))
    /\ chart' = UpdateChartFullData(IF chart = NoChart THEN InitChart(a.names) ELSE chart,
                                    data', NamesIn(a))

DataReceived(i) ==
    /\ answers' = RemoveAt(answers, i)
    /\ shown' = answers[i].total
    /\ UpdateGraph(answers[i])
    /\ overtaken' = (overtaken \/ i > 1)
    /\ UNCHANGED <<sourceVars, offset, asked, failures>>

ServerStep == SourceNext /\ UNCHANGED <<offset, requestVars, pageVars>>

Init == SourceInit /\ PageInit

Next ==
    \/ ServerStep
    \/ Update
    \/ Answer
    \/ Fail
    \/ \E i \in DOMAIN answers : DataReceived(i)

Spec == Init /\ [][Next]_vars

\* Whatever becomes of it, an answer does not stay on its way for ever.
OldestAnswerEnds == answers # << >> /\ answers' = Tail(answers)

\* The interval is never cleared, the server answers, answers arrive or fail.
FairSpec ==
    /\ Spec
    /\ WF_vars(Update)
    /\ WF_vars(Answer)
    /\ WF_answers(OldestAnswerEnds)

-----------------------------------------------------------------------------
(* Properties *)

Drawn == IF chart = NoChart THEN {}
         ELSE {chart.datasets[k].name : k \in DOMAIN chart.datasets}

\* Everything the page keeps is of its type.
TypeOK ==
    /\ asked \in 0 .. MaxRequests
    /\ \A i \in DOMAIN answers :
          /\ NamesIn(answers[i]) = DOMAIN answers[i].published
          /\ NamesIn(answers[i]) \subseteq Series
          /\ answers[i].total \in 0 .. MaxTotal
    /\ failures \in 0 .. MaxFailures
    /\ shown \in 0 .. MaxTotal
    /\ \A i \in DOMAIN data : data[i].time \in Int /\ DOMAIN data[i].cells \subseteq Series
    /\ Drawn \subseteq Series
    /\ overtaken \in BOOLEAN

\* createWindow: however late, mixed or repeated the samples of an answer are,
\* the window never has more than Size rows, and no two for the same second.
WindowBounded ==
    /\ Len(data) <= Size
    /\ \A i, j \in DOMAIN data : i # j => data[i].time # data[j].time

\* updateChartFullData: the labels are the rows, each line has a value for each
\* label, and a line is without values only after an answer that is older than
\* the one that made the chart.
LinesComplete ==
    chart # NoChart =>
        /\ Len(chart.labels) = Len(data)
        /\ \A k \in DOMAIN chart.datasets :
              LET line == chart.datasets[k].data
              IN  IF line = Missing THEN overtaken ELSE Len(line) = Len(chart.labels)

\* update, createWindow, updateChartFullData: over a label there is what the
\* server said of that second and that series, or zero: values never move to
\* another second or to another series.
NeverInvents ==
    chart # NoChart =>
        \A k \in DOMAIN chart.datasets :
            LET set == chart.datasets[k]
            IN  set.data # Missing =>
                    \A i \in DOMAIN chart.labels :
                        \/ set.data[i] = 0
                        \/ /\ chart.labels[i] \in Seconds
                           /\ set.data[i] = Work[set.name][chart.labels[i]]

\* dataReceived: the total on the page goes back only if an answer has been
\* overtaken by a later one.
CountersAdvance == [][shown' < shown => overtaken']_vars

Value(d, s, t) ==
    LET rows == {i \in DOMAIN d : d[i].time = t /\ s \in DOMAIN d[i].cells}
    IN  IF rows = {} THEN 0 ELSE d[CHOOSE i \in rows : TRUE].cells[s]

\* The padding of this browser is of no time that a sample can have.
FarFromUtc == offset \notin -(MaxTime + Size) .. MaxTime + Size

\* createWindow: while a second is in the window its samples stay as they are,
\* unless the browser is so near UTC that padding may be for that second.
SamplesStay ==
    [][FarFromUtc =>
          \A t \in Times(data) \cap Times(data'), s \in Series :
              Value(data, s, t) # 0 => Value(data', s, t) = Value(data, s, t)]_vars

\* dataReceived: whatever answers were lost or came late, once the server has
\* nothing newer the page comes to show its total and the last sample of every
\* series of the chart, unless padding has taken the row as above.
CatchesUp ==
    <>[](/\ shown = total
         /\ FarFromUtc =>
               \A s \in Drawn \cap Named : Value(data, s, published[s]) = Work[s][published[s]])
=============================================================================
