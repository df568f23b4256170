------------------------------- MODULE Charts -------------------------------
(***************************************************************************)
(* ChartsViewController and the ListInfoViewController it pushes: two      *)
(* charts of one reading, and the numbers of the upper one as a list.      *)
(* dataArray is what the upper chart shows; the list is handed that very   *)
(* array, counts its rows when it opens and is never told of a change.     *)
(*                                                                         *)
(* Only the tide page (type 1) can ask again: a switch between 12 and 5    *)
(* minutes and a reload button both rebuild the upper chart, empty the     *)
(* arrays and send every request anew, while the answers to the old ones   *)
(* still write into whatever arrays and charts there are when they come.   *)
(***************************************************************************)
EXTENDS Integers

CONSTANTS
    Rows,       \* rows of the first page's table that may be tapped
    Lengths,    \* numbers of values an answer may bring
    MaxAsked    \* bound on the times the page asks

ASSUME ChartsAssumption ==
    /\ Rows \subseteq 0..4
    /\ Lengths \subseteq Nat
    /\ MaxAsked \in Nat \ {0}

Intervals == {5, 12}

VARIABLES
    type,       \* 1 tide, 2 temperature, 3 waves, 4 wind, 5 stream
    count,      \* waterLevelCount: the minutes the switch shows
    asked,      \* times the page has asked; the number of its newest requests
    upper,      \* requests of the upper chart under way: [id, interval]
    lower,      \* requests of the lower chart under way: their numbers
    line,       \* dataArray and the upper chart: [id, interval, length]
    bars,       \* the request whose answer the lower chart shows, 0 at first
    barLabels,  \* the request whose answer xValues2 holds, 0 when it is empty
    list        \* the pushed list: [type, length, settled], or NoList

vars == <<type, count, asked, upper, lower, line, bars, barLabels, list>>

Ids == 1..MaxAsked
Requests == [id : Ids, interval : Intervals]
NoLine == [id |-> 0, interval |-> 0, length |-> 0]
NoList == <<>>

TypeOK ==
    /\ type \in 1..5
    /\ count \in Intervals
    /\ asked \in Ids
    /\ upper \subseteq Requests
    /\ lower \subseteq Ids
    /\ line \in [id : Ids, interval : Intervals, length : Lengths] \cup {NoLine}
    /\ bars \in Ids \cup {0}
    /\ barLabels \in Ids \cup {0}
    /\ list \in [type : 1..5, length : Lengths \cup {0}, settled : BOOLEAN] \cup {NoList}

-----------------------------------------------------------------------------
(* Two numberings of the readings: the types of the chart page, which are    *)
(* those of the first page's rows, and the types of the list.                *)

ChartReading == <<"tide", "temperature", "waves", "wind", "stream">>
ListReading == <<"tide", "stream", "temperature", "waves", "wind">>

\* (mutant) the chart page's own type is handed on
SameType == type

\* chartButtonClick's chain of types.
ListType ==
    CASE type = 1 -> 1
      [] type = 2 -> 3
      [] type = 3 -> 4
      [] type = 4 -> 5
      [] type = 5 -> 2

-----------------------------------------------------------------------------

\* viewDidLoad: pushed by a tap on a row, with the 12 minute tides by default.
Init ==
    /\ \E row \in Rows : type = row + 1
    /\ count = 12
    /\ asked = 1
    /\ upper = {[id |-> 1, interval |-> 12]}
    /\ lower = {1}
    /\ line = NoLine
    /\ bars = 0
    /\ barLabels = 0
    /\ list = NoList

\* (mutant) only the upper chart asks again
AskUpperOnly(id, minutes) ==
    /\ upper' = upper \cup {[id |-> id, interval |-> minutes]}
    /\ UNCHANGED lower

\* The requests configureChartView ends with.
AskAll(id, minutes) ==
    /\ upper' = upper \cup {[id |-> id, interval |-> minutes]}
    /\ lower' = lower \cup {id}

\* New arrays, for the labels of the lower chart too, and a new upper chart if
\* there is none; the lower chart is the old one and keeps its bars.
ConfigureChartView(id, minutes) ==
    /\ line' = NoLine
    /\ barLabels' = 0
    /\ AskAll(id, minutes)
    /\ UNCHANGED bars

\* The upper chart and its buttons are thrown away and configured anew.
ResetDipView1(minutes) ==
    /\ asked < MaxAsked
    /\ asked' = asked + 1
    /\ ConfigureChartView(asked + 1, minutes)
    /\ UNCHANGED <<type, list>>

\* (mutant) the requests are sent before waterLevelCount is set
SwitchAfterReset ==
    /\ type = 1 /\ list = NoList
    /\ count' \in Intervals \ {count}
    /\ ResetDipView1(count)

\* (mutant) the switch only knows one way
SwitchDown ==
    /\ type = 1 /\ list = NoList
    /\ count' = count - 7
    /\ ResetDipView1(count')

\* leftchartButtonClick for the switch, which is there only for the tide.
SwitchInterval ==
    /\ type = 1 /\ list = NoList
    /\ count' \in Intervals \ {count}
    /\ ResetDipView1(count')

\* leftchartButtonClick for the other button.
Reload ==
    /\ type = 1 /\ list = NoList
    /\ ResetDipView1(count)
    /\ UNCHANGED count

\* (mutant) the list is handed the array after its table has counted
ChartButtonClickEmpty ==
    /\ list = NoList
    /\ list' = [type |-> ListType, length |-> 0, settled |-> upper = {}]
    /\ UNCHANGED <<type, count, asked, upper, lower, line, bars, barLabels>>

\* chartButtonClick, and the table of the list counting its rows.
ChartButtonClick ==
    /\ list = NoList
    /\ list' = [type |-> ListType, length |-> line.length, settled |-> upper = {}]
    /\ UNCHANGED <<type, count, asked, upper, lower, line, bars, barLabels>>

BackFromList ==
    /\ list # NoList
    /\ list' = NoList
    /\ UNCHANGED <<type, count, asked, upper, lower, line, bars, barLabels>>

-----------------------------------------------------------------------------
(* The answers.                                                              *)

UpperArrives(r) ==
    /\ r \in upper
    /\ upper' = upper \ {r}
    /\ \E n \in Lengths : line' = [id |-> r.id, interval |-> r.interval, length |-> n]
    /\ UNCHANGED <<type, count, asked, lower, bars, barLabels, list>>

UpperFails(r) ==
    /\ r \in upper
    /\ upper' = upper \ {r}
    /\ UNCHANGED <<type, count, asked, lower, line, bars, barLabels, list>>

\* (mutant) the labels are filled only for the newest request
LowerArrivesLabelsOnce(r) ==
    /\ r \in lower
    /\ lower' = lower \ {r}
    /\ bars' = r
    /\ barLabels' = IF barLabels = 0 THEN r ELSE barLabels
    /\ UNCHANGED <<type, count, asked, upper, line, list>>

LowerArrives(r) ==
    /\ r \in lower
    /\ lower' = lower \ {r}
    /\ bars' = r
    /\ barLabels' = r
    /\ UNCHANGED <<type, count, asked, upper, line, list>>

LowerFails(r) ==
    /\ r \in lower
    /\ lower' = lower \ {r}
    /\ UNCHANGED <<type, count, asked, upper, line, bars, barLabels, list>>

Next ==
    \/ SwitchInterval \/ Reload
    \/ ChartButtonClick \/ BackFromList
    \/ \E r \in upper : UpperArrives(r) \/ UpperFails(r)
    \/ \E r \in lower : LowerArrives(r) \/ LowerFails(r)

Spec == Init /\ [][Next]_vars

-----------------------------------------------------------------------------
(* Properties.                                                               *)

\* Tides of the other interval than the switch shows are only ever the answer to
\* an older request (leftchartButtonClick sets the count before it asks).
NewestIsSwitch ==
    /\ \A r \in upper : r.id = asked => r.interval = count
    /\ line.id = asked => line.interval = count

\* A list opened when no answer was outstanding has exactly the rows of its array
\* as long as it is open: the buttons that ask again lie under it.  A list opened
\* before may count rows that a later answer takes away.
ListIsWhole ==
    list # NoList /\ list.settled => list.length = line.length

\* The labels under the bars are those of the bars, or none.
LabelsOfBars == barLabels \in {0, bars}

\* Nothing but a failure of a request leaves a chart that still says it is
\* loading, or bars without labels, with nobody asking any more.
Stuck ==
    \/ line = NoLine /\ upper = {}
    \/ barLabels = 0 /\ lower = {}
OnlyFailureSticks ==
    [][Stuck' => \/ Stuck
                 \/ \E r \in upper : UpperFails(r)
                 \/ \E r \in lower : LowerFails(r)]_vars

\* The list is of the chart's reading, though the two pages number the readings
\* in different ways.
SameReading == list # NoList => ListReading[list.type] = ChartReading[type]
=============================================================================
