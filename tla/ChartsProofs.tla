---------------------------- MODULE ChartsProofs ----------------------------
(* What holds of Charts for any rows, lengths of answers and number of times  *)
(* the page asks.                                                             *)
EXTENDS Charts, TLAPS

\* No request is from the future, so that a new one is not taken for an old one.
NoneFromLater == \A r \in upper : r.id <= asked

\* While a settled list is open there is nothing left to be answered.
SettledStays == list # NoList /\ list.settled => upper = {}

IInv ==
    /\ TypeOK
    /\ NoneFromLater
    /\ NewestIsSwitch
    /\ SettledStays
    /\ ListIsWhole
    /\ LabelsOfBars
    /\ SameReading

LEMMA NoLineIsNone == NoLine.id = 0 /\ NoLine.length = 0
BY DEF NoLine

LEMMA InitIInv == Init => IInv
<1>. SUFFICES ASSUME Init PROVE IInv
    OBVIOUS
<1>. USE ChartsAssumption
<1>1. type \in 1..5
    BY DEF Init
<1>2. asked = 1 /\ 1 \in Ids /\ count = 12 /\ 12 \in Intervals
    BY DEF Init, Ids, Intervals
<1>3. upper = {[id |-> 1, interval |-> 12]} /\ upper \subseteq Requests
    BY <1>2 DEF Init, Requests
<1>4. line = NoLine /\ list = NoList /\ bars = 0 /\ barLabels = 0 /\ lower = {1}
    BY DEF Init
<1>5. TypeOK
    BY <1>1, <1>2, <1>3, <1>4 DEF TypeOK
<1>6. NoneFromLater
    BY <1>2, <1>3 DEF NoneFromLater
<1>7. NewestIsSwitch
    BY <1>2, <1>3, <1>4, NoLineIsNone DEF NewestIsSwitch
<1>8. SettledStays /\ ListIsWhole /\ LabelsOfBars
    BY <1>4 DEF SettledStays, ListIsWhole, LabelsOfBars
<1>9. SameReading
    BY <1>4 DEF SameReading
<1>. QED
    BY <1>5, <1>6, <1>7, <1>8, <1>9 DEF IInv

\* Asking again, by either button.  Both lie under the list, so none is open.
LEMMA ResetStep ==
    ASSUME IInv, list = NoList, count' \in Intervals, ResetDipView1(count')
    PROVE  IInv'
<1>. USE ChartsAssumption
<1>1. TypeOK /\ NoneFromLater /\ SameReading
    BY DEF IInv
<1>2. asked \in Ids /\ asked < MaxAsked /\ asked' = asked + 1
    BY <1>1 DEF TypeOK, ResetDipView1
<1>3. asked \in Nat /\ asked' \in Ids
    BY <1>2 DEF Ids
<1>. DEFINE new == [id |-> asked', interval |-> count']
<1>4. upper' = upper \cup {new}
    BY <1>2 DEF ResetDipView1, ConfigureChartView, AskAll
<1>5. new \in Requests /\ new.id = asked' /\ new.interval = count'
    BY <1>3 DEF Requests
<1>6. /\ line' = NoLine /\ barLabels' = 0 /\ bars' = bars /\ type' = type /\ list' = list
      /\ lower' = lower \cup {asked'}
    BY <1>2 DEF ResetDipView1, ConfigureChartView, AskAll
<1>. HIDE DEF new
<1>7. upper' \subseteq Requests
    BY <1>1, <1>4, <1>5 DEF TypeOK
<1>8. TypeOK'
    BY <1>1, <1>3, <1>6, <1>7 DEF TypeOK
<1>9. \A r \in upper : r.id \in Nat /\ r.id <= asked
    BY <1>1 DEF TypeOK, Requests, Ids, NoneFromLater
<1>10. NoneFromLater'
    BY <1>2, <1>3, <1>4, <1>5, <1>9 DEF NoneFromLater, Ids
<1>11. NewestIsSwitch'
    <2>1. \A r \in upper' : r.id = asked' => r = new
        BY <1>2, <1>3, <1>4, <1>9
    <2>2. line'.id # asked'
        BY <1>3, <1>6, NoLineIsNone DEF Ids
    <2>. QED
        BY <1>5, <2>1, <2>2 DEF NewestIsSwitch
<1>12. SettledStays' /\ ListIsWhole' /\ LabelsOfBars'
    BY <1>6 DEF SettledStays, ListIsWhole, LabelsOfBars
<1>13. SameReading'
    BY <1>1, <1>6 DEF SameReading
<1>. QED
    BY <1>8, <1>10, <1>11, <1>12, <1>13 DEF IInv

\* The list's numbering of a reading is another, but of the same reading.
LEMMA ListTypeReads ==
    ASSUME type \in 1..5
    PROVE  ListType \in 1..5 /\ ListReading[ListType] = ChartReading[type]
<1>1. CASE type = 1
    BY <1>1 DEF ListType, ListReading, ChartReading
<1>2. CASE type = 2
    BY <1>2 DEF ListType, ListReading, ChartReading
<1>3. CASE type = 3
    BY <1>3 DEF ListType, ListReading, ChartReading
<1>4. CASE type = 4
    BY <1>4 DEF ListType, ListReading, ChartReading
<1>5. CASE type = 5
    BY <1>5 DEF ListType, ListReading, ChartReading
<1>. QED
    BY <1>1, <1>2, <1>3, <1>4, <1>5

LEMMA StepIInv == IInv /\ [Next]_vars => IInv'
<1>. SUFFICES ASSUME IInv, [Next]_vars PROVE IInv'
    OBVIOUS
<1>. USE ChartsAssumption
<1>1. /\ TypeOK /\ NoneFromLater /\ NewestIsSwitch
      /\ SettledStays /\ ListIsWhole /\ LabelsOfBars /\ SameReading
    BY DEF IInv
<1>2. CASE SwitchInterval
    BY <1>2, ResetStep DEF SwitchInterval
<1>3. CASE Reload
    <2>1. count' \in Intervals /\ count' = count
        BY <1>1, <1>3 DEF Reload, TypeOK
    <2>2. ResetDipView1(count')
        BY <1>3, <2>1 DEF Reload
    <2>. QED
        BY <1>3, <2>1, <2>2, ResetStep DEF Reload
<1>4. CASE ChartButtonClick
    <2>1. ListType \in 1..5 /\ ListReading[ListType] = ChartReading[type]
        BY <1>1, ListTypeReads DEF TypeOK
    <2>2. line.length \in Lengths \cup {0}
        BY <1>1, NoLineIsNone DEF TypeOK
    <2>3. /\ list' = [type |-> ListType, length |-> line.length, settled |-> upper = {}]
          /\ UNCHANGED <<type, count, asked, upper, lower, line, bars, barLabels>>
        BY <1>4 DEF ChartButtonClick
    <2>4. list' \in [type : 1..5, length : Lengths \cup {0}, settled : BOOLEAN]
        BY <2>1, <2>2, <2>3
    <2>5. /\ list'.type = ListType /\ list'.length = line.length
          /\ list'.settled <=> upper = {}
        BY <2>3
    <2>6. TypeOK' /\ NoneFromLater' /\ NewestIsSwitch' /\ LabelsOfBars'
        BY <1>1, <2>3, <2>4 DEF TypeOK, NoneFromLater, NewestIsSwitch, LabelsOfBars
    <2>7. SettledStays' /\ ListIsWhole'
        BY <2>3, <2>5 DEF SettledStays, ListIsWhole
    <2>8. SameReading'
        BY <1>1, <2>1, <2>3, <2>5 DEF SameReading
    <2>. QED
        BY <2>6, <2>7, <2>8 DEF IInv
<1>5. CASE BackFromList
    BY <1>1, <1>5 DEF BackFromList, IInv, TypeOK, NoneFromLater, NewestIsSwitch,
        SettledStays, ListIsWhole, LabelsOfBars, SameReading
<1>6. ASSUME NEW r \in upper, UpperArrives(r) PROVE IInv'
    <2>1. r \in Requests /\ (r.id = asked => r.interval = count)
        BY <1>1 DEF TypeOK, NewestIsSwitch
    <2>2. PICK n \in Lengths :
            line' = [id |-> r.id, interval |-> r.interval, length |-> n]
        BY <1>6 DEF UpperArrives
    <2>3. /\ line' \in [id : Ids, interval : Intervals, length : Lengths]
          /\ line'.id = r.id /\ line'.interval = r.interval
        BY <2>1, <2>2 DEF Requests
    <2>4. /\ upper' = upper \ {r}
          /\ UNCHANGED <<type, count, asked, lower, bars, barLabels, list>>
        BY <1>6 DEF UpperArrives
    <2>5. TypeOK' /\ NoneFromLater'
        BY <1>1, <2>3, <2>4 DEF TypeOK, NoneFromLater
    <2>6. NewestIsSwitch'
        BY <1>1, <2>1, <2>3, <2>4 DEF NewestIsSwitch
    <2>7. ~(list # NoList /\ list.settled)
        BY <1>1 DEF SettledStays
    <2>8. SettledStays' /\ ListIsWhole' /\ LabelsOfBars' /\ SameReading'
        BY <1>1, <2>4, <2>7 DEF SettledStays, ListIsWhole, LabelsOfBars, SameReading
    <2>. QED
        BY <2>5, <2>6, <2>8 DEF IInv
<1>7. ASSUME NEW r \in upper, UpperFails(r) PROVE IInv'
    BY <1>1, <1>7 DEF UpperFails, IInv, TypeOK, NoneFromLater, NewestIsSwitch,
        SettledStays, ListIsWhole, LabelsOfBars, SameReading
<1>8. ASSUME NEW r \in lower, LowerArrives(r) PROVE IInv'
    <2>1. r \in Ids
        BY <1>1 DEF TypeOK
    <2>. QED
        BY <1>1, <1>8, <2>1 DEF LowerArrives, IInv, TypeOK, NoneFromLater, NewestIsSwitch,
            SettledStays, ListIsWhole, LabelsOfBars, SameReading
<1>9. ASSUME NEW r \in lower, LowerFails(r) PROVE IInv'
    BY <1>1, <1>9 DEF LowerFails, IInv, TypeOK, NoneFromLater, NewestIsSwitch,
        SettledStays, ListIsWhole, LabelsOfBars, SameReading
<1>10. CASE UNCHANGED vars
    BY <1>1, <1>10 DEF vars, IInv, TypeOK, NoneFromLater, NewestIsSwitch,
        SettledStays, ListIsWhole, LabelsOfBars, SameReading
<1>. QED
    BY <1>2, <1>3, <1>4, <1>5, <1>6, <1>7, <1>8, <1>9, <1>10 DEF Next

\* The chart page's variables keep their types.
THEOREM TypeCorrect == Spec => []TypeOK
<1>. QED
    BY InitIInv, StepIInv, PTL DEF Spec, IInv

\* Only the answer to an older request shows the interval the switch does not.
THEOREM NewestIsSwitchAlways == Spec => []NewestIsSwitch
<1>. QED
    BY InitIInv, StepIInv, PTL DEF Spec, IInv

\* A list opened when everything was answered keeps the rows it counted.
THEOREM ListIsWholeAlways == Spec => []ListIsWhole
<1>. QED
    BY InitIInv, StepIInv, PTL DEF Spec, IInv

\* The bars never stand over the labels of another answer.
THEOREM LabelsOfBarsAlways == Spec => []LabelsOfBars
<1>. QED
    BY InitIInv, StepIInv, PTL DEF Spec, IInv

\* chartButtonClick's chain of types: the list opened is of the chart's reading.
THEOREM SameReadingAlways == Spec => []SameReading
<1>. QED
    BY InitIInv, StepIInv, PTL DEF Spec, IInv

-----------------------------------------------------------------------------
(* A chart that says it is loading is being asked for, unless a request       *)
(* failed: asking anew asks for both, and an answer fills what it is for.     *)

FailureSticks ==
    Stuck' => \/ Stuck
              \/ \E r \in upper : UpperFails(r)
              \/ \E r \in lower : LowerFails(r)

LEMMA StepSticks == IInv /\ [Next]_vars => FailureSticks
<1>. SUFFICES ASSUME IInv, [Next]_vars PROVE FailureSticks
    OBVIOUS
<1>1. /\ upper \subseteq Requests /\ lower \subseteq Ids
      /\ \A id \in Ids : id # 0
    BY DEF IInv, TypeOK, Ids
<1>2. ASSUME NEW minutes, ResetDipView1(minutes) PROVE ~Stuck'
    BY <1>2 DEF ResetDipView1, ConfigureChartView, AskAll, Stuck
<1>3. CASE SwitchInterval
    BY <1>2, <1>3 DEF SwitchInterval, FailureSticks
<1>4. CASE Reload
    BY <1>2, <1>4 DEF Reload, FailureSticks
<1>5. ASSUME UNCHANGED <<upper, lower, line, barLabels>> PROVE FailureSticks
    BY <1>5 DEF FailureSticks, Stuck
<1>6. CASE ChartButtonClick \/ BackFromList
    BY <1>5, <1>6 DEF ChartButtonClick, BackFromList
<1>7. ASSUME NEW r \in upper, UpperArrives(r) PROVE FailureSticks
    <2>1. r.id # 0 /\ line'.id = r.id
        BY <1>1, <1>7 DEF UpperArrives, Requests
    <2>2. line' # NoLine
        BY <2>1, NoLineIsNone
    <2>. QED
        BY <1>7, <2>2 DEF UpperArrives, FailureSticks, Stuck
<1>8. ASSUME NEW r \in lower, LowerArrives(r) PROVE FailureSticks
    <2>1. barLabels' # 0
        BY <1>1, <1>8 DEF LowerArrives
    <2>. QED
        BY <1>8, <2>1 DEF LowerArrives, FailureSticks, Stuck
<1>9. CASE UNCHANGED vars
    BY <1>5, <1>9 DEF vars
<1>. QED
    BY <1>3, <1>4, <1>6, <1>7, <1>8, <1>9 DEF Next, FailureSticks

\* configureChartView and the answer blocks: only the failure of a request leaves
\* a chart that says it is loading, or bars without labels, with nobody asking.
THEOREM OnlyFailureSticksAlways == Spec => OnlyFailureSticks
<1>1. IInv /\ [Next]_vars => [FailureSticks]_vars
    BY StepSticks
<1>. QED
    BY InitIInv, StepIInv, <1>1, PTL DEF Spec, OnlyFailureSticks, FailureSticks
=============================================================================
