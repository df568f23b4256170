----------------------------- MODULE FirstInfo -----------------------------
(***************************************************************************)
(* FirstInfoView, the first page: four readings (weather, sea stream, sea  *)
(* state, water level) for the date of the selected segment, each fetched  *)
(* by a request of its own and kept in a dictionary keyed by the NSDate.   *)
(* A refresh makes new dates and empties the dictionaries while requests   *)
(* for the old dates are still under way; a tap changes the segment while  *)
(* requests for other segments are.  Answers come in any order.            *)
(*                                                                         *)
(* An NSDate is named by what made it: <<g, i>> for segment i of refresh   *)
(* g, <<n, 0>> for the n-th live reading.  A model is named by the date it *)
(* was fetched for.                                                        *)
(***************************************************************************)
EXTENDS Integers, FiniteSets

CONSTANTS
    Rows,         \* readings shown in the table
    Days,         \* segments with a forecast (3 in the code)
    MaxRefresh,   \* bound on refreshes
    MaxLive,      \* bound on taps of the live segment
    MaxInFlight,  \* bound on the dates a reading may be requested for at a time
    MaxSame       \* bound on the requests under way for one reading and date

ASSUME RowsAssumption == Rows \subseteq {"stream", "sea", "water"}

ASSUME BoundAssumption ==
    /\ Days \in Nat \ {0}
    /\ MaxRefresh \in Nat /\ MaxLive \in Nat
    /\ MaxInFlight \in Nat /\ MaxSame \in Nat

Kinds == Rows \cup {"weather"}

Dates == ((0..MaxRefresh) \X (1..Days)) \cup ((0..MaxLive) \X {0})
NoDate == <<0, 0>>

VARIABLES
    gen,        \* refreshes so far: nowDate, nextDate1, nextDate2 are <<gen, 1>>, ...
    live,       \* currentDate is <<live, 0>>
    lastIndex,  \* the selected segment
    cache,      \* cache[k]: the dates that are keys of the dictionary of k
    pending,    \* pending[k][d]: requests under way for k and date d
    shown,      \* shown[k]: the date whose reading is on screen; for "weather"
                \* the labels above the table, and WMDUserManager.selectWeaInfoModel
    current,    \* WMDUserManager.currentWeaInfoModel, for the menu and page two
    spinner     \* mj_header is refreshing

vars == <<gen, live, lastIndex, cache, pending, shown, current, spinner>>

TypeOK ==
    /\ gen \in 0..MaxRefresh
    /\ live \in 0..MaxLive
    /\ lastIndex \in 0..Days
    /\ cache \in [Kinds -> SUBSET Dates]
    /\ pending \in [Kinds -> [Dates -> Nat]]
    /\ shown \in [Kinds -> Dates]
    /\ current \in Dates
    /\ spinner \in BOOLEAN

DateOf(index) == IF index = 0 THEN <<live, 0>> ELSE <<gen, index>>
Selected == DateOf(lastIndex)
NowDate == <<gen, 1>>

\* The dates made so far.
Made == {d \in Dates : d[1] <= (IF d[2] = 0 THEN live ELSE gen)}

Init ==
    /\ gen = 0
    /\ live = 0
    /\ lastIndex = 1
    /\ cache = [k \in Kinds |-> {}]
    /\ pending = [k \in Kinds |-> [d \in Dates |-> 0]]
    /\ shown = [k \in Kinds |-> NoDate]
    /\ current = NoDate
    /\ spinner = FALSE

-----------------------------------------------------------------------------
(* Requests: getWeatherInfo, getSeaStremSpeedData, getSeaData,               *)
(* getSeaWaterLevel differ in the url only.                                  *)

InFlight(k) == {d \in Dates : pending[k][d] > 0}
Room(kinds, date) ==
    \A k \in kinds : pending[k][date] < MaxSame /\ Cardinality(InFlight(k)) < MaxInFlight

Ask(kinds, date) ==
    pending' = [k \in Kinds |->
        IF k \in kinds THEN [pending[k] EXCEPT ![date] = @ + 1] ELSE pending[k]]

\* (mutant) the blocks of a request are called more than once
AnswerAgain(k, date) ==
    pending' = [pending EXCEPT ![k][date] = @ - 1]

Answer(k, date) ==
    /\ pending[k][date] > 0
    /\ pending' = [pending EXCEPT ![k][date] = @ - 1]

Keep(k, date) == cache' = [cache EXCEPT ![k] = @ \cup {date}]

\* cellForRowAtIndexPath when the dictionary of k has the dates known.  A row
\* without data is blank, but the water row returns the dequeued cell with
\* whatever it last displayed.
RowText(k, known) ==
    IF Selected \in known THEN {Selected} ELSE IF k = "water" THEN Made ELSE {NoDate}

-----------------------------------------------------------------------------
(* The user, the notifications.                                              *)

\* (mutant) a refresh on the live segment fetches today instead
RefreshAsksToday(pulled) ==
    /\ gen < MaxRefresh
    /\ pulled => ~spinner
    /\ LET lastDate == IF lastIndex = 0 THEN <<gen + 1, 1>> ELSE <<gen + 1, lastIndex>>
       IN  Room(Kinds, lastDate) /\ Ask(Kinds, lastDate)
    /\ gen' = gen + 1
    /\ cache' = [k \in Kinds |-> {}]
    /\ spinner' = (spinner \/ pulled)
    /\ UNCHANGED <<live, lastIndex, shown, current>>

\* startWeatherInfoRequest: the table was pulled, or page two or the return to
\* the foreground posted a notification.
StartWeatherInfoRequest(pulled) ==
    /\ gen < MaxRefresh
    /\ pulled => ~spinner
    /\ LET lastDate == IF lastIndex = 0 THEN <<live, 0>> ELSE <<gen + 1, lastIndex>>
       IN  Room(Kinds, lastDate) /\ Ask(Kinds, lastDate)
    /\ gen' = gen + 1
    /\ cache' = [k \in Kinds |-> {}]
    /\ spinner' = (spinner \/ pulled)
    /\ UNCHANGED <<live, lastIndex, shown, current>>

\* segmentedControlClick, segment 0: a live reading is fetched every time.
LiveClick ==
    /\ gen > 0 /\ lastIndex # 0 /\ live < MaxLive
    /\ lastIndex' = 0
    /\ live' = live + 1
    /\ Room(Kinds, <<live + 1, 0>>)
    /\ Ask(Kinds, <<live + 1, 0>>)
    /\ UNCHANGED <<gen, cache, shown, current, spinner>>

\* (mutant) the rows whose data is known are not reloaded
DayClickNoReload(index) ==
    /\ gen > 0 /\ lastIndex # index
    /\ LET date == DateOf(index)
           missing == {k \in Kinds : date \notin cache[k]}
       IN  Room(missing, date) /\ Ask(missing, date)
    /\ lastIndex' = index
    /\ UNCHANGED <<gen, live, cache, shown, current, spinner>>

\* segmentedControlClick, a day: what is known is shown, the rest is fetched.
DayClick(index) ==
    /\ gen > 0 /\ lastIndex # index
    /\ LET date == DateOf(index)
           missing == {k \in Kinds : date \notin cache[k]}
       IN  /\ Room(missing, date) /\ Ask(missing, date)
           /\ shown' = [k \in Kinds |-> IF k \in missing THEN shown[k] ELSE date]
    /\ lastIndex' = index
    /\ UNCHANGED <<gen, live, cache, current, spinner>>

\* The table asks for a cell again when it is scrolled.
RowAppears(k) ==
    /\ \E date \in RowText(k, cache[k]) : shown' = [shown EXCEPT ![k] = date]
    /\ UNCHANGED <<gen, live, lastIndex, cache, pending, current, spinner>>

-----------------------------------------------------------------------------
(* The answers.                                                              *)

\* (mutant) the menu is updated when the segment, not the date, is today's
WeatherBySegment(date) ==
    /\ Answer("weather", date)
    /\ Keep("weather", date)
    /\ shown' = [shown EXCEPT !["weather"] = date]
    /\ current' = IF date[2] = 1 THEN date ELSE current
    /\ spinner' = FALSE
    /\ UNCHANGED <<gen, live, lastIndex>>

\* (mutant) the menu is not updated while another segment is selected
WeatherForSelected(date) ==
    /\ Answer("weather", date)
    /\ Keep("weather", date)
    /\ shown' = [shown EXCEPT !["weather"] = date]
    /\ current' = IF date = NowDate /\ date = Selected THEN date ELSE current
    /\ spinner' = FALSE
    /\ UNCHANGED <<gen, live, lastIndex>>

\* getWeatherInfo with succ.  The labels and selectWeaInfoModel follow every
\* answer, the menu only the date that is today's when the answer arrives.
WeatherArrives(date) ==
    /\ Answer("weather", date)
    /\ Keep("weather", date)
    /\ shown' = [shown EXCEPT !["weather"] = date]
    /\ current' = IF date = NowDate THEN date ELSE current
    /\ spinner' = FALSE
    /\ UNCHANGED <<gen, live, lastIndex>>

\* getSeaStremSpeedData, getSeaData, getSeaWaterLevel with data: the row is
\* reloaded for the selected date, whatever date the answer is for.
RowArrives(k, date) ==
    /\ Answer(k, date)
    /\ Keep(k, date)
    /\ \E text \in RowText(k, cache[k] \cup {date}) : shown' = [shown EXCEPT ![k] = text]
    /\ UNCHANGED <<gen, live, lastIndex, current, spinner>>

\* (mutant) a failed weather request leaves mj_header refreshing
FailureKeepsSpinner(k, date) ==
    /\ Answer(k, date)
    /\ UNCHANGED <<gen, live, lastIndex, cache, shown, current, spinner>>

\* A failure, a code other than 0, an empty list of tides, or sea data that is
\* not a list: nothing is stored.
NothingArrives(k, date) ==
    /\ Answer(k, date)
    /\ spinner' = (spinner /\ k # "weather")
    /\ UNCHANGED <<gen, live, lastIndex, cache, shown, current>>

-----------------------------------------------------------------------------
Arrives ==
    \E date \in Dates :
        \/ WeatherArrives(date)
        \/ \E k \in Rows : RowArrives(k, date)
        \/ \E k \in Kinds : NothingArrives(k, date)

Next ==
    \/ \E pulled \in BOOLEAN : StartWeatherInfoRequest(pulled)
    \/ LiveClick
    \/ \E index \in 1..Days : DayClick(index)
    \/ \E k \in Rows : RowAppears(k)
    \/ Arrives

\* Every weather request is answered, if only by HttpClient's timeout.
Fairness ==
    \A date \in Dates : WF_vars(WeatherArrives(date) \/ NothingArrives("weather", date))

Spec == Init /\ [][Next]_vars /\ Fairness

-----------------------------------------------------------------------------
(* Properties.                                                               *)

\* Once a row's reading for the selected date is known the row shows it, and no
\* late answer for another segment or for an older refresh replaces it: the
\* three answer blocks reload for the selected date, not for their own.
RowsShowSelected ==
    \A k \in Rows : Selected \in cache[k] => shown[k] = Selected

\* When today's weather is known, the menu and page two have it, whatever
\* segment was selected when it arrived.
MenuFollowsToday ==
    NowDate \in cache["weather"] => current = NowDate

\* The menu never goes back to the weather of an older refresh, although
\* answers to older refreshes still arrive (the pointer test on nowDate).
MenuNeverGoesBack == [][current'[1] >= current[1]]_vars

\* What is selected is known or on its way: a reading of the selected date is
\* given up only by a failure of its own request, never by a tap, a refresh or
\* an answer for another date.
Asked(k) == Selected \in cache[k] \/ pending[k][Selected] > 0

OnlyFailureStarves ==
    [][\A k \in Kinds :
        Asked(k) /\ ~Asked(k)' =>
            Selected' = Selected /\ pending'[k][Selected] < pending[k][Selected]]_vars

\* The header of the first page is PullRefresh's: it turns only while some
\* weather request is under way, whatever the other three of the pull do, and it
\* is hidden in the end (getWeatherInfo ends it, with data and without).
Pull == INSTANCE PullRefresh WITH
    waiting <- InFlight("weather") # {},
    spinning <- spinner

ImplementsPull == Pull!Spec

\* FirstInfoView.m calls segment 0 the live data; once the live reading is on
\* screen it stays there until another segment is selected or it is renewed.
LiveReadingStays ==
    [][lastIndex = 0 /\ lastIndex' = 0 /\ shown["weather"] = Selected
        => shown'["weather"] = Selected]_vars
=============================================================================
