------------------------------ MODULE Calendar ------------------------------
(***************************************************************************)
(* CalendarDataViewController: the tides of one month, paged by the month  *)
(* with two arrows and a "today" item.  currentDate is the page's month;   *)
(* every change of it sends a request, and the answers of different months *)
(* fill the same grid in the order they come.  All the arithmetic is done  *)
(* against a clock that goes on: the arrows compare currentDate with the   *)
(* moment they are tapped, the grid marks today's cell when it draws.      *)
(*                                                                         *)
(* A moment is a month (0 is January 2019, where the code's left limit     *)
(* is), a day and an hour; hour 0 is the midnight a parsed date stands at. *)
(* The device is taken to be in China's time zone, as the parser is.       *)
(*                                                                         *)
(* A day that is tapped is shown in a view over the whole window, which    *)
(* takes every touch until it is tapped away; answers come meanwhile.      *)
(***************************************************************************)
EXTENDS Integers, SequencesExt

CONSTANTS
    Start,       \* the moments at which the page may be opened
    Hours,       \* hours of a day the clock may show
    MaxNights,   \* bound on the midnights the page is kept open over
    Reach,       \* months the right arrow goes, as the code counts (10)
    LastMonth,   \* bound on the months paged to
    MaxPending   \* bound on the requests under way

Moments == [month : Nat, day : 1..31, hour : Nat]

ASSUME CalendarAssumption ==
    /\ Start \subseteq [month : Nat, day : 1..31, hour : Hours]
    /\ Hours \subseteq Nat \ {0}
    /\ {MaxNights, Reach, LastMonth} \subseteq Nat
    /\ MaxPending \in Nat \ {0}

VARIABLES
    now,          \* the clock
    nights,       \* midnights passed since the page was opened
    currentDate,  \* the page's date; the title is its month
    pending,      \* requests under way, in the order sent: [month, newest]
    grid,         \* the answer on screen: [month, newest]
    marked,       \* <<month, day>> of the cell drawn as today's, or NoDay
    refreshing,   \* mj_header
    alertView     \* the view with a day's tides is over the window

vars == <<now, nights, currentDate, pending, grid, marked, refreshing, alertView>>

Requests == [month : Nat, newest : BOOLEAN]
NoDay == <<>>
NoGrid == [month |-> -1, newest |-> FALSE]

TypeOK ==
    /\ now \in Moments
    /\ nights \in 0..MaxNights
    /\ currentDate \in Moments
    /\ pending \in Seq(Requests)
    /\ grid \in Requests \cup {NoGrid}
    /\ marked \in (Nat \X (1..31)) \cup {NoDay}
    /\ refreshing \in BOOLEAN
    /\ alertView \in BOOLEAN

-----------------------------------------------------------------------------
(* NSCalendar.                                                               *)

LeapYear(month) == (2019 + month \div 12) % 4 = 0

MonthLength(month) ==
    LET m == month % 12
    IN  IF m = 1 THEN (IF LeapYear(month) THEN 29 ELSE 28)
        ELSE IF m \in {3, 5, 8, 10} THEN 30 ELSE 31

\* A page is opened on a day that exists.
ASSUME StartAssumption == \A s \in Start : s.day <= MonthLength(s.month)

\* dateByAddingComponents: the day is clamped to the month reached.
PlusMonths(d, k) ==
    LET last == MonthLength(d.month + k)
    IN  [d EXCEPT !.month = @ + k, !.day = IF @ > last THEN last ELSE @]

Before(a, b) ==
    \/ a.month < b.month
    \/ a.month = b.month /\ a.day < b.day
    \/ a.month = b.month /\ a.day = b.day /\ a.hour < b.hour

\* components:NSCalendarUnitMonth from now to d gives k.  Within the same hour
\* the clock is past d, if only by an instant: d was set by an earlier tap.
MonthsAhead(d, k) ==
    Before(PlusMonths(now, k), d) /\ ~Before(PlusMonths(now, k + 1), d)

FirstOf(month) == [month |-> month, day |-> 1, hour |-> 0]

-----------------------------------------------------------------------------
(* Requests.  When one is sent, the others stop being the newest.            *)

Older(r) == [r EXCEPT !.newest = FALSE]

GetDataWithDate(date) ==
    /\ Len(pending) < MaxPending
    /\ pending' = Append([i \in DOMAIN pending |-> Older(pending[i])],
                         [month |-> date.month, newest |-> TRUE])
    /\ grid' = Older(grid)

\* (mutant) the page is changed and nothing is requested
SetOnly(date) ==
    /\ currentDate' = date
    /\ UNCHANGED <<pending, grid>>

\* currentDate, the title and the request change together.
Show(date) ==
    /\ currentDate' = date
    /\ GetDataWithDate(date)

\* The cells cellForItem may draw as today's, given the grid's month and the
\* clock: the one whose day is currentDate's, when the page is this month's.
\* Whether a month comes with the days around it is the server's business.
Today == <<now.month, now.day>>
DrawnToday(month) ==
    LET day == <<currentDate.month, currentDate.day>>
    IN  IF currentDate.month # now.month THEN {NoDay}
        ELSE IF month = currentDate.month THEN {day}
        ELSE IF month \in {currentDate.month - 1, currentDate.month + 1} THEN {day, NoDay}
        ELSE {NoDay}

-----------------------------------------------------------------------------
(* configureUI: the page opens on this month, with its request under way.    *)

Init ==
    /\ now \in Start
    /\ nights = 0
    /\ currentDate = now
    /\ pending = <<[month |-> now.month, newest |-> TRUE]>>
    /\ grid = NoGrid
    /\ marked = NoDay
    /\ refreshing = TRUE
    /\ alertView = FALSE

\* The clock: later today, or some hour of tomorrow.
LaterToday ==
    /\ \E h \in Hours : h > now.hour /\ now' = [now EXCEPT !.hour = h]
    /\ UNCHANGED <<nights, currentDate, pending, grid, marked, refreshing, alertView>>

Midnight ==
    /\ nights < MaxNights
    /\ nights' = nights + 1
    /\ \E h \in Hours :
        now' = IF now.day < MonthLength(now.month)
               THEN [now EXCEPT !.day = @ + 1, !.hour = h]
               ELSE [month |-> now.month + 1, day |-> 1, hour |-> h]
    /\ UNCHANGED <<currentDate, pending, grid, marked, refreshing, alertView>>

-----------------------------------------------------------------------------
(* The user.                                                                 *)

\* rightItemClick: nothing when the title is this month's.
RightItemClick ==
    /\ ~alertView
    /\ currentDate.month # now.month
    /\ Show(now)
    /\ UNCHANGED <<now, nights, marked, refreshing, alertView>>

\* (mutant) the left limit is this month, as in the line commented out
LeftToThisMonth ==
    /\ ~alertView
    /\ currentDate.month # now.month
    /\ LET month == currentDate.month - 1
           date == IF month = now.month THEN now ELSE FirstOf(month)
       IN  Show(date)
    /\ UNCHANGED <<now, nights, marked, refreshing, alertView>>

\* (mutant) another month is shown as of the same day
LeftKeepsDay ==
    /\ ~alertView
    /\ currentDate.month # 0
    /\ LET month == currentDate.month - 1
           date == IF month = now.month THEN now ELSE PlusMonths(currentDate, -1)
       IN  Show(date)
    /\ UNCHANGED <<now, nights, marked, refreshing, alertView>>

\* leftButtonClick: down to January 2019; this month is shown as of now, any
\* other as of its first day.
LeftButtonClick ==
    /\ ~alertView
    /\ currentDate.month # 0
    /\ LET month == currentDate.month - 1
           date == IF month = now.month THEN now ELSE FirstOf(month)
       IN  Show(date)
    /\ UNCHANGED <<now, nights, marked, refreshing, alertView>>

\* (mutant) the limit is one month further
RightOneMore ==
    /\ ~alertView
    /\ ~MonthsAhead(currentDate, Reach + 1)
    /\ currentDate.month < LastMonth
    /\ Show(PlusMonths(currentDate, 1))
    /\ UNCHANGED <<now, nights, marked, refreshing, alertView>>

\* rightButtonClick: up to the month that is Reach whole months ahead of now.
RightButtonClick ==
    /\ ~alertView
    /\ ~MonthsAhead(currentDate, Reach)
    /\ currentDate.month < LastMonth
    /\ Show(PlusMonths(currentDate, 1))
    /\ UNCHANGED <<now, nights, marked, refreshing, alertView>>

\* The pull.
PullDown ==
    /\ ~alertView
    /\ ~refreshing
    /\ refreshing' = TRUE
    /\ GetDataWithDate(currentDate)
    /\ UNCHANGED <<now, nights, currentDate, marked, alertView>>

\* A cell scrolled into view is drawn with the date and the clock of that moment.
ScrollGrid ==
    /\ ~alertView
    /\ grid # NoGrid
    /\ marked' \in DrawnToday(grid.month)
    /\ UNCHANGED <<now, nights, currentDate, pending, grid, refreshing, alertView>>

\* didSelectItem and configureAlertView: the alert is filled from the grid on
\* screen and keeps what it was filled with.
TapDay ==
    /\ ~alertView /\ grid # NoGrid
    /\ alertView' = TRUE
    /\ UNCHANGED <<now, nights, currentDate, pending, grid, marked, refreshing>>

HiddenAlertView ==
    /\ alertView
    /\ alertView' = FALSE
    /\ UNCHANGED <<now, nights, currentDate, pending, grid, marked, refreshing>>

-----------------------------------------------------------------------------
(* The answers.                                                              *)

DataArrives(i) ==
    /\ pending' = RemoveAt(pending, i)
    /\ grid' = pending[i]
    /\ marked' \in DrawnToday(pending[i].month)
    /\ refreshing' = FALSE
    /\ UNCHANGED <<now, nights, currentDate, alertView>>

\* (mutant) the failure block does not end the refreshing
DataFailsSilently(i) ==
    /\ pending' = RemoveAt(pending, i)
    /\ UNCHANGED <<now, nights, currentDate, grid, marked, refreshing, alertView>>

DataFails(i) ==
    /\ pending' = RemoveAt(pending, i)
    /\ refreshing' = FALSE
    /\ UNCHANGED <<now, nights, currentDate, grid, marked, alertView>>

Answered(i) == DataArrives(i) \/ DataFails(i)

Next ==
    \/ LaterToday \/ Midnight
    \/ RightItemClick \/ LeftButtonClick \/ RightButtonClick
    \/ PullDown \/ ScrollGrid
    \/ TapDay \/ HiddenAlertView
    \/ \E i \in 1..Len(pending) : Answered(i)

\* Every request is answered, if only by HttpClient's timeout.
Fairness == WF_vars(\E i \in 1..Len(pending) : Answered(i))

Spec == Init /\ [][Next]_vars /\ Fairness

-----------------------------------------------------------------------------
(* Properties.                                                               *)

\* A wrong month under the title is only ever the work of an older request:
\* what the newest request brings, or will bring, is the title's month, through
\* taps, pulls and answers in any order (getDataWithDate after every change).
NewestIsTitle ==
    /\ \A i \in 1..Len(pending) : pending[i].newest => pending[i].month = currentDate.month
    /\ grid.newest => grid.month = currentDate.month

\* The right arrow stops one month after the Reach whole months it counts,
\* because the clock is past the moment the page was set to.  That is sure for a
\* page opened today, or earlier this month and before the 28th; another may
\* count from a day some month does not have, and as the arrow only stops at
\* exactly Reach, clamping the day can step over it.
RightLimit ==
    nights = 0 \/ now.day \in (nights + 1)..27
        => currentDate.month <= now.month + Reach + 1

\* A cell marked wrongly is the first of the month, where the arrows leave
\* currentDate, or a day since the page was opened: no other day of the month is
\* ever drawn as today's, however the arrows clamped the day on their way
\* (leftButtonClick, rightButtonClick, cellForItem).  That is while the month of
\* the opening lasts; a mark is not taken back when the month changes.
Recent(day) == day = 1 \/ day \in (now.day - nights)..now.day

MarkIsRecent ==
    now.day > nights /\ marked # NoDay => marked[1] = now.month /\ Recent(marked[2])

\* The header is PullRefresh's, turning from the start: it never turns with no
\* request under way and is hidden in the end, with data and without
\* (getDataWithDate).
Pull == INSTANCE PullRefresh WITH
    waiting <- pending # <<>>,
    spinning <- refreshing

ImplementsPull == Pull!Spec

\* The comment in cellForItem says that the cell marked is today's.
MarksToday == [][marked' # marked /\ marked' # NoDay => marked' = Today]_vars
=============================================================================
