------------------------------ MODULE MainPage ------------------------------
(***************************************************************************)
(* MainViewController's three pages side by side: FirstInfo on the first,  *)
(* SecondInfoView (warnings) on the second, the map on the third, over one *)
(* background image.  The image follows the weather on the first page and  *)
(* is the starry sky on the second; it is set by scrolling at once and by  *)
(* refreshShowWeather in a block posted to the main queue, which reads the *)
(* scroll position and the model when it runs, not when it was posted.     *)
(*                                                                         *)
(* A pull on the second page posts refreshNowTempleture, which FirstInfo   *)
(* observes: every refresh of the second page is one of the first.         *)
(***************************************************************************)
EXTENDS FirstInfo

CONSTANT MaxQueue     \* bound on the posted blocks

\* Room for the two blocks of one answer.
ASSUME QueueAssumption == MaxQueue \in Nat \ {0, 1}

VARIABLES
    offset,      \* contentOffset.x: "first" (0), "towards" (the second page, not
                 \* reached), "second" (up to the third), "third"
    dip,         \* dipImageView: [image, date], the date of the weather shown
    queue,       \* blocks of refreshShowWeather posted and not run
    asked,       \* getYujingListInfo calls so far; they number their requests
    warnings,    \* warning requests under way
    statuses,    \* stream status requests under way
    list,        \* the request whose warnings the table shows (0: none)
    tip,         \* the request whose status the label shows (0: none)
    spinner2     \* the second page's mj_header is refreshing

backVars == <<offset, dip, queue>>
secondVars == <<asked, warnings, statuses, list, tip, spinner2>>
pageVars == <<vars, backVars, secondVars>>

Offsets == {"first", "towards", "second", "third"}
DefaultImage == [image |-> "default", date |-> NoDate]
Starry == [image |-> "starry", date |-> NoDate]

\* The image named by selectWeaInfoModel; there is none before the first answer.
WeatherImage(date) == [image |-> "weather", date |-> date]

PageTypeOK ==
    /\ TypeOK
    /\ offset \in Offsets
    /\ dip \in [image : {"default", "starry", "weather"}, date : Dates]
    /\ queue \in 0..MaxQueue
    /\ asked \in 0..MaxRefresh
    /\ warnings \subseteq 1..asked
    /\ statuses \subseteq 1..asked
    /\ list \in 0..asked
    /\ tip \in 0..asked
    /\ spinner2 \in BOOLEAN

\* viewDidLoad up to configureSecondViewUI.
PageInit ==
    /\ Init
    /\ offset = "first"
    /\ dip = DefaultImage
    /\ queue = 0
    /\ asked = 0
    /\ warnings = {}
    /\ statuses = {}
    /\ list = 0
    /\ tip = 0
    /\ spinner2 = FALSE

-----------------------------------------------------------------------------
(* The background.                                                           *)

\* refreshShowWeather posts a block, n times in a row.
Post(n) ==
    /\ queue + n <= MaxQueue
    /\ queue' = queue + n

\* (mutant) the block does not look at the scroll position
RunBlockAnywhere ==
    /\ queue > 0
    /\ queue' = queue - 1
    /\ dip' = WeatherImage(shown["weather"])
    /\ UNCHANGED <<vars, offset, secondVars>>

\* (mutant) a block runs that was not posted
RunBlockAtOnce ==
    /\ queue' = queue - 1
    /\ dip' = IF offset = "first" THEN WeatherImage(shown["weather"]) ELSE dip
    /\ UNCHANGED <<vars, offset, secondVars>>

\* The block runs.
RunBlock ==
    /\ queue > 0
    /\ queue' = queue - 1
    /\ dip' = IF offset = "first" THEN WeatherImage(shown["weather"]) ELSE dip
    /\ UNCHANGED <<vars, offset, secondVars>>

\* scrollViewDidScroll at position to; it also locks the scroll view on the
\* third page, so that Drag cannot leave it.
ScrollTo(to) ==
    /\ offset' = to
    /\ dip' = IF to = "second" THEN Starry ELSE WeatherImage(shown["weather"])
    /\ UNCHANGED <<vars, queue, secondVars>>

Drag ==
    \/ offset \in {"first", "towards"} /\ \E to \in {"first", "towards", "second"} : ScrollTo(to)
    \/ offset = "second" /\ \E to \in {"towards", "second", "third"} : ScrollTo(to)

\* ThirdInfoView's swipe or button, through ScrollerViewShouldMove.
ScrollViewShouldMove == offset = "third" /\ ScrollTo("second")

-----------------------------------------------------------------------------
(* The second page.                                                          *)

\* getYujingListInfo: today's weather, the warnings, the stream status.
GetYujingListInfo ==
    /\ StartWeatherInfoRequest(FALSE)
    /\ asked' = asked + 1
    /\ warnings' = warnings \cup {asked + 1}
    /\ statuses' = statuses \cup {asked + 1}
    /\ UNCHANGED <<offset, dip, queue, list, tip>>

\* startSecondInfoViewDataRequest, the end of viewDidLoad.
Load ==
    /\ gen = 0
    /\ GetYujingListInfo
    /\ UNCHANGED spinner2

PullSecond ==
    /\ offset = "second" /\ ~spinner2
    /\ GetYujingListInfo
    /\ spinner2' = TRUE

\* getYujingListInfo's blocks, with data and without.
WarningsArrive(n) ==
    /\ n \in warnings
    /\ warnings' = warnings \ {n}
    /\ list' = n
    /\ spinner2' = FALSE
    /\ UNCHANGED <<vars, offset, dip, queue, asked, statuses, tip>>

\* (mutant) the failure block does not end the refreshing
WarningsFailSilently(n) ==
    /\ n \in warnings
    /\ warnings' = warnings \ {n}
    /\ UNCHANGED <<vars, offset, dip, queue, asked, statuses, list, tip, spinner2>>

WarningsFail(n) ==
    /\ n \in warnings
    /\ warnings' = warnings \ {n}
    /\ spinner2' = FALSE
    /\ UNCHANGED <<vars, offset, dip, queue, asked, statuses, list, tip>>

\* getStreamStatusInfo's blocks: the status, a code other than 0, a failure.
StatusArrives(n) ==
    /\ n \in statuses
    /\ statuses' = statuses \ {n}
    /\ tip' \in {n, tip, 0}
    /\ UNCHANGED <<vars, offset, dip, queue, asked, warnings, list, spinner2>>

-----------------------------------------------------------------------------
(* The first page.                                                           *)

\* Pulled, or back in the foreground.
RefreshFirst ==
    /\ gen > 0
    /\ \/ StartWeatherInfoRequest(FALSE)
       \/ offset = "first" /\ StartWeatherInfoRequest(TRUE)
    /\ UNCHANGED <<backVars, secondVars>>

\* segmentedControlClick calls firstViewSegmentedControlClick before anything.
SegmentClick ==
    /\ offset = "first"
    /\ LiveClick \/ \E index \in 1..Days : DayClick(index)
    /\ Post(1)
    /\ UNCHANGED <<offset, dip, secondVars>>

\* (mutant) only today's weather is announced
AnnounceTodayOnly(date) == IF date = NowDate THEN Post(1) ELSE queue' = queue

\* getWeatherInfo posts the image notification, and for today's weather a second.
Announce(date) == IF date = NowDate THEN Post(2) ELSE Post(1)

\* getWeatherInfo with succ, on the page.
WeatherAnnounced(date) ==
    /\ WeatherArrives(date)
    /\ Announce(date)
    /\ UNCHANGED <<offset, dip, secondVars>>

WeatherFails(date) ==
    /\ NothingArrives("weather", date)
    /\ UNCHANGED <<backVars, secondVars>>

\* The other readings are the first page's own affair.
RowStep ==
    /\ \E k \in Rows :
        \/ RowAppears(k)
        \/ \E date \in Dates : RowArrives(k, date) \/ NothingArrives(k, date)
    /\ UNCHANGED <<backVars, secondVars>>

-----------------------------------------------------------------------------
WarningsAnswered(n) == WarningsArrive(n) \/ WarningsFail(n)
WeatherAnswered(date) == WeatherAnnounced(date) \/ WeatherFails(date)

PageNext ==
    \/ RunBlock
    \/ Drag
    \/ ScrollViewShouldMove
    \/ Load
    \/ PullSecond
    \/ RefreshFirst
    \/ SegmentClick
    \/ \E date \in Dates : WeatherAnswered(date)
    \/ RowStep
    \/ \E n \in 1..MaxRefresh : WarningsAnswered(n) \/ StatusArrives(n)

\* The main queue runs its blocks and every warning request is answered, if only
\* by HttpClient's timeout.
PageFairness ==
    /\ WF_pageVars(RunBlock)
    /\ \A n \in 1..MaxRefresh : WF_pageVars(WarningsAnswered(n))

PageSpec == PageInit /\ [][PageNext]_pageVars /\ PageFairness

-----------------------------------------------------------------------------
(* Properties.                                                               *)

\* When no block is waiting, the first page has the picture of the weather it
\* shows, and the second always has its own, however scrolling, taps and answers
\* interleaved with the blocks (refreshShowWeather, scrollViewDidScroll).
BackgroundMatches ==
    /\ offset = "second" => dip = Starry
    /\ offset = "first" /\ queue = 0 /\ shown["weather"] # NoDate
        => dip = WeatherImage(shown["weather"])

\* The user who stays on the first page gets the picture of the weather shown.
BackgroundCatchesUp ==
    offset = "first" /\ shown["weather"] # NoDate
        ~> offset # "first" \/ dip = WeatherImage(shown["weather"])

\* The header of the second page is PullRefresh's, of the warnings alone: the
\* other two requests of a pull leave it turning, and it is hidden in the end
\* (getYujingListInfo).
SecondPull == INSTANCE PullRefresh WITH
    waiting <- warnings # {},
    spinning <- spinner2

SecondImplementsPull == SecondPull!Spec

\* SecondInfoView.m says that a pull on the second page refreshes the current
\* weather: today's weather, which that page shows, is requested.
PullRefreshesCurrentWeather ==
    [][asked' # asked => pending'["weather"][NowDate'] > 0]_pageVars
=============================================================================
