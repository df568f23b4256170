--------------------------- MODULE MainPageProofs ---------------------------
(***************************************************************************)
(* MainPage, for every set of rows, every number of segments and every     *)
(* bound.  The first page inside the main page takes steps of FirstInfo    *)
(* only, so that what is proved of FirstInfo holds beside the other pages; *)
(* the background and the second page have invariants of their own.        *)
(***************************************************************************)
EXTENDS MainPage, FirstInfoProofs

\* Every refresh of the second page was one of the first: without this the number
\* of its requests could pass the bound on refreshes.
RefreshedTogether == asked <= gen

PageIInv ==
    /\ IInv
    /\ PageTypeOK
    /\ RefreshedTogether
    /\ BackgroundMatches

-----------------------------------------------------------------------------
(* The first page inside the main page.                                      *)

\* Whatever the main page does, its first page takes a step of FirstInfo or none.
LEMMA PageStepsFirst ==
    ASSUME [PageNext]_pageVars
    PROVE  [Next]_vars
<1>1. ASSUME NEW pulled \in BOOLEAN, StartWeatherInfoRequest(pulled) PROVE Next
  BY <1>1 DEF Next
<1>2. CASE RunBlock \/ Drag \/ ScrollViewShouldMove
  <2>1. UNCHANGED vars
    BY <1>2 DEF RunBlock, Drag, ScrollViewShouldMove, ScrollTo
  <2>2. QED
    BY <2>1
<1>3. CASE Load \/ PullSecond \/ RefreshFirst
  <2>1. \E pulled \in BOOLEAN : StartWeatherInfoRequest(pulled)
    BY <1>3 DEF Load, PullSecond, RefreshFirst, GetYujingListInfo
  <2>2. QED
    BY <1>1, <2>1
<1>4. CASE SegmentClick
  BY <1>4 DEF SegmentClick, Next
<1>5. ASSUME NEW date \in Dates, WeatherAnswered(date) PROVE Next
  <2>1. WeatherArrives(date) \/ NothingArrives("weather", date)
    BY <1>5 DEF WeatherAnswered, WeatherAnnounced, WeatherFails
  <2>2. "weather" \in Kinds
    BY DEF Kinds
  <2>3. QED
    BY <2>1, <2>2 DEF Next, Arrives
<1>6. CASE RowStep
  <2>1. PICK k \in Rows :
          RowAppears(k) \/ \E date \in Dates : RowArrives(k, date) \/ NothingArrives(k, date)
    BY <1>6 DEF RowStep
  <2>2. k \in Kinds
    BY DEF Kinds
  <2>3. QED
    BY <2>1, <2>2 DEF Next, Arrives
<1>7. ASSUME NEW n, WarningsAnswered(n) \/ StatusArrives(n) PROVE UNCHANGED vars
  BY <1>7 DEF WarningsAnswered, WarningsArrive, WarningsFail, StatusArrives
<1>8. CASE UNCHANGED pageVars
  BY <1>8 DEF pageVars
<1>9. QED
  BY <1>2, <1>3, <1>4, <1>5, <1>6, <1>7, <1>8 DEF PageNext

\* MainViewController's first page is FirstInfo: pulls on the second page, scrolling,
\* warnings and the background add nothing to what it may do.
THEOREM FirstPageIsFirstInfo == PageSpec => Init /\ [][Next]_vars
<1>1. PageInit => Init
  BY DEF PageInit
<1>2. [PageNext]_pageVars => [Next]_vars
  BY PageStepsFirst
<1>3. QED
  BY <1>1, <1>2, PTL DEF PageSpec

\* FirstInfo's invariant holds beside the other pages.
LEMMA FirstPageInvariance == PageSpec => []IInv
<1>1. Init => IInv
  BY InitIInv
<1>2. IInv /\ [Next]_vars => IInv'
  BY NextIInv
<1>3. QED
  BY <1>1, <1>2, FirstPageIsFirstInfo, PTL

\* The rows of the first page show the selected segment's readings also when the
\* refreshes come from the second page.
THEOREM RowsShowSelectedOnPage == PageSpec => []RowsShowSelected
<1>1. IInv => RowsShowSelected
  BY DEF IInv
<1>2. QED
  BY <1>1, FirstPageInvariance, PTL

\* The menu and the second page have today's weather when it is known, and never
\* go back to an older refresh's, whichever page was refreshed.
THEOREM MenuOnPage == PageSpec => []MenuFollowsToday /\ MenuNeverGoesBack
<1>1. IInv => MenuFollowsToday
  BY DEF IInv
<1>2. IInv /\ [Next]_vars => [current'[1] >= current[1]]_vars
  BY NextIInv
<1>3. QED
  BY <1>1, <1>2, FirstPageIsFirstInfo, FirstPageInvariance, PTL DEF MenuNeverGoesBack

\* A pull on the second page never makes the first give up what is selected there.
THEOREM OnlyFailureStarvesOnPage == PageSpec => OnlyFailureStarves
<1>1. IInv /\ [Next]_vars => [GivenUpByFailure]_vars
  BY NextIInv
<1>2. QED
  BY <1>1, FirstPageIsFirstInfo, FirstPageInvariance, PTL
  DEF OnlyFailureStarves, GivenUpByFailure

\* The header of the first page keeps to PullRefresh although the second page
\* starts its requests too.
THEOREM FirstHeaderOnPage == PageSpec => Pull!Safety
<1>1. Init => Pull!Init
  BY InitPulls
<1>2. IInv /\ [Next]_vars => [Pull!Next]_(Pull!pullVars)
  BY StepPulls
<1>3. QED
  BY <1>1, <1>2, FirstPageIsFirstInfo, FirstPageInvariance, PTL DEF Pull!Safety

-----------------------------------------------------------------------------
(* The background and the second page.                                       *)

Pictures == [image : {"default", "starry", "weather"}, date : Dates]

\* The pictures the page computes with are pictures of the model.
LEMMA PicturesTyped ==
    ASSUME TypeOK
    PROVE  /\ DefaultImage \in Pictures
           /\ Starry \in Pictures
           /\ WeatherImage(shown["weather"]) \in Pictures
<1>1. NoDate \in Dates /\ shown["weather"] \in Dates
  BY DatesTyped DEF TypeOK, Kinds
<1>2. QED
  BY <1>1 DEF Pictures, DefaultImage, Starry, WeatherImage

\* The types of what the second page keeps.
SecondTypeOK ==
    /\ asked \in 0..MaxRefresh
    /\ warnings \subseteq 1..asked
    /\ statuses \subseteq 1..asked
    /\ list \in 0..asked
    /\ tip \in 0..asked
    /\ spinner2 \in BOOLEAN

\* The types of the background.
BackTypeOK ==
    /\ offset \in Offsets
    /\ dip \in Pictures
    /\ queue \in 0..MaxQueue

\* What the pages beside the first add to the invariant.
BesideFirst == BackTypeOK /\ SecondTypeOK /\ RefreshedTogether /\ BackgroundMatches

LEMMA PageTypes == PageTypeOK <=> TypeOK /\ BackTypeOK /\ SecondTypeOK
  BY Zenon DEF PageTypeOK, BackTypeOK, SecondTypeOK, Pictures

\* A step that leaves the second page alone keeps its part of the invariant:
\* refreshes of the first page are never taken back.
LEMMA SecondUntouched ==
    ASSUME TypeOK, SecondTypeOK, RefreshedTogether, [Next]_vars, UNCHANGED secondVars
    PROVE  SecondTypeOK' /\ RefreshedTogether'
<1>1. gen' \in {gen, gen + 1}
  BY DEF Next, vars, StartWeatherInfoRequest, LiveClick, DayClick, RowAppears, Arrives,
         WeatherArrives, RowArrives, NothingArrives
<1>2. gen \in Nat /\ asked \in Nat
  BY BoundAssumption DEF TypeOK, SecondTypeOK
<1>3. RefreshedTogether'
  BY <1>1, <1>2 DEF RefreshedTogether, secondVars
<1>4. SecondTypeOK'
  BY Zenon DEF SecondTypeOK, secondVars
<1>5. QED
  BY <1>3, <1>4

\* A step that leaves the picture, the page, the posted blocks and the weather
\* alone leaves the background right.
LEMMA BackUntouched ==
    ASSUME BackTypeOK, BackgroundMatches, UNCHANGED backVars,
           shown'["weather"] = shown["weather"]
    PROVE  BackTypeOK' /\ BackgroundMatches'
  BY DEF BackTypeOK, BackgroundMatches, backVars, WeatherImage

\* A step that posts a block owes the first page a picture, nothing else.
LEMMA Posted ==
    ASSUME BackTypeOK, BackgroundMatches, NEW n \in Nat \ {0}, Post(n),
           UNCHANGED <<offset, dip>>
    PROVE  BackTypeOK' /\ BackgroundMatches'
<1>1. queue' \in 0..MaxQueue /\ queue' # 0
  BY QueueAssumption DEF BackTypeOK, Post
<1>2. QED
  BY <1>1 DEF BackTypeOK, BackgroundMatches

\* The inductive invariant holds initially.
LEMMA InitPageIInv == PageInit => PageIInv
<1> SUFFICES ASSUME PageInit PROVE PageIInv
  OBVIOUS
<1>1. IInv /\ TypeOK /\ gen = 0 /\ shown["weather"] = NoDate
  BY InitIInv DEF PageInit, IInv, Init, Kinds
<1>2. BackTypeOK
  BY <1>1, PicturesTyped, QueueAssumption DEF PageInit, BackTypeOK, Offsets
<1>3. SecondTypeOK
  <2>1. 0 \in 0..MaxRefresh /\ 0 \in 0..0
    BY BoundAssumption
  <2>2. QED
    BY <2>1, Zenon DEF PageInit, SecondTypeOK
<1>4. RefreshedTogether /\ BackgroundMatches
  BY <1>1 DEF PageInit, RefreshedTogether, BackgroundMatches
<1>5. QED
  BY <1>1, <1>2, <1>3, <1>4, PageTypes DEF PageIInv

\* A request for warnings is numbered by the next of the refreshes.
LEMMA AskSecond ==
    ASSUME TypeOK, BackTypeOK, SecondTypeOK, RefreshedTogether, BackgroundMatches,
           GetYujingListInfo, spinner2' \in BOOLEAN
    PROVE  BackTypeOK' /\ SecondTypeOK' /\ RefreshedTogether' /\ BackgroundMatches'
<1>1. /\ gen < MaxRefresh /\ gen' = gen + 1
      /\ asked' = asked + 1
      /\ warnings' = warnings \cup {asked + 1}
      /\ statuses' = statuses \cup {asked + 1}
      /\ UNCHANGED <<offset, dip, queue, list, tip, shown>>
  BY DEF GetYujingListInfo, StartWeatherInfoRequest
<1>2. /\ gen \in Nat /\ asked \in Nat /\ asked <= gen /\ MaxRefresh \in Nat
      /\ warnings \subseteq 1..asked /\ statuses \subseteq 1..asked
      /\ list \in 0..asked /\ tip \in 0..asked
  BY BoundAssumption DEF TypeOK, SecondTypeOK, RefreshedTogether
<1>3. asked' \in 0..MaxRefresh /\ asked' <= gen'
  BY <1>1, <1>2
<1>4. warnings' \subseteq 1..asked' /\ statuses' \subseteq 1..asked'
  BY <1>1, <1>2
<1>5. list' \in 0..asked' /\ tip' \in 0..asked'
  BY <1>1, <1>2
<1>6. SecondTypeOK' /\ RefreshedTogether'
  BY <1>3, <1>4, <1>5 DEF SecondTypeOK, RefreshedTogether
<1>7. QED
  BY <1>1, <1>6, BackUntouched DEF backVars

\* The answers of the second page.
LEMMA AnswerSecond ==
    ASSUME SecondTypeOK, RefreshedTogether, NEW n, WarningsAnswered(n) \/ StatusArrives(n)
    PROVE  SecondTypeOK' /\ RefreshedTogether' /\ UNCHANGED <<vars, backVars>>
<1>1. /\ UNCHANGED <<vars, backVars, asked>>
      /\ warnings' \subseteq warnings /\ statuses' \subseteq statuses
      /\ n \in warnings \cup statuses
      /\ list' \in {list, n} /\ tip' \in {tip, n, 0}
      /\ spinner2' \in {spinner2, FALSE}
  BY DEF WarningsAnswered, WarningsArrive, WarningsFail, StatusArrives, backVars
<1>2. n \in 0..asked /\ 0 \in 0..asked
  BY <1>1 DEF SecondTypeOK
<1>3. asked' \in 0..MaxRefresh /\ list' \in 0..asked' /\ tip' \in 0..asked'
  BY <1>1, <1>2 DEF SecondTypeOK
<1>4. SecondTypeOK'
  BY <1>1, <1>3 DEF SecondTypeOK
<1>5. QED
  BY <1>1, <1>4 DEF RefreshedTogether, vars

\* Every step keeps the inductive invariant.
LEMMA NextPageIInv == PageIInv /\ [PageNext]_pageVars => PageIInv'
<1> SUFFICES ASSUME PageIInv, [PageNext]_pageVars PROVE PageIInv'
  OBVIOUS
<1>1. [Next]_vars
  BY PageStepsFirst
<1>2. IInv /\ TypeOK /\ BackTypeOK /\ SecondTypeOK /\ RefreshedTogether /\ BackgroundMatches
  BY PageTypes DEF PageIInv
<1>3. IInv' /\ TypeOK'
  <2>1. IInv'
    BY <1>1, <1>2, NextIInv
  <2>2. QED
    BY <2>1 DEF IInv
<1>a. SUFFICES BesideFirst'
  BY <1>3, Zenon
  DEF PageIInv, BesideFirst, PageTypeOK, BackTypeOK, SecondTypeOK, Pictures
<1> USE DEF BesideFirst
<1>4. CASE RunBlock
  <2>1. BackTypeOK'
    <3>1. queue' \in 0..MaxQueue
      BY <1>2, <1>4, QueueAssumption DEF RunBlock, BackTypeOK
    <3>2. offset' \in Offsets /\ dip' \in Pictures
      BY <1>2, <1>4, PicturesTyped DEF RunBlock, BackTypeOK
    <3>3. QED
      BY <3>1, <3>2 DEF BackTypeOK
  <2>2. BackgroundMatches'
    BY <1>2, <1>4 DEF RunBlock, BackgroundMatches, vars, WeatherImage
  <2>3. QED
    BY <1>1, <1>2, <1>4, <2>1, <2>2, SecondUntouched DEF RunBlock
<1>5. ASSUME NEW to \in Offsets, ScrollTo(to) PROVE BesideFirst'
  <2>1. BackTypeOK'
    BY <1>2, <1>5, PicturesTyped DEF ScrollTo, BackTypeOK
  <2>2. BackgroundMatches'
    BY <1>5 DEF ScrollTo, BackgroundMatches, vars, WeatherImage
  <2>3. QED
    BY <1>1, <1>2, <1>5, <2>1, <2>2, SecondUntouched DEF ScrollTo
<1>6. CASE Drag \/ ScrollViewShouldMove
  BY <1>5, <1>6 DEF Drag, ScrollViewShouldMove, Offsets
<1>7. CASE Load \/ PullSecond
  <2>1. GetYujingListInfo /\ spinner2' \in BOOLEAN
    BY <1>2, <1>7 DEF Load, PullSecond, SecondTypeOK
  <2>2. QED
    BY <1>2, <2>1, AskSecond
<1>8. CASE RefreshFirst
  <2>1. shown' = shown /\ UNCHANGED <<backVars, secondVars>>
    BY <1>8 DEF RefreshFirst, StartWeatherInfoRequest
  <2>2. QED
    BY <1>1, <1>2, <2>1, BackUntouched, SecondUntouched
<1>9. CASE SegmentClick
  <2>1. Post(1) /\ UNCHANGED <<offset, dip, secondVars>>
    BY <1>9 DEF SegmentClick
  <2>2. QED
    BY <1>1, <1>2, <2>1, Posted, SecondUntouched
<1>10. ASSUME NEW date \in Dates, WeatherAnnounced(date) PROVE BesideFirst'
  <2>1. (Post(1) \/ Post(2)) /\ UNCHANGED <<offset, dip, secondVars>>
    BY <1>10 DEF WeatherAnnounced, Announce
  <2>2. QED
    BY <1>1, <1>2, <2>1, Posted, SecondUntouched
<1>11. ASSUME NEW date \in Dates, WeatherFails(date) PROVE BesideFirst'
  <2>1. shown' = shown /\ UNCHANGED <<backVars, secondVars>>
    BY <1>11 DEF WeatherFails, NothingArrives
  <2>2. QED
    BY <1>1, <1>2, <2>1, BackUntouched, SecondUntouched
<1>12. CASE RowStep
  <2>1. PICK k \in Rows :
          RowAppears(k) \/ \E date \in Dates : RowArrives(k, date) \/ NothingArrives(k, date)
    BY <1>12 DEF RowStep
  <2>2. k # "weather"
    BY RowsAssumption
  <2>3. shown'["weather"] = shown["weather"]
    BY <1>2, <2>1, <2>2 DEF RowAppears, RowArrives, NothingArrives, TypeOK, Kinds
  <2>4. UNCHANGED <<backVars, secondVars>>
    BY <1>12 DEF RowStep
  <2>5. QED
    BY <1>1, <1>2, <2>3, <2>4, BackUntouched, SecondUntouched
<1>13. ASSUME NEW n, WarningsAnswered(n) \/ StatusArrives(n) PROVE BesideFirst'
  <2>1. SecondTypeOK' /\ RefreshedTogether' /\ UNCHANGED <<vars, backVars>>
    BY <1>2, <1>13, AnswerSecond
  <2>2. shown' = shown
    BY <2>1 DEF vars
  <2>3. QED
    BY <1>2, <2>1, <2>2, BackUntouched
<1>14. CASE UNCHANGED pageVars
  <2>1. shown' = shown /\ UNCHANGED <<backVars, secondVars>>
    BY <1>14 DEF pageVars, vars
  <2>2. QED
    BY <1>1, <1>2, <2>1, BackUntouched, SecondUntouched
<1>15. QED
  BY <1>4, <1>6, <1>7, <1>8, <1>9, <1>10, <1>11, <1>12, <1>13, <1>14
  DEF PageNext, WeatherAnswered

\* The inductive invariant holds in every reachable state.
LEMMA PageInvariance == PageSpec => []PageIInv
<1>1. PageInit => PageIInv
  BY InitPageIInv
<1>2. PageIInv /\ [PageNext]_pageVars => PageIInv'
  BY NextPageIInv
<1>3. QED
  BY <1>1, <1>2, PTL DEF PageSpec

\* The variables keep their types; the warnings and the status on screen are
\* answers to requests that were made.
THEOREM PageTypeCorrect == PageSpec => []PageTypeOK
<1>1. PageIInv => PageTypeOK
  BY DEF PageIInv
<1>2. QED
  BY <1>1, PageInvariance, PTL

\* refreshShowWeather, scrollViewDidScroll and the places that post: when no
\* block waits, the picture behind the first page is that of the weather shown.
THEOREM BackgroundMatchesAlways == PageSpec => []BackgroundMatches
<1>1. PageIInv => BackgroundMatches
  BY DEF PageIInv
<1>2. QED
  BY <1>1, PageInvariance, PTL

-----------------------------------------------------------------------------
(* The header of the second page: no invariant is needed.                     *)

LEMMA InitSecondPulls == PageInit => SecondPull!Init
<1> SUFFICES ASSUME PageInit PROVE SecondPull!Init
  OBVIOUS
<1>1. warnings = {} /\ spinner2 = FALSE
  BY DEF PageInit
<1>2. QED
  BY <1>1, Zenon DEF SecondPull!Init

\* A page load and a pull both ask for warnings; only the pull turns the header.
LEMMA SecondAskPulls ==
    ASSUME GetYujingListInfo, spinner2' \in {spinner2, TRUE}
    PROVE  SecondPull!Next
<1>1. warnings' # {}
  BY DEF GetYujingListInfo
<1>2. SecondPull!Ask
  BY <1>1, Zenon DEF SecondPull!Ask
<1>3. QED
  BY <1>2 DEF SecondPull!Next

\* An answer, with warnings or without.
LEMMA SecondAnswerPulls ==
    ASSUME NEW n, WarningsAnswered(n)
    PROVE  SecondPull!Next
<1>1. n \in warnings /\ spinner2' = FALSE
  BY DEF WarningsAnswered, WarningsArrive, WarningsFail
<1>2. SecondPull!Answered
  BY <1>1, Zenon DEF SecondPull!Answered
<1>3. QED
  BY <1>1, <1>2, Zenon DEF SecondPull!Next

\* The other steps do not touch it.
LEMMA SecondStepPulls ==
    ASSUME [PageNext]_pageVars
    PROVE  [SecondPull!Next]_(SecondPull!pullVars)
<1>1. ASSUME UNCHANGED <<warnings, spinner2>>
      PROVE  UNCHANGED SecondPull!pullVars
  BY <1>1, Zenon DEF SecondPull!pullVars
<1>2. CASE Load
  <2>1. GetYujingListInfo /\ spinner2' \in {spinner2, TRUE}
    BY <1>2, Zenon DEF Load
  <2>2. QED
    BY <2>1, SecondAskPulls
<1>3. CASE PullSecond
  <2>1. GetYujingListInfo /\ spinner2' \in {spinner2, TRUE}
    BY <1>3, Zenon DEF PullSecond
  <2>2. QED
    BY <2>1, SecondAskPulls
<1>4. ASSUME NEW n, WarningsAnswered(n)
      PROVE  SecondPull!Next
  BY <1>4, SecondAnswerPulls
<1>5. CASE RunBlock \/ Drag \/ ScrollViewShouldMove
  <2>1. UNCHANGED <<warnings, spinner2>>
    BY <1>5 DEF RunBlock, Drag, ScrollViewShouldMove, ScrollTo, secondVars
  <2>2. QED
    BY <1>1, <2>1
<1>6. CASE RefreshFirst \/ SegmentClick \/ RowStep
  <2>1. UNCHANGED <<warnings, spinner2>>
    BY <1>6 DEF RefreshFirst, SegmentClick, RowStep, secondVars
  <2>2. QED
    BY <1>1, <2>1
<1>7. ASSUME NEW date, WeatherAnswered(date) PROVE UNCHANGED <<warnings, spinner2>>
  BY <1>7 DEF WeatherAnswered, WeatherAnnounced, WeatherFails, secondVars
<1>8. ASSUME NEW n, StatusArrives(n) PROVE UNCHANGED <<warnings, spinner2>>
  BY <1>8 DEF StatusArrives
<1>9. CASE UNCHANGED pageVars
  <2>1. UNCHANGED <<warnings, spinner2>>
    BY <1>9 DEF pageVars, secondVars
  <2>2. QED
    BY <1>1, <2>1
<1>10. QED
  BY <1>1, <1>2, <1>3, <1>4, <1>5, <1>6, <1>7, <1>8, <1>9 DEF PageNext

\* getYujingListInfo and its blocks: whatever the order of page loads, pulls and
\* answers, and whatever the first page does meanwhile, the second page's header
\* keeps the safety part of PullRefresh: it turns only while warnings are on
\* their way, and any answer hides it.
THEOREM SecondHeaderIsPull == PageSpec => SecondPull!Safety
<1>1. PageInit => SecondPull!Init
  BY InitSecondPulls
<1>2. [PageNext]_pageVars => [SecondPull!Next]_(SecondPull!pullVars)
  BY SecondStepPulls
<1>3. QED
  BY <1>1, <1>2, PTL DEF PageSpec, SecondPull!Safety
=============================================================================
