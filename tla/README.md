# A verification project for WMDProject

WMDProject is an iOS application (Objective-C) that shows the sea and weather
forecast of one bay: a login by phone number and code, a main page of three
pages side by side, a menu, charts, a tide calendar and warnings. It has no
tests. Everything the user sees comes from about fifteen HTTP requests, and
every answer is handled by a block on the main queue. There is one thread, so
there are no data races; what goes wrong in such a program is the *order* of
taps, answers, timers, notifications, posted blocks and deaths of the process.
That is what these modules model.

Paths below are relative to `src/WMDProject/WMDProject/`.

## The system

| Part | State it keeps | Operations | Talks to |
|---|---|---|---|
| `AppDelegate.mm` | root view controller, `mainViewController`, `enterBackgroud` | launch, `configLoginRootVC`, `configureMainViewController`, back to the foreground | NSUserDefaults; listens to `UserLoginSuccessNotify`, `UserLogoutSuccessNotify`; posts `APPDidBecomeActiveNotify` |
| `Manager/WMDUserManager.m` | `tokenId`, `userName` (written through to NSUserDefaults), `currentWeaInfoModel`, `selectWeaInfoModel` | setters | read by everyone |
| `Manager/HttpClient.m` | one shared session and its `Authorization` header | POST, GET; code 3 posts `UserLogoutSuccessNotify` | server |
| `LoginVC/LoginViewController.m` | `timer`, `timeCount`, the button's title | code button, login button, timer, `viewWillDisappear` | HttpClient, WMDUserManager |
| `FuncationView/FirstInfoView.m` | `lastIndex`, `nowDate`, `nextDate1/2`, `currentDate`, four dictionaries keyed by NSDate | refresh, segment tap, four requests | HttpClient, WMDUserManager; posts `refreshShowWeather(Image)Notify`; listens to `refreshNowTempleture`, `APPDidBecomeActiveNotify` |
| `MainVC/MainViewController.m` | scroll offset, background image | scroll, `refreshShowWeather` | owns the three pages |
| `FuncationView/SecondInfoView.m` | list of warnings, status label | pull | posts `refreshNowTempleture` |
| `FuncationView/ThirdInfoView.m` | map | swipe back | posts `ScrollerViewShouldMove` |
| `MainVC/LeftMenuViewController.m` | `status` of the message switch | logout, switch, clear cache, update check | HttpClient, DYLeftSlipManager |
| `MainVC/CalendarDataViewController.m` | `currentDate`, `dataDic`, `keyArray` | previous, next, this month | HttpClient |
| `MainVC/ChartsViewController.m` | `dataArray`, `dataArray2`, `dataArray4`, `waterLevelCount` | 12/5 minute switch, list | HttpClient, ListInfoViewController |
| `Manager/HSUpdateApp.m` | none | compares versions | App Store |
| `Manager/DYLeftSlipManager.m` | the menu, a key-value observer | show, dismiss, swizzled push and pop | UIKit |

## What is hard here

* **Answers out of order.** Requests are not numbered or cancelled. An answer
  that comes late writes under the date, the month or the interval selected
  *now*, or under the one it was sent for, depending on the block.
* **State read when a block runs.** `refreshShowWeather`, `dismissLeftView`, the
  observer of the edge swipe, the web rows and the cleared caches all post
  blocks that read the page, the stack or the root controller later.
* **The root controller may change at any moment.** Any POST answered with code
  3 replaces it: under a HUD, an open menu, a swipe, a countdown.
* **The process may die** between any two callbacks; NSUserDefaults is what the
  next launch knows.
* **Requests fail one by one**, silently on most pages; headers, HUDs and
  buttons must come free all the same.
* **Edges of arithmetic**: the last days of a month under clamping, exactly ten
  months, a countdown that is decremented once by hand, versions without dots.

## Modules

Non-proof modules come first, in the order they build on one another.

| Module | Models | State and actions in the code |
|---|---|---|
| `SignIn` | abstract: a credential is granted by the server, redeemed once, survives the process and opens the main page | what login promises; no code of its own |
| `Session` | `AppDelegate`, `WMDUserManager`, `HttpClient`, the login and logout requests | `root` and `mainViewController` are the window's; `stored`, `tokenId`, `header` the three copies of the token; `net[s]` one `NSURLSessionDataTask`; `hud[s]` its HUD. `Launch`, `Kill`, the taps, `Deliver` (one per answer block) |
| `LoginCode` | the verification-code button | `timer`, `timeCount`, `title` as in the controller; `flight` the code requests with their age in seconds |
| `FirstInfo` | `FirstInfoView` | an NSDate is a pair <<refresh or tap that made it, segment>>, because the code compares dates by identity; `cache[k]` are the four dictionaries, `pending[k][date]` the requests, `shown[k]` the date whose reading is on screen, `current` the menu's weather |
| `MainPage` | `MainViewController`, `SecondInfoView`, extending `FirstInfo` | `offset` is `contentOffset`, `dip` the background, `queue` the posted blocks of `refreshShowWeather`; every step of the first page is one of `FirstInfo`'s actions with what it posts |
| `PullRefresh` | abstract: a page with MJRefresh's header; requests are sent by pulls and by other causes, any answer hides the header, it never turns with nothing under way and not for ever | what `mj_header` promises on every page; no code of its own |
| `Calendar` | `CalendarDataViewController` | `currentDate` as in the controller, `now` the clock; `pending` is the sequence of requests in the order they were sent, answered in any order; it and `grid` say which month was asked for and whether it was the newest request; `alertView` covers the page while it is up |
| `Charts` | `ChartsViewController`, `ListInfoViewController` | `count` is `waterLevelCount`; `upper`/`lower` the requests of the two charts; `line` is `dataArray`, which the open `list` shares |
| `LeftSlip` | `DYLeftSlipManager` and the swizzled `UINavigationController` | `depth` is `viewControllers.count`; `stateObserve` the mark on the gesture and `observers` the registrations Foundation holds; `ends` and `dismissals` the blocks not yet run; `mask` is `tapView.alpha` |
| `MsgSwitch` | row 1 of `LeftMenuViewController`: the message switch, its query and its setting | `status` is the controller's; `server` what the server keeps; `msgs` the requests in the order they were sent, each dealt with by the server or not, and answered or failed; `choice` is a history variable: the user's last choice while nothing failed or overtook |
| `LeftMenu` | `LeftMenuViewController`'s rows, `HSUpdateApp`, `AppDelegate`'s alert, extending `LeftSlip` and `MsgSwitch` | `hud`, `alert`, the two checks, the delayed blocks |

`MC<module>` modules give the constants that a `.cfg` cannot write. A module
`<module>Proofs` holds the theorems about `<module>`.

Components interact as follows. `Session` is where code 3, login and logout
replace the root; `LoginCode` (`NewPage`) and `LeftSlip` (`ConfigLoginRootVC`,
`ConfigureMainViewController`) take such a replacement as a step that may come
at any time; with it `MsgSwitch` gets a new menu (`NewSwitch`), while the server
may still act on the old menu's requests. `MainPage` uses `FirstInfo` through its actions: a pull on the
second page *is* a refresh of the first, and the rows of the first page's table
go on by themselves (`RowStep`). `LeftMenu` extends `LeftSlip`: every
row's tap includes the posted dismissal, and the first presentation of a menu
loads its view, which asks for the switch's status. The headers of three pages
implement `PullRefresh`, each through a mapping that names its requests:
`FirstInfo` its pending weather requests, the second page of `MainPage` its
warning requests, `Calendar` its months.

One step of a module is one callback on the main queue, with everything it
calls. Bodies of requests, texts and layout are left out; a reading is known by
the date it belongs to, a picture by the date of its weather.

### What the environment is taken to do

* A request is answered or fails once, on the main queue, at any time and in any
  order. Where a time matters it is HttpClient's 30 seconds: `LoginCode` takes
  them as a true bound on a request, and an NSTimer never to fire early.
* A login that the server accepts carries a token it never issued before;
  `loginRequest` does not look whether there is one.
* The server may deal with a request of the switch before an earlier one, and
  after the client gave up on it. A request for another user's status (the menu
  of a later login) does not concern the earlier one's.
* The device of `Calendar` is in China's time zone, as the parser is.
* In `LeftSlip`, UIKit takes a page off the stack when its swipe begins and puts
  it back some time after the swipe was cancelled; a root controller that was
  replaced is deallocated once no block, transition or presented menu holds it,
  and an abandoned menu goes when no posted dismissal is waiting; a login takes
  longer than that. An alert presented on a controller that is presenting
  something is dropped.
* Whether a HUD survives the page it was shown over is left open in `Session`:
  such a HUD blocks nothing.

## Runs

| Run | Module, configuration | Shows |
|---|---|---|
| `session` | `Session` | `MainHasStoredToken`, `RebuiltOnServerWord`, `RejectionSurfaces`, and that `Session` implements `SignIn` |
| `session_stale` | `SessionStale` | **violated**: a code 3 answer ends a session it does not belong to |
| `login_code` | `LoginCode` | one code request at a time, the title tells the truth, a countdown ends |
| `first_info` | `FirstInfo` | rows show the selected date, the menu has today's weather and never goes back, only a failure leaves a reading neither known nor asked for, the header implements `PullRefresh` |
| `first_info_live` | `FirstInfoLive` | **violated**: the live reading is replaced by a late forecast |
| `main_page` | `MainPage` | `PageTypeOK`; the background matches the page and the weather (`BackgroundMatches`), and catches up; the second page's header implements `PullRefresh` (`SecondImplementsPull`) |
| `main_page_pull` | `MainPagePull` | **violated**: a pull on the second page need not ask for the weather it shows |
| `calendar` | `Calendar` | the arrows' limits, a wrong month only from an older request, a wrong mark only on the first of the month or on a day since the opening (`MarkIsRecent`), the header implements `PullRefresh` |
| `calendar_today` | `CalendarToday` | **violated**: the 1st is marked as today |
| `charts` | `Charts` | the interval of the newest answer, settled lists stay whole, labels and bars agree, one reading under three numberings, only a failure leaves a chart loading |
| `left_menu` | `LeftMenu` | the observer is balanced and never left behind, a pushed page can be swiped back, the alert is newer, no page is pushed under the menu, the mask is left without its menu only by a replaced root controller (`OnlyReplacementLeavesMask`), the message switch agrees with the server and the last tap once everything was answered in order |
| `left_slip` | `LeftSlip` | **violated**: a mask without a menu over the main page |

The violated runs each check one sentence of a comment in the code; the
`findings` of `PROJECT.json` quote it. None of them asks for fairness: they are
violated by a finite sequence of steps.

### Bounds

* `Session`: two tokens and two requests. A stale rejection needs the token of an
  earlier session and one of the present; two requests at a time give every
  order of two answers, a login overtaken by a rejection included. Deaths and
  launches are unbounded.
* `LoginCode`: the code's own 60 and 30 seconds. Two names of requests suffice to
  see a second one under way.
* `FirstInfo`: two refreshes (an old and a new generation of dates), one live
  reading, two days, one row beside the weather, one request per reading and
  date, two dates at a time. The three rows run the same code; one stands for
  them. The proofs take any number of each.
* `MainPage`: two refreshes, the live segment and one day, a row of the table, two
  posted blocks (an answer for today posts two at once), and one date under way
  per reading: late answers of other dates are `first_info`'s subject, and with
  two dates the composition has six million states, too many for its liveness
  properties. `MainPagePull` has two days and two dates. The proofs take any
  number of all of these.
* `Calendar`: the code's ten months, pages opened in the middle and on the last
  two days of March 2019, one midnight, two requests; `LastMonth` is beyond
  every month the arrow can reach, February 2020 on the way.
* `Charts`: four askings, answers of two lengths, all five rows.
* `LeftMenu`: a stack of three (a push on a pushed page, and a swipe from there),
  one delayed block, two dismissals, a version of one number and one of three,
  two requests of the switch (a tap while the query, or the tap before it, is
  under way). Two overlapping delayed blocks would multiply the states beyond
  what a run can do; the proofs take any number of them, of dismissals, of
  requests and of versions.

`MaxPending`, `MaxInFlight`, `MaxSame`, `MaxRefresh`, `MaxLive`, `MaxQueue`,
`MaxAsked`, `MaxDepth`, `MaxEnds`, `MaxDismissals`, `MaxMsgs`, `MaxNights` and
`LastMonth`
are bounds of the models, named in the guards; the code has none of them.

### Fairness

* Requests are answered: `HttpClient` gives its session a timeout of 30 seconds,
  so every request ends in one of its two blocks (`Session`, `FirstInfo`,
  `MainPage`, `Calendar`: weak fairness of the answers, not of success).
* A scheduled NSTimer fires and time goes on (`LoginCode`).
* The main queue runs the blocks posted to it (`MainPage`).

`ImplementsPull` includes `PullRefresh`'s liveness (a turning header is hidden in
the end), which the first of these gives. No tap, pull, launch or server decision
is ever fair.

## What is proved

TLAPS checks the following for every value of the constants that the named
assumptions admit.

| Module | Theorems | Inductive invariant and why it is needed |
|---|---|---|
| `SessionProofs` | type correctness, `MainHasStoredToken`, `RebuiltOnServerWord`, refinement of `SignIn`, `RejectionWaits` | adds that tokens under way are distinct (the server issues each once), that every token the client holds was issued, that a rejected token is dead and stays dead, and what a dead process holds. Without the first a token could be redeemed twice; without the third a rejection could be stale in the wrong direction |
| `LoginCodeProofs` | type correctness, `OneCodeRequest`, `ButtonTellsTruth`, `CountdownGoesDown` | adds `CountdownOutlastsRequest`: a request's age is at least the time its countdown has used. This is the timing argument the code relies on without saying so; it needs only `Timeout < CountFrom - 1` |
| `FirstInfoProofs` | type correctness, `RowsShowSelected`, `MenuFollowsToday`, `MenuNeverGoesBack`, `OnlyFailureStarves`, the steps of `PullRefresh` (`HeaderIsPull`) | adds that nothing is stored or requested under a date not yet made, so a new date starts empty |
| `MainPageProofs` | every behaviour of the page is one of `FirstInfo`'s (`FirstPageIsFirstInfo`), so `RowsShowSelected`, `MenuFollowsToday`, `MenuNeverGoesBack`, `OnlyFailureStarves` and the first header's `PullRefresh` hold with the second page's refreshes among the steps; `PageTypeOK`, `BackgroundMatches`, the steps of `PullRefresh` for the second page (`SecondHeaderIsPull`) | `FirstInfo`'s invariant, and `asked <= gen`: the second page asks only by refreshing the first, so its requests are no more than the generations of dates. Without it `asked` has no bound |
| `CalendarProofs` | type correctness, `NewestIsTitle`, `RightLimit`, `MarkIsRecent`, the steps of `PullRefresh` | lemmas on the month arithmetic: a month further is a moment again, whatever the day. `RightLimit` adds that, under its premise, the day and hour of the page's date are never past the clock's, so that the count of whole months cannot step over ten. `MarkIsRecent` adds that, while the month of the opening lasts, a page on an earlier month stands on its first: so the right arrow can bring the first of this month back, and no other day |
| `ChartsProofs` | type correctness, `NewestIsSwitch`, `ListIsWhole`, `LabelsOfBars`, `SameReading`, `OnlyFailureSticks` | adds that no request is numbered later than the newest, and that an open settled list has nothing left to be answered |
| `LeftSlipProofs` | type correctness, `ObserverBalanced`, `NoObserverLeft`, `PushedPageSwipes`, `OnlyReplacementLeavesMask` | adds that the page *under a swipe* is watched too, for it may come back, and that nothing is under way without a controller. For the mask: a menu being dismissed has none left (`MaskGoesFirst`), so the end of the dismissal cannot leave it |
| `LeftMenuProofs` | type correctness (`TypeOK`, `MenuTypeOK`), `ObserverBalanced`, `NoObserverLeft`, `PushedPageSwipes`, `PushesUnderNoMenu`, `OnlyReplacementLeavesMask`, `AlertIsNewer`, `SwitchSettles` | `LeftSlip`'s invariant again: every row and block does to the stack what a push or a posted dismissal does. For the web pages: while the menu is open, each that waits has a posted dismissal still to run before it, and none waits when the menu has gone. For the alert: of two numbers of three digits the first digit that differs decides. For the switch: while nothing failed or overtook, all requests are this menu's, the server deals with them from the first on, and the last one decides: it carries the user's last choice and, once dealt with, what the server keeps |

The assumptions are the `ASSUME`s of each module; the runs evaluate them.

Only model-checked: the liveness properties, since fairness and ENABLED are
beyond the prover. What each needs of safety is proved: `RejectionWaits` for
`RejectionSurfaces` (a rejection stays in its slot until the step that shows the
login page), `CountdownGoesDown` for `CountdownEnds` (no step starts a countdown
over), `PullRefresh`'s steps for the liveness within `ImplementsPull` and
`SecondImplementsPull`, and `BackgroundMatches` for `BackgroundCatchesUp` (when
the queue is empty the picture is right); that the answers, ticks and blocks do
come is TLC's part. `RejectionWaits` and `CountdownGoesDown` are defined in the
proof modules, and no run checks them by themselves. `FirstInfo`'s theorems are not cited through an instance, which the
prover cannot do: `MainPage` extends it.

## Behaviour worth knowing

Findings with a run are listed above. These came up while modelling and are
stated in the properties' premises:

* `NewestIsTitle` and `NewestIsSwitch` speak of the newest request only: an older
  one that is answered last leaves its month under another title, or its interval
  under the other position of the switch, and nothing in the code prevents it. A
  failed request leaves the previous month's cells under the new title.
* `RebuiltOnServerWord` asks of a rejection that its own token is dead, not that
  it is the session's: that it need not be is the finding of `session_stale`.
* `RightLimit` is promised only to a page opened today, or before the 28th. The
  right arrow tests that the difference in months *equals* ten, and adding a
  month clamps the day: a page opened on the 31st and kept over midnight steps
  over ten and never stops.
* `PushedPageSwipes` excludes a delayed block that runs during a swipe to the
  root, or before a cancelled swipe has put its page back: the page returns with
  its swipe disabled, until the next push.
* `ListIsWhole` is promised only to a list opened when everything was answered.
  An earlier one may count rows a shorter answer takes away.
* `AlertIsNewer` holds for versions of up to three single digits. 1.10 counts as
  110 and 1.2 as 120. A failed check tells the user that the version is the
  latest, as a successful one does.
* `OnlyReplacementLeavesMask` says where the mask of the finding comes from: a
  menu that is dismissed takes its mask along, in any order of taps, posted
  dismissals and presentations; only a root controller on its way out loses the
  menu and keeps the mask.
* `MarkIsRecent` says how wrong the today mark can be: the first of the month,
  after the arrows, or a day since the page was opened, after midnights. When the
  month of the opening is over nothing is claimed: a mark is not taken back.
* A sign-out keeps the token on disk (`SignIn` says so): the next launch opens the
  main page and the server has to reject it.

* `SwitchSettles` is promised while no request of the switch failed and none
  overtook another. Otherwise the switch may show what the server does not keep:
  a failed setting is not noticed, and a late answer turns the switch back.

## Not modelled

* The files `clearMembory` removes, the warning details and the web page (one
  request each, one answer; their pushes are `LeftSlip`'s).
* The statistics label and the markers of the charts, the texts of the calendar's
  cells and of its alert.
* A tap on row 0 of the warnings reads the list at -1, which ends the process: in
  `Session` that is `Kill`, at any time.
* The manager's pan gesture: it is never attached to a view, so its handler and
  the interactive presentation cannot run; `leftViewInShow` is never read.
* The third page's map, its annotations and its two buttons, which only concern
  the map SDK.
* Layout, formatting, JSON models, categories, and the vendored libraries (Realm,
  Charts, AFNetworking, MJRefresh and others, by far the most lines of the
  repository), of which only what the application relies on is stated. Realm is
  among the pods and no file of the application uses it.

## Plan

The order followed so far: `Session` with `SignIn` and `LoginCode`, the pages
(`FirstInfo`, `MainPage`, `Calendar`, `Charts`), the menu (`LeftSlip`,
`LeftMenu`, `MsgSwitch`), `PullRefresh` over three of the pages, and the proofs
beside each. Left:

1. A composition of `Session` with `LeftSlip` and a page, so that the replaced
   root of one is the other's: the calendar's alert over the login page belongs
   there.
2. The chart page's statistics label, filled by one of the answers, in `Charts`,
   and the text of the calendar's alert, which a day without tides leaves alone.
3. An abstract specification of a page that shows the newest answer, which
   `Calendar` and `Charts` implement up to the overtaken answers.
4. Proofs: what keeps the two composed halves of the menu apart (`LeftSlip` and
   `MsgSwitch` as refinements of `LeftMenu`, as `FirstPageIsFirstInfo` is for the
   main page), and the properties of the compositions above.
