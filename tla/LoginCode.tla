----------------------------- MODULE LoginCode -----------------------------
(***************************************************************************)
(* The verification-code button of LoginViewController: a tap starts a     *)
(* countdown on a repeating timer and sends a request; until the countdown *)
(* ends the button ignores taps; a failed request ends it early.  The      *)
(* answer blocks do not check which countdown they belong to, so what      *)
(* keeps an old failure from ending a new countdown is time: a request is  *)
(* given up after Timeout seconds, well before the countdown is over.      *)
(*                                                                         *)
(* The module follows the page on screen.  Requests of a page that was     *)
(* replaced act on that page only and are dropped here with it.            *)
(***************************************************************************)
EXTENDS Integers

CONSTANTS
    CountFrom,   \* seconds the button stays locked (60 in the code)
    Timeout,     \* seconds after which a request fails (30 in HttpClient)
    Ids          \* names for requests under way

ASSUME TimingAssumption ==
    /\ CountFrom \in Nat /\ Timeout \in Nat
    /\ 0 < Timeout
    /\ Timeout < CountFrom - 1

VARIABLES
    page,        \* "up", or "gone" once viewWillDisappear ran
    timer,       \* the NSTimer is scheduled
    timeCount,   \* seconds left
    title,       \* of the button: "normal" or "counting"
    flight       \* code requests of this page under way: [id, age]

vars == <<page, timer, timeCount, title, flight>>

TypeOK ==
    /\ page \in {"up", "gone"}
    /\ timer \in BOOLEAN
    /\ timeCount \in 0..CountFrom
    /\ title \in {"normal", "counting"}
    /\ flight \subseteq [id : Ids, age : 0..Timeout]

Init ==
    /\ page = "up"
    /\ timer = FALSE
    /\ timeCount = 0
    /\ title = "normal"
    /\ flight = {}

-----------------------------------------------------------------------------
(* Helpers named after the methods.                                          *)

\* (mutant) the title is left as it was
TitleNotReset ==
    /\ timer' = FALSE
    /\ UNCHANGED title

ConfigureCodeButtolNormalUI ==
    /\ timer' = FALSE
    /\ title' = "normal"

\* (mutant) the timer is not invalidated at zero
TimerActionKeepsGoing(count) ==
    /\ timeCount' = count - 1
    /\ timer' = TRUE
    /\ title' = "counting"

\* (mutant) at zero the countdown starts over
TimerActionStartsOver(count) ==
    /\ timeCount' = IF count = 1 THEN CountFrom - 1 ELSE count - 1
    /\ timer' = TRUE
    /\ title' = "counting"

\* timerAction, when the count stands at the given value.
TimerAction(count) ==
    /\ timeCount' = count - 1
    /\ IF count - 1 = 0
       THEN ConfigureCodeButtolNormalUI
       ELSE timer' = TRUE /\ title' = "counting"

\* startTimer fires the timer once by hand.
StartTimer == TimerAction(CountFrom)

Send(id) == flight' = flight \cup {[id |-> id, age |-> 0]}

\* One second passes for every request under way; none outlives Timeout.
Aged == {[r EXCEPT !.age = @ + 1] : r \in flight}
MayAge == \A r \in flight : r.age < Timeout

-----------------------------------------------------------------------------
(* Taps, the timer, the network, the page.                                   *)

\* (mutant) the test of the timer is dropped
TapUnguarded(id) ==
    /\ page = "up"
    /\ \A r \in flight : r.id # id
    /\ StartTimer
    /\ Send(id)
    /\ UNCHANGED page

\* codeButtonClick
CodeButtonClick(id) ==
    /\ page = "up"
    /\ ~timer
    /\ \A r \in flight : r.id # id
    /\ StartTimer
    /\ Send(id)
    /\ UNCHANGED page

\* The timer fires.
Tick ==
    /\ timer /\ MayAge
    /\ TimerAction(timeCount)
    /\ flight' = Aged
    /\ UNCHANGED page

\* A second passes without a call of timerAction: the timer is not scheduled,
\* or the main thread was busy or suspended when it was due.
SecondPasses ==
    /\ flight # {} /\ MayAge
    /\ flight' = Aged
    /\ UNCHANGED <<page, timer, timeCount, title>>

\* getCodeRequest's success block with succ: nothing to do.
CodeSent(r) ==
    /\ flight' = flight \ {r}
    /\ UNCHANGED <<page, timer, timeCount, title>>

\* getCodeRequest with !succ, or its failure block.
CodeFailed(r) ==
    /\ flight' = flight \ {r}
    /\ ConfigureCodeButtolNormalUI
    /\ UNCHANGED <<page, timeCount>>

\* viewWillDisappear; the title is not touched.
ViewWillDisappear ==
    /\ page = "up"
    /\ page' = "gone"
    /\ timer' = FALSE
    /\ UNCHANGED <<timeCount, title, flight>>

\* AppDelegate builds a new LoginViewController.
NewPage ==
    /\ page = "gone"
    /\ page' = "up"
    /\ timer' = FALSE
    /\ timeCount' = 0
    /\ title' = "normal"
    /\ flight' = {}

Next ==
    \/ \E id \in Ids : CodeButtonClick(id)
    \/ Tick
    \/ SecondPasses
    \/ \E r \in flight : CodeSent(r) \/ CodeFailed(r)
    \/ ViewWillDisappear
    \/ NewPage

\* A scheduled timer keeps firing, and the network answers or times out.
Fairness ==
    /\ WF_vars(Tick)
    /\ WF_vars(\E r \in flight : CodeSent(r) \/ CodeFailed(r))

Spec == Init /\ [][Next]_vars /\ Fairness

-----------------------------------------------------------------------------
(* Properties.                                                               *)

\* Never two code requests of one page at a time, and never one under way with
\* the button unlocked: so a failure that arrives always belongs to the
\* countdown it ends, although the block does not check (codeButtonClick's
\* test, the 30 second timeout against the 60 second countdown).
OneCodeRequest ==
    /\ \A r1, r2 \in flight : r1 = r2
    /\ page = "up" /\ flight # {} => timer

\* On the visible page the button counts down exactly while it ignores taps,
\* between 59 and 1; it never shows a zero or a stale number.
ButtonTellsTruth ==
    /\ page = "up" => (title = "counting" <=> timer)
    /\ timer => page = "up" /\ timeCount \in 1..(CountFrom - 1)

\* A countdown ends, whatever the requests do.
CountdownEnds == timer ~> ~timer
=============================================================================
