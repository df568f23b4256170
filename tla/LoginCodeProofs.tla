-------------------------- MODULE LoginCodeProofs --------------------------
(***************************************************************************)
(* LoginCode, for every countdown and every timeout shorter than it.       *)
(***************************************************************************)
EXTENDS LoginCode, TLAPS

\* What the code relies on without stating it: since the tap that sent a
\* request, the timer has fired at most once per second of the request's age
\* (plus the fire by hand), so a request that has not timed out finds the
\* countdown it started still running.
CountdownOutlastsRequest ==
    page = "up" => \A r \in flight : timer /\ r.age >= CountFrom - 1 - timeCount

AtMostOne == \A r1, r2 \in flight : r1 = r2

IInv ==
    /\ TypeOK
    /\ AtMostOne
    /\ ButtonTellsTruth
    /\ CountdownOutlastsRequest

-----------------------------------------------------------------------------

\* The inductive invariant is stronger than the property it was made for.
LEMMA IInvImplies == IInv => OneCodeRequest
  BY DEF IInv, OneCodeRequest, AtMostOne, CountdownOutlastsRequest

\* The count and the ages start in range.
LEMMA ZeroInRange == 0 \in 0..CountFrom /\ 0 \in 0..Timeout
  BY TimingAssumption

\* The inductive invariant holds initially.
LEMMA InitIInv == Init => IInv
<1> SUFFICES ASSUME Init PROVE IInv
  OBVIOUS
<1>1. TypeOK
  BY ZeroInRange DEF Init, TypeOK
<1>2. ButtonTellsTruth
  <2>1. ~timer /\ title # "counting"
    BY DEF Init
  <2>2. QED
    BY <2>1 DEF ButtonTellsTruth
<1>3. QED
  BY <1>1, <1>2 DEF Init, IInv, AtMostOne, CountdownOutlastsRequest

\* A second added to the age of every request leaves the requests typed, and as
\* many of them.
LEMMA AgedRequests ==
    ASSUME TypeOK, MayAge
    PROVE  /\ Aged \subseteq [id : Ids, age : 0..Timeout]
           /\ AtMostOne => \A r1, r2 \in Aged : r1 = r2
           /\ \A a \in Aged : \E r \in flight : a.age = r.age + 1
<1>1. ASSUME NEW r \in flight
      PROVE  /\ [r EXCEPT !.age = @ + 1] \in [id : Ids, age : 0..Timeout]
             /\ [r EXCEPT !.age = @ + 1].age = r.age + 1
  <2>1. r \in [id : Ids, age : 0..Timeout] /\ r.age < Timeout
    BY DEF TypeOK, MayAge
  <2>2. r.age \in 0..Timeout /\ Timeout \in Nat
    BY <2>1, TimingAssumption
  <2>3. r.age + 1 \in 0..Timeout
    BY <2>1, <2>2
  <2>4. QED
    BY <2>1, <2>3
<1>2. \A a \in Aged : \E r \in flight : a = [r EXCEPT !.age = @ + 1]
  BY DEF Aged
<1>3. Aged \subseteq [id : Ids, age : 0..Timeout]
  BY <1>1, <1>2
<1>4. \A a \in Aged : \E r \in flight : a.age = r.age + 1
  BY <1>1, <1>2
<1>5. AtMostOne => \A r1, r2 \in Aged : r1 = r2
  BY <1>2 DEF AtMostOne
<1>6. QED
  BY <1>3, <1>4, <1>5

\* One call of timerAction, at a count in range, leaves the timer running with a
\* smaller count, or ends the countdown.
LEMMA TimerActionEffect ==
    ASSUME NEW count \in 1..CountFrom, TimerAction(count)
    PROVE  /\ timer' \in BOOLEAN
           /\ timeCount' = count - 1
           /\ timeCount' \in 0..CountFrom
           /\ timer' <=> timeCount' # 0
           /\ title' = IF timer' THEN "counting" ELSE "normal"
<1>1. timeCount' = count - 1 /\ timeCount' \in 0..CountFrom
  BY TimingAssumption DEF TimerAction
<1>2. CASE count - 1 = 0
  <2>1. timer' = FALSE /\ title' = "normal"
    BY <1>2 DEF TimerAction, ConfigureCodeButtolNormalUI
  <2>2. QED
    BY <1>1, <1>2, <2>1
<1>3. CASE count - 1 # 0
  <2>1. timer' = TRUE /\ title' = "counting"
    BY <1>3 DEF TimerAction
  <2>2. QED
    BY <1>1, <1>3, <2>1
<1>4. QED
  BY <1>2, <1>3

\* A tap that is not ignored: the request it sends is the only one, and starts
\* with the countdown.
LEMMA TapIInv == ASSUME IInv, NEW id \in Ids, CodeButtonClick(id) PROVE IInv'
<1>1. flight = {}
  BY DEF IInv, CountdownOutlastsRequest, CodeButtonClick
<1>2. flight' = {[id |-> id, age |-> 0]}
  BY <1>1 DEF CodeButtonClick, Send
<1>3. /\ timer' = TRUE
      /\ timeCount' = CountFrom - 1
      /\ title' = "counting"
  BY TimingAssumption
  DEF CodeButtonClick, StartTimer, TimerAction, ConfigureCodeButtolNormalUI
<1>4. page = "up" /\ page' = "up"
  BY DEF CodeButtonClick
<1>5. CountFrom - 1 \in 1..(CountFrom - 1) /\ CountFrom - 1 \in 0..CountFrom
  BY TimingAssumption
<1>6. TypeOK'
  BY <1>2, <1>3, <1>4, <1>5, TimingAssumption DEF TypeOK
<1>7. AtMostOne' /\ ButtonTellsTruth'
  BY <1>2, <1>3, <1>4, <1>5 DEF AtMostOne, ButtonTellsTruth
<1>8. CountdownOutlastsRequest'
  BY <1>2, <1>3, <1>4, TimingAssumption DEF CountdownOutlastsRequest
<1>9. QED
  BY <1>6, <1>7, <1>8 DEF IInv

\* The timer fires: counts and ages move together.
LEMMA TickIInv == ASSUME IInv, Tick PROVE IInv'
<1>1. /\ TypeOK /\ MayAge /\ timer /\ page = "up" /\ page' = "up"
      /\ flight' = Aged
      /\ timeCount \in 1..(CountFrom - 1)
  BY DEF IInv, Tick, ButtonTellsTruth
<1>2. timeCount \in 1..CountFrom
  BY <1>1, TimingAssumption
<1>3. /\ timer' \in BOOLEAN
      /\ timeCount' = timeCount - 1
      /\ timeCount' \in 0..CountFrom
      /\ timer' <=> timeCount' # 0
      /\ title' = IF timer' THEN "counting" ELSE "normal"
  BY <1>2, TimerActionEffect DEF Tick
<1>4. /\ flight' \subseteq [id : Ids, age : 0..Timeout]
      /\ \A r1, r2 \in flight' : r1 = r2
      /\ \A a \in flight' : \E r \in flight : a.age = r.age + 1
  BY <1>1, AgedRequests DEF IInv
<1>5. TypeOK'
  BY <1>1, <1>3, <1>4 DEF TypeOK
<1>6. AtMostOne'
  BY <1>4 DEF AtMostOne
<1>7. ButtonTellsTruth'
  <2>1. timer' => timeCount' \in 1..(CountFrom - 1)
    BY <1>1, <1>3, TimingAssumption
  <2>2. title' = "counting" <=> timer'
    BY <1>3, Zenon
  <2>3. QED
    BY <1>1, <2>1, <2>2 DEF ButtonTellsTruth
<1>8. ASSUME NEW a \in flight' PROVE timer' /\ a.age >= CountFrom - 1 - timeCount'
  <2>1. PICK r \in flight : a.age = r.age + 1
    BY <1>4
  <2>2. /\ r.age \in 0..Timeout /\ r.age < Timeout
        /\ r.age >= CountFrom - 1 - timeCount
    BY <1>1 DEF IInv, TypeOK, CountdownOutlastsRequest, MayAge
  <2>3. timeCount - 1 # 0
    BY <1>1, <2>2, TimingAssumption
  <2>4. QED
    BY <1>1, <1>3, <2>1, <2>2, <2>3, TimingAssumption
<1>9. QED
  BY <1>5, <1>6, <1>7, <1>8 DEF IInv, CountdownOutlastsRequest

\* A second without a call of timerAction only makes the requests older.
LEMMA SecondPassesIInv == ASSUME IInv, SecondPasses PROVE IInv'
<1>1. /\ TypeOK /\ MayAge
      /\ flight' = Aged
      /\ UNCHANGED <<page, timer, timeCount, title>>
  BY DEF IInv, SecondPasses
<1>2. /\ flight' \subseteq [id : Ids, age : 0..Timeout]
      /\ \A r1, r2 \in flight' : r1 = r2
      /\ \A a \in flight' : \E r \in flight : a.age = r.age + 1
  BY <1>1, AgedRequests DEF IInv
<1>3. TypeOK' /\ AtMostOne' /\ ButtonTellsTruth'
  BY <1>1, <1>2 DEF IInv, TypeOK, AtMostOne, ButtonTellsTruth
<1>4. ASSUME NEW a \in flight', page' = "up"
      PROVE  timer' /\ a.age >= CountFrom - 1 - timeCount'
  <2>1. PICK r \in flight : a.age = r.age + 1
    BY <1>2
  <2>2. timer /\ r.age \in 0..Timeout /\ r.age >= CountFrom - 1 - timeCount
    BY <1>1, <1>4 DEF IInv, TypeOK, CountdownOutlastsRequest
  <2>3. QED
    BY <1>1, <2>1, <2>2, TimingAssumption DEF TypeOK
<1>5. QED
  BY <1>3, <1>4 DEF IInv, CountdownOutlastsRequest

\* The countdown is ended by a failure only when no other request relies on it.
LEMMA CodeFailedIInv == ASSUME IInv, NEW r \in flight, CodeFailed(r) PROVE IInv'
<1>1. flight' = {}
  BY DEF IInv, AtMostOne, CodeFailed
<1>2. timer' = FALSE /\ title' = "normal" /\ UNCHANGED <<page, timeCount>>
  BY DEF CodeFailed, ConfigureCodeButtolNormalUI
<1>3. QED
  BY <1>1, <1>2
  DEF IInv, TypeOK, AtMostOne, ButtonTellsTruth, CountdownOutlastsRequest

\* Every step keeps the inductive invariant.
LEMMA NextIInv == IInv /\ [Next]_vars => IInv'
<1> SUFFICES ASSUME IInv, [Next]_vars PROVE IInv'
  OBVIOUS
<1>1. CASE \E id \in Ids : CodeButtonClick(id)
  BY <1>1, TapIInv
<1>2. CASE Tick
  BY <1>2, TickIInv
<1>3. CASE SecondPasses
  BY <1>3, SecondPassesIInv
<1>4. ASSUME NEW r \in flight, CodeSent(r) PROVE IInv'
  BY <1>4
  DEF CodeSent, IInv, TypeOK, AtMostOne, ButtonTellsTruth, CountdownOutlastsRequest
<1>5. ASSUME NEW r \in flight, CodeFailed(r) PROVE IInv'
  BY <1>5, CodeFailedIInv
<1>6. CASE ViewWillDisappear
  BY <1>6
  DEF ViewWillDisappear, IInv, TypeOK, AtMostOne, ButtonTellsTruth, CountdownOutlastsRequest
<1>7. CASE NewPage
  <2>1. TypeOK'
    BY <1>7, ZeroInRange DEF NewPage, TypeOK
  <2>2. ButtonTellsTruth'
    <3>1. ~timer' /\ title' # "counting"
      BY <1>7 DEF NewPage
    <3>2. QED
      BY <3>1 DEF ButtonTellsTruth
  <2>3. QED
    BY <1>7, <2>1, <2>2 DEF NewPage, IInv, AtMostOne, CountdownOutlastsRequest
<1>8. CASE UNCHANGED vars
  BY <1>8
  DEF vars, IInv, TypeOK, AtMostOne, ButtonTellsTruth, CountdownOutlastsRequest
<1>9. QED
  BY <1>1, <1>2, <1>3, <1>4, <1>5, <1>6, <1>7, <1>8 DEF Next

-----------------------------------------------------------------------------

\* The inductive invariant holds in every reachable state.
THEOREM Invariance == Spec => []IInv
<1>1. Init => IInv
  BY InitIInv
<1>2. IInv /\ [Next]_vars => IInv'
  BY NextIInv
<1>3. QED
  BY <1>1, <1>2, PTL DEF Spec

\* The variables keep the ranges of the instance variables they model.
THEOREM TypeCorrect == Spec => []TypeOK
<1>1. IInv => TypeOK
  BY DEF IInv
<1>2. QED
  BY <1>1, Invariance, PTL

\* codeButtonClick and the two answer blocks: whatever the length of the
\* countdown, a failed code request ends the countdown it started and no other,
\* as long as the timeout is shorter.
THEOREM OneCodeRequestAlways == Spec => []OneCodeRequest
  BY Invariance, IInvImplies, PTL

\* timerAction, startTimer and viewWillDisappear: the button shows a countdown
\* exactly while it ignores taps, and never one outside 1..CountFrom-1.
THEOREM ButtonTellsTruthAlways == Spec => []ButtonTellsTruth
<1>1. IInv => ButtonTellsTruth
  BY DEF IInv
<1>2. QED
  BY <1>1, Invariance, PTL

\* The safety half of CountdownEnds: a running countdown only goes down, one second
\* at a time; no tap, answer or second that passes starts it over, and what ends
\* it early is a failed request of its own or the page going away.
CountdownGoesDown ==
    [][timer => /\ timer' => timeCount' \in {timeCount, timeCount - 1}
                /\ ~timer' => \/ timeCount = 1 /\ timeCount' = 0
                              \/ flight # {} /\ flight' = {}
                              \/ page' = "gone"]_vars

\* A step of the page does one of those to its countdown.
LEMMA NextGoesDown ==
    ASSUME IInv, Next, timer
    PROVE  /\ timer' => timeCount' \in {timeCount, timeCount - 1}
           /\ ~timer' => \/ timeCount = 1 /\ timeCount' = 0
                         \/ flight # {} /\ flight' = {}
                         \/ page' = "gone"
<1>1. page = "up" /\ timeCount \in 1..CountFrom
  BY TimingAssumption DEF IInv, TypeOK, ButtonTellsTruth
<1>2. ~(\E id \in Ids : CodeButtonClick(id)) /\ ~NewPage
  BY <1>1 DEF CodeButtonClick, NewPage
<1>3. CASE Tick
  <2>1. timeCount' = timeCount - 1
    BY <1>1, <1>3, TimerActionEffect DEF Tick
  <2>2. ~timer' => timeCount' = 0
    BY <1>1, <1>3, TimerActionEffect DEF Tick
  <2>3. timeCount' = 0 => timeCount = 1
    BY <1>1, <2>1
  <2>4. ~timer' => timeCount = 1 /\ timeCount' = 0
    BY <2>2, <2>3
  <2>5. timer' => timeCount' \in {timeCount, timeCount - 1}
    BY <2>1
  <2>6. QED
    BY <2>4, <2>5
<1>4. CASE SecondPasses
  BY <1>4 DEF SecondPasses
<1>5. ASSUME NEW r \in flight, CodeSent(r) PROVE UNCHANGED <<timer, timeCount>>
  BY <1>5 DEF CodeSent
<1>6. ASSUME NEW r \in flight, CodeFailed(r) PROVE ~timer' /\ flight # {} /\ flight' = {}
  BY <1>6 DEF IInv, AtMostOne, CodeFailed, ConfigureCodeButtolNormalUI
<1>7. CASE ViewWillDisappear
  BY <1>7 DEF ViewWillDisappear
<1>8. QED
  BY <1>2, <1>3, <1>4, <1>5, <1>6, <1>7 DEF Next

\* For every countdown longer than the timeout, what CountdownEnds still needs is
\* that the timer goes on firing (timerAction, codeButtonClick).
THEOREM CountdownGoesDownAlways == Spec => CountdownGoesDown
<1>1. IInv /\ [Next]_vars =>
        [timer => /\ timer' => timeCount' \in {timeCount, timeCount - 1}
                  /\ ~timer' => \/ timeCount = 1 /\ timeCount' = 0
                                \/ flight # {} /\ flight' = {}
                                \/ page' = "gone"]_vars
  BY NextGoesDown
<1>2. QED
  BY <1>1, Invariance, PTL DEF Spec, CountdownGoesDown
=============================================================================
