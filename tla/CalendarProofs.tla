--------------------------- MODULE CalendarProofs ---------------------------
(* What holds of Calendar for every opening, reach and number of requests.    *)
EXTENDS Calendar, TLAPS

LEMMA MonthLengthRange ==
    ASSUME NEW month \in Nat
    PROVE  MonthLength(month) \in 28..31
BY DEF MonthLength

\* A month further is a moment again, whatever the day it starts from.
LEMMA NextMonthIsMoment ==
    ASSUME NEW d \in Moments
    PROVE  PlusMonths(d, 1) \in Moments
<1>1. d.month + 1 \in Nat /\ d.day \in 1..31 /\ d.hour \in Nat
    BY DEF Moments
<1>2. MonthLength(d.month + 1) \in 28..31
    BY <1>1, MonthLengthRange
<1>. DEFINE last == MonthLength(d.month + 1)
            day == IF d.day > last THEN last ELSE d.day
<1>3. day \in 1..31
    BY <1>1, <1>2
<1>4. PlusMonths(d, 1) = [d EXCEPT !.month = d.month + 1, !.day = day]
    BY DEF PlusMonths
<1>. HIDE DEF day
<1>. QED
    BY <1>1, <1>3, <1>4 DEF Moments

LEMMA FirstIsMoment ==
    ASSUME NEW month \in Nat
    PROVE  FirstOf(month) \in Moments
BY DEF FirstOf, Moments

LEMMA DrawnTodayType ==
    ASSUME TypeOK, NEW month, NEW cell \in DrawnToday(month)
    PROVE  cell \in (Nat \X (1..31)) \cup {NoDay}
<1>1. <<currentDate.month, currentDate.day>> \in Nat \X (1..31)
    BY DEF TypeOK, Moments
<1>. QED
    BY <1>1 DEF DrawnToday

\* Taking the i-th element out of a sequence shifts what follows it.
LEMMA RemoveAtEffect ==
    ASSUME NEW S, NEW s \in Seq(S), NEW i \in 1..Len(s)
    PROVE  /\ RemoveAt(s, i) \in Seq(S)
           /\ Len(RemoveAt(s, i)) = Len(s) - 1
           /\ \A k \in 1..(Len(s) - 1) :
                RemoveAt(s, i)[k] = IF k < i THEN s[k] ELSE s[k + 1]
<1> DEFINE front == SubSeq(s, 1, i - 1)
           back == SubSeq(s, i + 1, Len(s))
<1>1. /\ front \in Seq(S) /\ Len(front) = i - 1
      /\ \A k \in 1..(i - 1) : front[k] = s[k]
  OBVIOUS
<1>2. /\ back \in Seq(S) /\ Len(back) = Len(s) - i
      /\ \A k \in 1..(Len(s) - i) : back[k] = s[k + i]
  OBVIOUS
<1>3. RemoveAt(s, i) = front \o back
  BY DEF RemoveAt
<1> HIDE DEF front, back
<1>4. front \o back \in Seq(S) /\ Len(front \o back) = Len(s) - 1
  BY <1>1, <1>2
<1>5. ASSUME NEW k \in 1..(Len(s) - 1)
      PROVE  (front \o back)[k] = IF k < i THEN s[k] ELSE s[k + 1]
  <2>1. CASE k < i
    BY <1>1, <1>2, <2>1
  <2>2. CASE k >= i
    <3>1. (front \o back)[k] = back[k - (i - 1)]
      BY <1>1, <1>2, <2>2
    <3>2. k - (i - 1) \in 1..(Len(s) - i)
      BY <2>2
    <3>3. back[k - (i - 1)] = s[k - (i - 1) + i]
      BY <1>2, <3>2
    <3>. QED
      BY <2>2, <3>1, <3>3
  <2>3. k < i \/ k >= i
    OBVIOUS
  <2>. QED
    BY <2>1, <2>2, <2>3
<1>. QED
  BY <1>3, <1>4, <1>5

\* Answers leave the others as they were: each was somewhere in the sequence.
LEMMA AnswerLeavesOthers ==
    ASSUME pending \in Seq(Requests), NEW i \in 1..Len(pending),
           pending' = RemoveAt(pending, i)
    PROVE  /\ pending' \in Seq(Requests)
           /\ \A k \in 1..Len(pending') : \E j \in 1..Len(pending) : pending'[k] = pending[j]
<1>1. /\ pending' \in Seq(Requests)
      /\ Len(pending') = Len(pending) - 1
      /\ \A k \in 1..(Len(pending) - 1) :
            pending'[k] = IF k < i THEN pending[k] ELSE pending[k + 1]
    BY RemoveAtEffect
<1>2. ASSUME NEW k \in 1..Len(pending')
      PROVE  \E j \in 1..Len(pending) : pending'[k] = pending[j]
    <2>1. k \in 1..Len(pending) /\ k + 1 \in 1..Len(pending)
        BY <1>1
    <2>2. pending'[k] = pending[k] \/ pending'[k] = pending[k + 1]
        BY <1>1
    <2>. QED
        BY <2>1, <2>2
<1>. QED
    BY <1>1, <1>2

\* What a request does to the two halves of the page it writes, and that what is
\* newest afterwards is the date it was sent for.
LEMMA RequestIsNewest ==
    ASSUME TypeOK, NEW date \in Moments, GetDataWithDate(date)
    PROVE  /\ pending' \in Seq(Requests)
           /\ grid' \in Requests \cup {NoGrid}
           /\ \A i \in 1..Len(pending') : pending'[i].newest => pending'[i].month = date.month
           /\ ~grid'.newest
<1>. DEFINE sent == [month |-> date.month, newest |-> TRUE]
            older == [i \in DOMAIN pending |-> Older(pending[i])]
<1>1. pending \in Seq(Requests) /\ DOMAIN pending = 1..Len(pending) /\ Len(pending) \in Nat
    BY DEF TypeOK
<1>2. sent \in Requests /\ sent.month = date.month
    BY DEF Moments, Requests
<1>3. ASSUME NEW q \in Requests PROVE Older(q) \in Requests /\ ~Older(q).newest
    BY DEF Older, Requests
<1>4. \A i \in 1..Len(pending) : pending[i] \in Requests
    BY <1>1
<1>5. \A i \in 1..Len(pending) : older[i] \in Requests /\ ~older[i].newest
    BY <1>1, <1>3, <1>4
<1>6. older \in Seq(Requests) /\ Len(older) = Len(pending)
    <2>1. older \in [1..Len(pending) -> Requests]
        BY <1>1, <1>5
    <2>. HIDE DEF older
    <2>. QED
        BY <1>1, <2>1
<1>7. pending' = Append(older, sent)
    BY DEF GetDataWithDate
<1>. HIDE DEF older, sent
<1>8. /\ pending' \in Seq(Requests)
      /\ Len(pending') = Len(pending) + 1
      /\ pending'[Len(pending) + 1] = sent
      /\ \A i \in 1..Len(pending) : pending'[i] = older[i]
    BY <1>1, <1>2, <1>6, <1>7
<1>9. ASSUME NEW i \in 1..Len(pending'), pending'[i].newest
      PROVE  pending'[i].month = date.month
    <2>1. i \in 1..Len(pending) \/ i = Len(pending) + 1
        BY <1>1, <1>8
    <2>2. i \notin 1..Len(pending)
        BY <1>5, <1>8, <1>9
    <2>. QED
        BY <1>2, <1>8, <2>1, <2>2
<1>10. grid' \in Requests \cup {NoGrid} /\ ~grid'.newest
    <2>1. grid' = Older(grid)
        BY DEF GetDataWithDate
    <2>2. CASE grid = NoGrid
        <3>1. grid' = NoGrid
            BY <2>1, <2>2 DEF NoGrid, Older
        <3>. QED
            BY <3>1 DEF NoGrid
    <2>3. CASE grid \in Requests
        BY <1>3, <2>1, <2>3
    <2>. QED
        BY <2>2, <2>3 DEF TypeOK
<1>. QED
    BY <1>8, <1>9, <1>10

\* The inductive invariant: NewestIsTitle compares records, so it needs TypeOK.
IInv == TypeOK /\ NewestIsTitle

LEMMA InitIInv == Init => IInv
<1>. SUFFICES ASSUME Init PROVE IInv
    OBVIOUS
<1>. USE CalendarAssumption
<1>1. now \in Moments
    BY DEF Init, Moments
<1>2. [month |-> now.month, newest |-> TRUE] \in Requests
    BY <1>1 DEF Moments, Requests
<1>3. nights \in 0..MaxNights /\ currentDate \in Moments
    BY <1>1 DEF Init
<1>4. pending \in Seq(Requests)
    BY <1>2 DEF Init
<1>5. /\ grid \in Requests \cup {NoGrid}
      /\ marked \in (Nat \X (1..31)) \cup {NoDay}
    BY DEF Init
<1>6. refreshing \in BOOLEAN /\ alertView \in BOOLEAN
    BY Zenon DEF Init
<1>7. TypeOK
    BY <1>1, <1>3, <1>4, <1>5, <1>6, Zenon DEF TypeOK
<1>8. NewestIsTitle
    BY DEF Init, NewestIsTitle, NoGrid
<1>. QED
    BY <1>7, <1>8 DEF IInv

\* A tap that changes the page: the date and its request change together.
LEMMA ShowStep ==
    ASSUME IInv, NEW date \in Moments, Show(date),
           UNCHANGED <<now, nights, marked, refreshing, alertView>>
    PROVE  IInv'
<1>. USE DEF IInv
<1>1. currentDate' = date /\ GetDataWithDate(date)
    BY DEF Show
<1>2. /\ pending' \in Seq(Requests)
      /\ grid' \in Requests \cup {NoGrid}
      /\ \A i \in 1..Len(pending') : pending'[i].newest => pending'[i].month = date.month
      /\ ~grid'.newest
    BY <1>1, RequestIsNewest
<1>3. TypeOK'
    BY <1>1, <1>2 DEF TypeOK
<1>4. NewestIsTitle'
    BY <1>1, <1>2 DEF NewestIsTitle
<1>. QED
    BY <1>3, <1>4

LEMMA StepIInv == IInv /\ [Next]_vars => IInv'
<1>. SUFFICES ASSUME IInv, [Next]_vars PROVE IInv'
    OBVIOUS
<1>. USE CalendarAssumption
<1>1. TypeOK /\ NewestIsTitle
    BY DEF IInv
<1>2. now \in Moments /\ currentDate \in Moments
    BY <1>1 DEF TypeOK
<1>3. CASE LaterToday
    <2>1. now' \in Moments
        BY <1>2, <1>3 DEF LaterToday, Moments
    <2>. QED
        BY <1>1, <1>3, <2>1 DEF LaterToday, IInv, TypeOK, NewestIsTitle
<1>4. CASE Midnight
    <2>1. MonthLength(now.month) \in 28..31 /\ now.month \in Nat /\ now.day \in 1..31
        BY <1>2, MonthLengthRange DEF Moments
    <2>2. PICK h \in Hours :
            now' = IF now.day < MonthLength(now.month)
                   THEN [now EXCEPT !.day = @ + 1, !.hour = h]
                   ELSE [month |-> now.month + 1, day |-> 1, hour |-> h]
        BY <1>4 DEF Midnight
    <2>3. now' \in Moments
        <3>1. h \in Nat
            OBVIOUS
        <3>2. CASE now.day < MonthLength(now.month)
            <4>1. now.day + 1 \in 1..31
                BY <2>1, <3>2
            <4>2. now' = [now EXCEPT !.day = now.day + 1, !.hour = h]
                BY <2>2, <3>2
            <4>. QED
                BY <1>2, <3>1, <4>1, <4>2 DEF Moments
        <3>3. CASE ~(now.day < MonthLength(now.month))
            BY <2>1, <2>2, <3>1, <3>3 DEF Moments
        <3>. QED
            BY <3>2, <3>3
    <2>4. nights' \in 0..MaxNights
        BY <1>1, <1>4 DEF Midnight, TypeOK
    <2>. QED
        BY <1>1, <1>4, <2>3, <2>4 DEF Midnight, IInv, TypeOK, NewestIsTitle
<1>5. CASE RightItemClick
    BY <1>2, <1>5, ShowStep DEF RightItemClick
<1>6. CASE LeftButtonClick
    <2>1. currentDate.month - 1 \in Nat
        BY <1>2, <1>6 DEF LeftButtonClick, Moments
    <2>2. FirstOf(currentDate.month - 1) \in Moments
        BY <2>1, FirstIsMoment
    <2>. QED
        BY <1>2, <1>6, <2>2, ShowStep DEF LeftButtonClick
<1>7. CASE RightButtonClick
    BY <1>2, <1>7, NextMonthIsMoment, ShowStep DEF RightButtonClick
<1>8. CASE PullDown
    <2>1. /\ pending' \in Seq(Requests)
          /\ grid' \in Requests \cup {NoGrid}
          /\ \A i \in 1..Len(pending') :
                pending'[i].newest => pending'[i].month = currentDate.month
          /\ ~grid'.newest
        BY <1>1, <1>2, <1>8, RequestIsNewest DEF PullDown
    <2>. QED
        BY <1>1, <1>8, <2>1 DEF PullDown, IInv, TypeOK, NewestIsTitle
<1>9. CASE ScrollGrid
    <2>1. marked' \in (Nat \X (1..31)) \cup {NoDay}
        BY <1>1, <1>9, DrawnTodayType DEF ScrollGrid
    <2>. QED
        BY <1>1, <1>9, <2>1 DEF ScrollGrid, IInv, TypeOK, NewestIsTitle
<1>10. ASSUME NEW i \in 1..Len(pending), pending' = RemoveAt(pending, i), currentDate' = currentDate
       PROVE  /\ pending' \in Seq(Requests)
              /\ \A k \in 1..Len(pending') :
                    pending'[k].newest => pending'[k].month = currentDate'.month
    <2>1. pending \in Seq(Requests)
        BY <1>1 DEF TypeOK
    <2>. QED
        BY <1>1, <1>10, <2>1, AnswerLeavesOthers DEF NewestIsTitle
<1>11. ASSUME NEW i \in 1..Len(pending), Answered(i) PROVE IInv'
    <2>1. pending[i] \in Requests
        BY <1>1 DEF TypeOK
    <2>2. /\ pending' = RemoveAt(pending, i) /\ refreshing' = FALSE
          /\ UNCHANGED <<now, nights, currentDate, alertView>>
        BY <1>11 DEF Answered, DataArrives, DataFails
    <2>3. grid' \in Requests \cup {NoGrid} /\ (grid'.newest => grid'.month = currentDate'.month)
        BY <1>1, <1>11, <2>1, <2>2 DEF Answered, DataArrives, DataFails, TypeOK, NewestIsTitle
    <2>4. marked' \in (Nat \X (1..31)) \cup {NoDay}
        <3>1. CASE DataArrives(i)
            BY <1>1, <3>1, DrawnTodayType DEF DataArrives
        <3>2. CASE DataFails(i)
            BY <1>1, <3>2 DEF DataFails, TypeOK
        <3>. QED
            BY <1>11, <3>1, <3>2 DEF Answered
    <2>5. TypeOK'
        BY <1>1, <1>10, <2>2, <2>3, <2>4 DEF TypeOK
    <2>6. NewestIsTitle'
        BY <1>10, <2>2, <2>3 DEF NewestIsTitle
    <2>. QED
        BY <2>5, <2>6 DEF IInv
<1>12. CASE TapDay
    BY <1>1, <1>12 DEF TapDay, IInv, TypeOK, NewestIsTitle
<1>13. CASE HiddenAlertView
    BY <1>1, <1>13 DEF HiddenAlertView, IInv, TypeOK, NewestIsTitle
<1>14. CASE UNCHANGED vars
    BY <1>1, <1>14 DEF vars, IInv, TypeOK, NewestIsTitle
<1>. QED
    BY <1>3, <1>4, <1>5, <1>6, <1>7, <1>8, <1>9, <1>10, <1>11, <1>12, <1>13, <1>14
    DEF Next

\* The page stays in what the variables mean; no arrow leaves the months that
\* exist, January 2019 being the first.
THEOREM TypeCorrect == Spec => []TypeOK
<1>. QED
    BY InitIInv, StepIInv, PTL DEF Spec, IInv

\* Whatever the order of taps, pulls and answers, what the newest request brings
\* is the month in the title: only an older answer can show another.
THEOREM NewestRequestIsTitle == Spec => []NewestIsTitle
<1>. QED
    BY InitIInv, StepIInv, PTL DEF Spec, IInv

-----------------------------------------------------------------------------
(* The limit of the right arrow.  It holds because the page's date is never   *)
(* past the clock within its month: whatever was tapped, its day and hour     *)
(* were the clock's at some earlier moment, or were clamped, or are those of  *)
(* a month's first day.  Kept open over midnights the page's day is behind    *)
(* the clock's until the clock comes to a new month; from then on, and from   *)
(* the 28th on, nothing is claimed.                                           *)

Early == nights = 0 \/ now.day \in (nights + 1)..27

\* The page's day and hour are the clock's or earlier.
Behind ==
    /\ currentDate.day <= now.day
    /\ currentDate.day = now.day => currentDate.hour <= now.hour

LInv ==
    /\ now.day <= MonthLength(now.month)
    /\ currentDate.day <= MonthLength(currentDate.month)
    /\ nights = 0 => currentDate.hour <= now.hour
    /\ Early => Behind
    /\ RightLimit

LEMMA InitLInv == Init => LInv
<1>. SUFFICES ASSUME Init PROVE LInv
    OBVIOUS
<1>1. now \in Start /\ currentDate = now /\ nights = 0
    BY DEF Init
<1>2. now.day <= MonthLength(now.month)
    BY <1>1, StartAssumption
<1>3. now \in Moments
    BY <1>1, CalendarAssumption DEF Moments
<1>4. now.month \in Nat /\ now.day \in Nat /\ now.hour \in Nat /\ Reach \in Nat
    BY <1>3, CalendarAssumption DEF Moments
<1>. QED
    BY <1>1, <1>2, <1>4 DEF LInv, Behind, RightLimit

\* What the arithmetic of the limit needs to know of a moment.
LEMMA MomentParts ==
    ASSUME NEW d \in Moments
    PROVE  d.month \in Nat /\ d.day \in 1..31 /\ d.hour \in Nat
BY DEF Moments

\* A month further, the day is clamped and the hour stays.
LEMMA NextMonthParts ==
    ASSUME NEW d \in Moments, NEW k \in Nat
    PROVE  /\ PlusMonths(d, k).month = d.month + k
           /\ PlusMonths(d, k).day = IF d.day > MonthLength(d.month + k)
                                     THEN MonthLength(d.month + k) ELSE d.day
           /\ PlusMonths(d, k).hour = d.hour
<1>. DEFINE last == MonthLength(d.month + k)
            day == IF d.day > last THEN last ELSE d.day
<1>1. PlusMonths(d, k) = [d EXCEPT !.month = d.month + k, !.day = day]
    BY DEF PlusMonths
<1>. HIDE DEF day
<1>2. /\ PlusMonths(d, k).month = d.month + k
      /\ PlusMonths(d, k).day = day
      /\ PlusMonths(d, k).hour = d.hour
    BY <1>1 DEF Moments
<1>. QED
    BY <1>2 DEF day

\* A page at the limit is counted as Reach months ahead, so the arrow is dead.
LEMMA LimitIsReach ==
    ASSUME IInv, LInv, Early, currentDate.month = now.month + Reach + 1
    PROVE  MonthsAhead(currentDate, Reach)
<1>. DEFINE near == PlusMonths(now, Reach)
            far == PlusMonths(now, Reach + 1)
            length == MonthLength(currentDate.month)
<1>1. now \in Moments /\ currentDate \in Moments /\ Reach \in Nat /\ Reach + 1 \in Nat
    BY CalendarAssumption DEF IInv, TypeOK
<1>2. /\ now.month \in Nat /\ now.day \in 1..31 /\ now.hour \in Nat
      /\ currentDate.month \in Nat /\ currentDate.day \in 1..31 /\ currentDate.hour \in Nat
    BY <1>1, MomentParts
<1>3. length \in 28..31
    BY <1>2, MonthLengthRange
<1>4. near.month = now.month + Reach
    BY <1>1, NextMonthParts
<1>5. Before(near, currentDate)
    BY <1>1, <1>2, <1>4 DEF Before
<1>6. /\ far.month = currentDate.month
      /\ far.day = IF now.day > length THEN length ELSE now.day
      /\ far.hour = now.hour
    <2>1. now.month + (Reach + 1) = currentDate.month
        BY <1>1, <1>2
    <2>. QED
        BY <1>1, <2>1, NextMonthParts
<1>7. currentDate.day <= length /\ currentDate.day <= now.day
    BY DEF LInv, Behind
<1>8. far.day = currentDate.day => currentDate.hour <= now.hour
    <2>1. CASE nights = 0
        BY <2>1 DEF LInv
    <2>2. CASE now.day <= 27
        BY <1>2, <1>3, <1>6, <2>2 DEF LInv, Behind
    <2>. QED
        BY <1>2, <2>1, <2>2 DEF Early, IInv, TypeOK
<1>. HIDE DEF far, near, length
<1>9. ~Before(far, currentDate)
    <2>1. currentDate.day <= far.day
        BY <1>2, <1>3, <1>6, <1>7
    <2>2. far.day \in Nat
        BY <1>2, <1>3, <1>6
    <2>. QED
        BY <1>2, <1>6, <1>8, <2>1, <2>2 DEF Before
<1>. QED
    BY <1>5, <1>9 DEF MonthsAhead, near, far

\* A tap that leaves the clock alone and shows a date behind it, within the limit.
LEMMA ShowLInv ==
    ASSUME LInv, NEW date, Show(date), UNCHANGED <<now, nights>>,
           date.day <= MonthLength(date.month),
           nights = 0 => date.hour <= now.hour,
           Early => /\ date.day <= now.day
                    /\ date.day = now.day => date.hour <= now.hour
                    /\ date.month <= now.month + Reach + 1
    PROVE  LInv'
<1>1. currentDate' = date /\ now' = now /\ nights' = nights
    BY DEF Show
<1>. QED
    BY <1>1 DEF LInv, Early, Behind, RightLimit

LEMMA StepLInv == IInv /\ LInv /\ [Next]_vars => LInv'
<1>. SUFFICES ASSUME IInv, LInv, [Next]_vars PROVE LInv'
    OBVIOUS
<1>1. now \in Moments /\ currentDate \in Moments /\ Reach \in Nat /\ nights \in Nat
    BY CalendarAssumption DEF IInv, TypeOK
<1>2. /\ now.month \in Nat /\ now.day \in 1..31 /\ now.hour \in Nat
      /\ currentDate.month \in Nat /\ currentDate.day \in 1..31 /\ currentDate.hour \in Nat
    BY <1>1, MomentParts
<1>3. CASE LaterToday
    <2>1. PICK h \in Hours : h > now.hour /\ now' = [now EXCEPT !.hour = h]
        BY <1>3 DEF LaterToday
    <2>2. h \in Nat /\ now'.month = now.month /\ now'.day = now.day /\ now'.hour = h
        BY <1>1, <2>1, CalendarAssumption DEF Moments
    <2>3. nights' = nights /\ currentDate' = currentDate
        BY <1>3 DEF LaterToday
    <2>. QED
        BY <1>1, <1>2, <2>1, <2>2, <2>3 DEF LInv, Early, Behind, RightLimit
<1>4. CASE Midnight
    <2>1. nights' = nights + 1 /\ currentDate' = currentDate
        BY <1>4 DEF Midnight
    <2>2. MonthLength(now.month) \in 28..31
        BY <1>2, MonthLengthRange
    <2>3. CASE now.day < MonthLength(now.month)
        <3>1. PICK h \in Hours : now' = [now EXCEPT !.day = now.day + 1, !.hour = h]
            BY <1>4, <2>3 DEF Midnight
        <3>2. now'.month = now.month /\ now'.day = now.day + 1
            BY <1>1, <3>1 DEF Moments
        <3>3. Early' => Early
            BY <1>1, <1>2, <2>1, <3>2 DEF Early
        <3>4. now'.day <= MonthLength(now'.month)
            BY <1>2, <2>2, <2>3, <3>2
        <3>5. Early => currentDate'.day < now'.day
            BY <1>2, <2>1, <3>2 DEF LInv, Behind
        <3>6. nights' # 0
            BY <1>1, <2>1
        <3>7. RightLimit'
            BY <1>2, <2>1, <3>2, <3>3 DEF LInv, Early, RightLimit
        <3>. QED
            BY <1>2, <2>1, <3>2, <3>3, <3>4, <3>5, <3>6, <3>7 DEF LInv, Behind
    <2>4. CASE ~(now.day < MonthLength(now.month))
        <3>1. PICK h \in Hours : now' = [month |-> now.month + 1, day |-> 1, hour |-> h]
            BY <1>4, <2>4 DEF Midnight
        <3>2. now'.month = now.month + 1 /\ now'.day = 1
            BY <3>1
        <3>3. ~Early'
            BY <1>1, <2>1, <3>2 DEF Early
        <3>4. MonthLength(now'.month) \in 28..31
            BY <1>2, <3>2, MonthLengthRange
        <3>5. nights' # 0
            BY <1>1, <2>1
        <3>6. RightLimit'
            BY <3>3 DEF RightLimit, Early
        <3>. QED
            BY <2>1, <3>2, <3>3, <3>4, <3>5, <3>6 DEF LInv
    <2>. QED
        BY <2>3, <2>4
<1>5. ASSUME Show(now), UNCHANGED <<now, nights>> PROVE LInv'
    <2>1. now.month <= now.month + Reach + 1
        BY <1>1, <1>2
    <2>. QED
        BY <1>2, <1>5, <2>1, ShowLInv DEF LInv
<1>6. CASE RightItemClick
    BY <1>5, <1>6 DEF RightItemClick
<1>7. CASE LeftButtonClick
    <2>. DEFINE month == currentDate.month - 1
    <2>1. month \in Nat
        BY <1>2, <1>7 DEF LeftButtonClick
    <2>2. CASE month = now.month
        BY <1>5, <1>7, <2>2 DEF LeftButtonClick
    <2>3. CASE month # now.month
        <3>1. Show(FirstOf(month))
            BY <1>7, <2>3 DEF LeftButtonClick
        <3>2. /\ FirstOf(month).day = 1 /\ FirstOf(month).hour = 0
              /\ FirstOf(month).month = month
            BY DEF FirstOf
        <3>3. MonthLength(month) \in 28..31
            BY <2>1, MonthLengthRange
        <3>4. Early => month <= now.month + Reach + 1
            BY <1>1, <1>2 DEF LInv, Early, RightLimit
        <3>5. UNCHANGED <<now, nights>>
            BY <1>7 DEF LeftButtonClick
        <3>. HIDE DEF month
        <3>. QED
            BY <1>2, <3>1, <3>2, <3>3, <3>4, <3>5, ShowLInv
    <2>. QED
        BY <2>2, <2>3
<1>8. CASE RightButtonClick
    <2>. DEFINE next == PlusMonths(currentDate, 1)
                length == MonthLength(currentDate.month + 1)
    <2>1. /\ next.month = currentDate.month + 1
          /\ next.day = IF currentDate.day > length THEN length ELSE currentDate.day
          /\ next.hour = currentDate.hour
        BY <1>1, NextMonthParts
    <2>2. length \in 28..31
        BY <1>2, MonthLengthRange
    <2>3. Show(next) /\ UNCHANGED <<now, nights>> /\ ~MonthsAhead(currentDate, Reach)
        BY <1>8 DEF RightButtonClick
    <2>4. Early => currentDate.month # now.month + Reach + 1
        BY <2>3, LimitIsReach
    <2>5. Early => currentDate.month <= now.month + Reach + 1
        BY DEF LInv, Early, RightLimit
    <2>6. MonthLength(next.month) = length
        BY <2>1
    <2>. HIDE DEF next, length
    <2>7. next.day <= MonthLength(next.month)
        BY <1>2, <2>1, <2>2, <2>6
    <2>8. nights = 0 => next.hour <= now.hour
        BY <2>1 DEF LInv
    <2>9. Early => /\ next.day <= now.day
                   /\ next.day = now.day => next.hour <= now.hour
        BY <1>2, <2>1, <2>2 DEF LInv, Behind
    <2>10. Early => next.month <= now.month + Reach + 1
        BY <1>1, <1>2, <2>1, <2>4, <2>5
    <2>. QED
        BY <2>3, <2>7, <2>8, <2>9, <2>10, ShowLInv
<1>9. ASSUME UNCHANGED <<now, nights, currentDate>> PROVE LInv'
    BY <1>9 DEF LInv, Early, Behind, RightLimit
<1>10. CASE PullDown
    BY <1>9, <1>10 DEF PullDown
<1>11. CASE ScrollGrid \/ TapDay \/ HiddenAlertView
    BY <1>9, <1>11 DEF ScrollGrid, TapDay, HiddenAlertView
<1>12. ASSUME NEW i \in 1..Len(pending), Answered(i) PROVE LInv'
    BY <1>9, <1>12 DEF Answered, DataArrives, DataFails
<1>13. CASE UNCHANGED vars
    BY <1>9, <1>13 DEF vars
<1>. QED
    BY <1>3, <1>4, <1>6, <1>7, <1>8, <1>10, <1>11, <1>12, <1>13 DEF Next

\* rightButtonClick never goes further than the month after the Reach it counts,
\* on a page opened today, or earlier this month and before the 28th, whatever
\* the lengths of the months it pages through.
THEOREM RightLimitAlways == Spec => []RightLimit
<1>1. Init => IInv /\ LInv
    BY InitIInv, InitLInv
<1>2. IInv /\ LInv /\ [Next]_vars => IInv' /\ LInv'
    BY StepIInv, StepLInv
<1>3. LInv => RightLimit
    BY DEF LInv
<1>. QED
    BY <1>1, <1>2, <1>3, PTL DEF Spec

-----------------------------------------------------------------------------
(* The mark.  While the month of the opening lasts, the page's date is, in    *)
(* this month, the first or a day since the opening, and in an earlier month  *)
(* the first: so an arrow that comes back to this month finds one of those.   *)

SameMonth == now.day > nights

DateIsRecent ==
    SameMonth => /\ currentDate.month < now.month => currentDate.day = 1
                 /\ currentDate.month = now.month => Recent(currentDate.day)

MInv == MarkIsRecent /\ DateIsRecent

\* The page opens on the clock's day, with nothing marked.
LEMMA InitMInv == Init => MInv
<1>. SUFFICES ASSUME Init PROVE MInv
    OBVIOUS
<1>1. now \in Moments /\ currentDate = now /\ nights = 0 /\ marked = NoDay
    BY CalendarAssumption DEF Init, Moments
<1>2. now.month \in Nat /\ now.day \in 1..31
    BY <1>1, MomentParts
<1>3. DateIsRecent
    BY <1>1, <1>2 DEF DateIsRecent, Recent
<1>. QED
    BY <1>1, <1>3 DEF MInv, MarkIsRecent

\* What a cell is drawn with is recent, because the page's date is.
LEMMA DrawnIsRecent ==
    ASSUME DateIsRecent, NEW month, marked' \in DrawnToday(month),
           UNCHANGED <<now, nights, currentDate>>
    PROVE  MInv'
<1>1. \/ marked' = NoDay
      \/ /\ currentDate.month = now.month
         /\ marked' = <<currentDate.month, currentDate.day>>
    BY DEF DrawnToday
<1>2. marked' # NoDay => /\ marked'[1] = now.month
                         /\ marked'[2] = currentDate.day
                         /\ currentDate.month = now.month
    BY <1>1
<1>3. MarkIsRecent'
    BY <1>2 DEF MarkIsRecent, DateIsRecent, SameMonth, Recent
<1>4. DateIsRecent'
    BY DEF DateIsRecent, SameMonth, Recent
<1>. QED
    BY <1>3, <1>4 DEF MInv

\* A tap that shows a date which is recent leaves the mark as it was drawn.
LEMMA ShowMInv ==
    ASSUME MInv, NEW date, Show(date), UNCHANGED <<now, nights, marked>>,
           SameMonth => /\ date.month < now.month => date.day = 1
                        /\ date.month = now.month => Recent(date.day)
    PROVE  MInv'
<1>1. currentDate' = date
    BY DEF Show
<1>2. MarkIsRecent'
    BY DEF MInv, MarkIsRecent, Recent
<1>3. DateIsRecent'
    BY <1>1 DEF DateIsRecent, SameMonth, Recent
<1>. QED
    BY <1>2, <1>3 DEF MInv

\* A midnight within the month adds a day to those since the opening.
LEMMA RecentGrows ==
    ASSUME NEW today \in Nat, NEW n \in Nat, NEW day \in (today - n)..today
    PROVE  day \in ((today + 1) - (n + 1))..(today + 1)
OBVIOUS

\* Within the month of the opening the days since it grow with the clock; in the
\* next nothing is claimed.
LEMMA MidnightMInv == IInv /\ MInv /\ Midnight => MInv'
<1>. SUFFICES ASSUME IInv, MInv, Midnight PROVE MInv'
    OBVIOUS
<1>1. now \in Moments /\ nights \in Nat
    BY CalendarAssumption DEF IInv, TypeOK
<1>2. now.month \in Nat /\ now.day \in 1..31
    BY <1>1, MomentParts
<1>3. nights' = nights + 1 /\ currentDate' = currentDate /\ marked' = marked
    BY DEF Midnight
<1>4. CASE now.day < MonthLength(now.month)
    <2>1. PICK h \in Hours : now' = [now EXCEPT !.day = now.day + 1, !.hour = h]
        BY <1>4 DEF Midnight
    <2>2. now'.month = now.month /\ now'.day = now.day + 1
        BY <1>1, <2>1 DEF Moments
    <2>3. SameMonth' => SameMonth
        BY <1>1, <1>2, <1>3, <2>2 DEF SameMonth
    <2>4. ASSUME NEW day, Recent(day) PROVE Recent(day)'
        BY <1>1, <1>2, <1>3, <2>2, <2>4 DEF Recent
    <2>5. MarkIsRecent'
        BY <1>3, <2>2, <2>3, <2>4 DEF MInv, MarkIsRecent, SameMonth
    <2>6. DateIsRecent'
        BY <1>3, <2>2, <2>3, <2>4 DEF MInv, DateIsRecent
    <2>. QED
        BY <2>5, <2>6 DEF MInv
<1>5. CASE ~(now.day < MonthLength(now.month))
    <2>1. PICK h \in Hours : now' = [month |-> now.month + 1, day |-> 1, hour |-> h]
        BY <1>5 DEF Midnight
    <2>2. ~(now'.day > nights')
        BY <1>1, <1>3, <2>1
    <2>. QED
        BY <2>2 DEF MInv, MarkIsRecent, DateIsRecent, SameMonth
<1>. QED
    BY <1>4, <1>5

\* The arrows keep the page on the first, or bring it back to the clock's day.
LEMMA StepMInv == IInv /\ MInv /\ [Next]_vars => MInv'
<1>. SUFFICES ASSUME IInv, MInv, [Next]_vars PROVE MInv'
    OBVIOUS
<1>1. now \in Moments /\ currentDate \in Moments /\ nights \in Nat
    BY CalendarAssumption DEF IInv, TypeOK
<1>2. /\ now.month \in Nat /\ now.day \in 1..31
      /\ currentDate.month \in Nat /\ currentDate.day \in 1..31
    BY <1>1, MomentParts
<1>3. DateIsRecent
    BY DEF MInv
<1>4. ASSUME UNCHANGED <<now, nights, currentDate, marked>> PROVE MInv'
    BY <1>4 DEF MInv, MarkIsRecent, DateIsRecent, SameMonth, Recent
<1>5. CASE LaterToday
    <2>1. PICK h \in Hours : now' = [now EXCEPT !.hour = h]
        BY <1>5 DEF LaterToday
    <2>2. now'.month = now.month /\ now'.day = now.day
        BY <1>1, <2>1 DEF Moments
    <2>3. nights' = nights /\ currentDate' = currentDate /\ marked' = marked
        BY <1>5 DEF LaterToday
    <2>. QED
        BY <2>2, <2>3 DEF MInv, MarkIsRecent, DateIsRecent, SameMonth, Recent
<1>6. CASE Midnight
    BY <1>6, MidnightMInv
<1>7. ASSUME Show(now), UNCHANGED <<now, nights, marked>> PROVE MInv'
    <2>1. ~(now.month < now.month)
        BY <1>2
    <2>2. Recent(now.day)
        BY <1>1, <1>2 DEF Recent
    <2>. QED
        BY <1>7, <2>1, <2>2, ShowMInv
<1>8. CASE RightItemClick
    BY <1>7, <1>8 DEF RightItemClick
<1>9. CASE LeftButtonClick
    <2>. DEFINE month == currentDate.month - 1
    <2>1. UNCHANGED <<now, nights, marked>>
        BY <1>9 DEF LeftButtonClick
    <2>2. CASE month = now.month
        BY <1>7, <1>9, <2>1, <2>2 DEF LeftButtonClick
    <2>3. CASE month # now.month
        <3>1. Show(FirstOf(month))
            BY <1>9, <2>3 DEF LeftButtonClick
        <3>2. FirstOf(month).day = 1
            BY DEF FirstOf
        <3>3. Recent(FirstOf(month).day)
            BY <3>2 DEF Recent
        <3>. HIDE DEF month
        <3>. QED
            BY <2>1, <3>1, <3>2, <3>3, ShowMInv
    <2>. QED
        BY <2>2, <2>3
<1>10. CASE RightButtonClick
    <2>. DEFINE next == PlusMonths(currentDate, 1)
                length == MonthLength(currentDate.month + 1)
    <2>1. /\ next.month = currentDate.month + 1
          /\ next.day = IF currentDate.day > length THEN length ELSE currentDate.day
        BY <1>1, NextMonthParts
    <2>2. length \in 28..31
        BY <1>2, MonthLengthRange
    <2>3. Show(next) /\ UNCHANGED <<now, nights, marked>>
        BY <1>10 DEF RightButtonClick
    <2>. HIDE DEF next, length
    <2>4. currentDate.day = 1 => next.day = 1
        BY <2>1, <2>2
    <2>5. next.month <= now.month => currentDate.month < now.month
        BY <1>2, <2>1
    <2>6. SameMonth /\ next.month <= now.month => next.day = 1
        BY <1>3, <2>4, <2>5 DEF DateIsRecent
    <2>7. SameMonth /\ next.month < now.month => next.day = 1
        BY <1>2, <2>1, <2>6
    <2>8. SameMonth /\ next.month = now.month => Recent(next.day)
        BY <1>2, <2>1, <2>6 DEF Recent
    <2>. QED
        BY <2>3, <2>7, <2>8, ShowMInv
<1>11. CASE PullDown
    BY <1>4, <1>11 DEF PullDown
<1>12. CASE ScrollGrid
    BY <1>3, <1>12, DrawnIsRecent DEF ScrollGrid
<1>13. CASE TapDay \/ HiddenAlertView
    BY <1>4, <1>13 DEF TapDay, HiddenAlertView
<1>14. ASSUME NEW i \in 1..Len(pending), DataArrives(i) PROVE MInv'
    BY <1>3, <1>14, DrawnIsRecent DEF DataArrives
<1>15. ASSUME NEW i \in 1..Len(pending), DataFails(i) PROVE MInv'
    BY <1>4, <1>15 DEF DataFails
<1>16. CASE UNCHANGED vars
    BY <1>4, <1>16 DEF vars
<1>. QED
    BY <1>5, <1>6, <1>8, <1>9, <1>10, <1>11, <1>12, <1>13, <1>14, <1>15, <1>16
    DEF Next, Answered

\* The wrong mark is bounded: while the month of the opening lasts, a cell drawn
\* as today's is the first of this month or a day since the opening, whatever the
\* arrows, the answers and the midnights did (cellForItem, leftButtonClick).
THEOREM MarkIsRecentAlways == Spec => []MarkIsRecent
<1>1. Init => IInv /\ MInv
    BY InitIInv, InitMInv
<1>2. IInv /\ MInv /\ [Next]_vars => IInv' /\ MInv'
    BY StepIInv, StepMInv
<1>3. MInv => MarkIsRecent
    BY DEF MInv
<1>. QED
    BY <1>1, <1>2, <1>3, PTL DEF Spec

-----------------------------------------------------------------------------
(* The header.                                                                *)

\* After a request there is one under way, for whatever date it was sent.
LEMMA RequestIsPending ==
    ASSUME pending \in Seq(Requests), NEW date, GetDataWithDate(date)
    PROVE  pending' # <<>>
<1>. DEFINE older == [i \in DOMAIN pending |-> Older(pending[i])]
            sent == [month |-> date.month, newest |-> TRUE]
            S == {older[i] : i \in 1..Len(pending)} \cup {sent}
<1>1. older \in [1..Len(pending) -> S] /\ Len(pending) \in Nat
    OBVIOUS
<1>2. pending' = Append(older, sent) /\ sent \in S
    BY DEF GetDataWithDate
<1>. HIDE DEF older, sent, S
<1>3. older \in Seq(S)
    BY <1>1
<1>4. Len(Append(older, sent)) = Len(older) + 1 /\ Len(older) \in Nat
    BY <1>2, <1>3
<1>. QED
    BY <1>2, <1>4

LEMMA InitPulls == Init => Pull!Init
<1>. SUFFICES ASSUME Init PROVE Pull!Init
    OBVIOUS
<1>1. pending # <<>> /\ refreshing = TRUE
    BY DEF Init
<1>. QED
    BY <1>1 DEF Pull!Init

\* A tap or a pull asks, an answer answers, everything else stutters.
LEMMA StepPulls == TypeOK /\ [Next]_vars => [Pull!Next]_(Pull!pullVars)
<1>. SUFFICES ASSUME TypeOK, [Next]_vars PROVE [Pull!Next]_(Pull!pullVars)
    OBVIOUS
<1>1. ASSUME NEW date, GetDataWithDate(date), refreshing' = refreshing \/ refreshing' = TRUE
      PROVE  Pull!Ask
    <2>1. pending' # <<>>
        BY <1>1, RequestIsPending DEF TypeOK
    <2>. QED
        BY <1>1, <2>1 DEF Pull!Ask
<1>2. CASE RightItemClick \/ LeftButtonClick \/ RightButtonClick
    <2>1. PICK date : Show(date)
        BY <1>2 DEF RightItemClick, LeftButtonClick, RightButtonClick
    <2>2. refreshing' = refreshing
        BY <1>2 DEF RightItemClick, LeftButtonClick, RightButtonClick
    <2>. QED
        BY <1>1, <2>1, <2>2 DEF Show, Pull!Next
<1>3. CASE PullDown
    BY <1>1, <1>3 DEF PullDown, Pull!Next
<1>4. ASSUME NEW i \in 1..Len(pending), Answered(i) PROVE Pull!Answered
    <2>1. pending # <<>> /\ refreshing' = FALSE /\ (pending' # <<>>) \in BOOLEAN
        BY <1>4 DEF Answered, DataArrives, DataFails
    <2>. QED
        BY <2>1 DEF Pull!Answered
<1>5. ASSUME UNCHANGED <<pending, refreshing>> PROVE UNCHANGED Pull!pullVars
    BY <1>5 DEF Pull!pullVars
<1>6. CASE LaterToday \/ Midnight \/ ScrollGrid \/ TapDay \/ HiddenAlertView
    BY <1>5, <1>6 DEF LaterToday, Midnight, ScrollGrid, TapDay, HiddenAlertView
<1>7. CASE UNCHANGED vars
    BY <1>5, <1>7 DEF vars
<1>. QED
    BY <1>2, <1>3, <1>4, <1>6, <1>7 DEF Next, Pull!Next

\* The calendar's header is PullRefresh's, its liveness apart: it turns only
\* while a request is under way, and only an answer hides it.
THEOREM HeaderIsPull == Spec => Pull!Safety
<1>. QED
    BY InitPulls, StepPulls, TypeCorrect, PTL DEF Spec, Pull!Safety
=============================================================================
