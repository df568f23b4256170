-------------------------- MODULE FirstInfoProofs --------------------------
(***************************************************************************)
(* FirstInfo, for every set of rows, every number of segments and every    *)
(* bound on taps, refreshes and requests.                                  *)
(***************************************************************************)
EXTENDS FirstInfo, TLAPS

\* Nothing is stored or requested under a date that was not made yet: without
\* this a refresh or a tap could make a date whose reading is already there.
KeysAreMade ==
    \A k \in Kinds : \A date \in Dates :
        date \in cache[k] \/ pending[k][date] > 0 => date \in Made

\* The menu shows a refresh that took place.
CurrentIsMade == current[1] <= gen

IInv ==
    /\ TypeOK
    /\ KeysAreMade
    /\ CurrentIsMade
    /\ RowsShowSelected
    /\ MenuFollowsToday

-----------------------------------------------------------------------------
(* Lemmas about the dates and the requests.                                  *)

\* The dates the page computes with are dates of the model.
LEMMA DatesTyped ==
    ASSUME TypeOK
    PROVE  /\ \A index \in 0..Days : DateOf(index) \in Dates
           /\ Selected \in Dates
           /\ NowDate \in Dates
           /\ NoDate \in Dates
           /\ Made \subseteq Dates
<1> USE BoundAssumption
<1>1. ASSUME NEW index \in 0..Days PROVE DateOf(index) \in Dates
  <2>1. CASE index = 0
    BY <2>1 DEF TypeOK, Dates, DateOf
  <2>2. CASE index # 0
    BY <2>2 DEF TypeOK, Dates, DateOf
  <2>3. QED
    BY <2>1, <2>2
<1>2. Selected \in Dates
  BY <1>1 DEF Selected, TypeOK
<1>3. NowDate \in Dates /\ NoDate \in Dates
  BY DEF TypeOK, Dates, NowDate, NoDate
<1>4. QED
  BY <1>1, <1>2, <1>3 DEF Made

\* A request is added for the date and the readings asked, and for no other.
LEMMA AskEffect ==
    ASSUME TypeOK, NEW kinds \in SUBSET Kinds, NEW date \in Dates, Ask(kinds, date)
    PROVE  /\ pending' \in [Kinds -> [Dates -> Nat]]
           /\ \A k \in kinds : pending'[k][date] > 0
           /\ \A k \in Kinds, d \in Dates :
                /\ pending'[k][d] >= pending[k][d]
                /\ pending'[k][d] > 0 => pending[k][d] > 0 \/ (k \in kinds /\ d = date)
<1>1. \A k \in Kinds : pending[k] \in [Dates -> Nat]
  BY DEF TypeOK
<1>2. \A k \in Kinds :
        pending'[k] = IF k \in kinds THEN [pending[k] EXCEPT ![date] = @ + 1] ELSE pending[k]
  BY DEF Ask
<1>3. ASSUME NEW k \in Kinds PROVE pending'[k] \in [Dates -> Nat]
  <2>1. CASE k \in kinds
    <3>1. pending[k] \in [Dates -> Nat] /\ pending[k][date] + 1 \in Nat
      BY <1>1
    <3>2. pending'[k] = [pending[k] EXCEPT ![date] = @ + 1]
      BY <1>2, <2>1
    <3>3. QED
      BY <3>1, <3>2
  <2>2. CASE k \notin kinds
    BY <1>1, <1>2, <2>2
  <2>3. QED
    BY <2>1, <2>2
<1>4. pending' \in [Kinds -> [Dates -> Nat]]
  BY <1>3 DEF Ask
<1>5. ASSUME NEW k \in Kinds, NEW d \in Dates
      PROVE  pending'[k][d] = pending[k][d] + (IF k \in kinds /\ d = date THEN 1 ELSE 0)
  <2>1. pending[k] \in [Dates -> Nat] /\ pending[k][d] \in Nat
    BY <1>1
  <2>2. CASE k \in kinds
    <3>1. pending'[k] = [pending[k] EXCEPT ![date] = @ + 1]
      BY <1>2, <2>2
    <3>2. pending'[k][d] = IF d = date THEN pending[k][d] + 1 ELSE pending[k][d]
      BY <2>1, <3>1
    <3>3. QED
      BY <2>1, <2>2, <3>2
  <2>3. CASE k \notin kinds
    <3>1. pending'[k] = pending[k]
      BY <1>2, <2>3
    <3>2. QED
      BY <2>1, <2>3, <3>1
  <2>4. QED
    BY <2>2, <2>3
<1>6. \A k \in Kinds, d \in Dates : pending[k][d] \in Nat
  BY <1>1
<1>7. QED
  BY <1>4, <1>5, <1>6

\* An answer takes one request away.
LEMMA AnswerEffect ==
    ASSUME TypeOK, NEW k \in Kinds, NEW date \in Dates, Answer(k, date)
    PROVE  /\ pending' \in [Kinds -> [Dates -> Nat]]
           /\ pending[k][date] > 0
           /\ pending'[k][date] < pending[k][date]
           /\ \A j \in Kinds, d \in Dates :
                /\ pending'[j][d] <= pending[j][d]
                /\ j # k \/ d # date => pending'[j][d] = pending[j][d]
<1>1. pending \in [Kinds -> [Dates -> Nat]] /\ pending[k][date] \in Nat \ {0}
  BY DEF TypeOK, Answer
<1>2. pending' = [pending EXCEPT ![k][date] = @ - 1]
  BY DEF Answer
<1>3. pending' \in [Kinds -> [Dates -> Nat]]
  <2>1. pending[k] \in [Dates -> Nat] /\ pending[k][date] - 1 \in Nat
    BY <1>1
  <2>2. [pending[k] EXCEPT ![date] = @ - 1] \in [Dates -> Nat]
    BY <2>1
  <2>3. pending' = [pending EXCEPT ![k] = [pending[k] EXCEPT ![date] = @ - 1]]
    BY <1>2
  <2>4. QED
    BY <1>1, <2>2, <2>3
<1>4. \A j \in Kinds, d \in Dates :
        pending'[j][d] = IF j = k /\ d = date THEN pending[j][d] - 1 ELSE pending[j][d]
  BY <1>1, <1>2
<1>5. \A j \in Kinds, d \in Dates : pending[j][d] \in Nat
  BY <1>1
<1>6. QED
  BY <1>1, <1>3, <1>4, <1>5

\* A row is rendered with a date of the model, with the selected one if known.
LEMMA RowTextEffect ==
    ASSUME TypeOK, NEW k, NEW known
    PROVE  /\ RowText(k, known) \subseteq Dates
           /\ Selected \in known => RowText(k, known) = {Selected}
  BY DatesTyped DEF RowText

\* Time passes: what was made stays made.
LEMMA MadeGrows ==
    ASSUME TypeOK, TypeOK', gen' >= gen, live' >= live
    PROVE  Made \subseteq Made'
  BY BoundAssumption DEF TypeOK, Made, Dates

-----------------------------------------------------------------------------

\* The inductive invariant holds initially.
LEMMA InitIInv == Init => IInv
<1> SUFFICES ASSUME Init PROVE IInv
  OBVIOUS
<1>1. TypeOK
  <2>1. 0 \in 0..MaxRefresh /\ 0 \in 0..MaxLive /\ 1 \in 0..Days /\ NoDate \in Dates
    BY BoundAssumption DEF NoDate, Dates
  <2>2. QED
    BY <2>1 DEF Init, TypeOK
<1>2. KeysAreMade /\ RowsShowSelected /\ MenuFollowsToday
  BY DEF Init, KeysAreMade, RowsShowSelected, MenuFollowsToday, Kinds
<1>3. CurrentIsMade
  BY DEF Init, CurrentIsMade, NoDate
<1>4. QED
  BY <1>1, <1>2, <1>3 DEF IInv

\* A refresh: the dictionaries are empty and what is selected is requested.
LEMMA RefreshIInv ==
    ASSUME IInv, NEW pulled \in BOOLEAN, StartWeatherInfoRequest(pulled)
    PROVE  /\ IInv'
           /\ \A k \in Kinds : Asked(k)'
           /\ current' = current
<1> USE BoundAssumption
<1> DEFINE lastDate == IF lastIndex = 0 THEN <<live, 0>> ELSE <<gen + 1, lastIndex>>
<1>1. TypeOK /\ KeysAreMade /\ CurrentIsMade
  BY DEF IInv
<1>2. /\ gen' = gen + 1 /\ gen' \in 0..MaxRefresh
      /\ cache' = [k \in Kinds |-> {}]
      /\ spinner' \in BOOLEAN
      /\ UNCHANGED <<live, lastIndex, shown, current>>
      /\ Ask(Kinds, lastDate)
  BY <1>1 DEF StartWeatherInfoRequest, TypeOK
<1>3. lastDate = Selected'
  BY <1>2 DEF Selected, DateOf
<1>4. lastDate \in Dates
  BY <1>1, <1>2 DEF TypeOK, Dates
<1> HIDE DEF lastDate
<1>5. /\ pending' \in [Kinds -> [Dates -> Nat]]
      /\ \A k \in Kinds : pending'[k][lastDate] > 0
      /\ \A k \in Kinds, d \in Dates :
            pending'[k][d] > 0 => pending[k][d] > 0 \/ d = lastDate
  BY <1>1, <1>2, <1>4, AskEffect
<1>6. TypeOK'
  BY <1>1, <1>2, <1>5 DEF TypeOK
<1>7. Made \subseteq Made'
  BY <1>1, <1>2, <1>6, MadeGrows DEF TypeOK
<1>8. lastDate \in Made'
  BY <1>1, <1>2, <1>3, <1>4 DEF Made, Selected, DateOf, TypeOK
<1>9. KeysAreMade'
  BY <1>1, <1>2, <1>5, <1>7, <1>8 DEF KeysAreMade
<1>10. CurrentIsMade'
  BY <1>1, <1>2 DEF CurrentIsMade, TypeOK, Dates
<1>11. RowsShowSelected' /\ MenuFollowsToday'
  BY <1>2 DEF RowsShowSelected, MenuFollowsToday, Kinds
<1>12. \A k \in Kinds : Asked(k)'
  BY <1>3, <1>5 DEF Asked
<1>13. QED
  BY <1>2, <1>6, <1>9, <1>10, <1>11, <1>12 DEF IInv

\* A tap on the live segment makes a date that no reading has yet.
LEMMA LiveClickIInv ==
    ASSUME IInv, LiveClick
    PROVE  /\ IInv'
           /\ \A k \in Kinds : Asked(k)'
           /\ current' = current
<1> USE BoundAssumption
<1> DEFINE date == <<live + 1, 0>>
<1>1. TypeOK /\ KeysAreMade /\ CurrentIsMade /\ MenuFollowsToday
  BY DEF IInv
<1>2. /\ lastIndex' = 0 /\ lastIndex' \in 0..Days
      /\ live' = live + 1 /\ live' \in 0..MaxLive
      /\ UNCHANGED <<gen, cache, shown, current, spinner>>
      /\ Ask(Kinds, date)
  BY <1>1 DEF LiveClick, TypeOK
<1>3. date = Selected'
  BY <1>2 DEF Selected, DateOf
<1>4. date \in Dates /\ date \notin Made
  BY <1>1, <1>2 DEF TypeOK, Dates, Made
<1> HIDE DEF date
<1>5. /\ pending' \in [Kinds -> [Dates -> Nat]]
      /\ \A k \in Kinds : pending'[k][date] > 0
      /\ \A k \in Kinds, d \in Dates :
            pending'[k][d] > 0 => pending[k][d] > 0 \/ d = date
  BY <1>1, <1>2, <1>4, AskEffect
<1>6. TypeOK'
  BY <1>1, <1>2, <1>5 DEF TypeOK
<1>7. Made \subseteq Made'
  BY <1>1, <1>2, <1>6, MadeGrows DEF TypeOK
<1>8. date \in Made'
  BY <1>1, <1>2, <1>3, <1>4 DEF Made, Selected, DateOf, TypeOK
<1>9. KeysAreMade'
  BY <1>1, <1>2, <1>5, <1>7, <1>8 DEF KeysAreMade
<1>10. CurrentIsMade' /\ MenuFollowsToday'
  BY <1>1, <1>2 DEF CurrentIsMade, MenuFollowsToday, NowDate
<1>11. RowsShowSelected'
  BY <1>1, <1>2, <1>3, <1>4 DEF RowsShowSelected, KeysAreMade, Kinds
<1>12. \A k \in Kinds : Asked(k)'
  BY <1>3, <1>5 DEF Asked
<1>13. QED
  BY <1>2, <1>6, <1>9, <1>10, <1>11, <1>12 DEF IInv

\* A tap on a day: what is known is shown, the rest is requested.
LEMMA DayClickIInv ==
    ASSUME IInv, NEW index \in 1..Days, DayClick(index)
    PROVE  /\ IInv'
           /\ \A k \in Kinds : Asked(k)'
           /\ current' = current
<1> USE BoundAssumption
<1> DEFINE date == DateOf(index)
           missing == {k \in Kinds : date \notin cache[k]}
<1>1. TypeOK /\ KeysAreMade /\ CurrentIsMade /\ MenuFollowsToday
  BY DEF IInv
<1>2. /\ lastIndex' = index /\ index \in 0..Days
      /\ UNCHANGED <<gen, live, cache, current, spinner>>
      /\ shown' = [k \in Kinds |-> IF k \in missing THEN shown[k] ELSE date]
      /\ Ask(missing, date)
  BY DEF DayClick
<1>3. date = Selected'
  BY <1>2 DEF Selected, DateOf
<1>4. date \in Dates
  BY <1>1, <1>2, DatesTyped
<1>5. date \in Made'
  <2>1. date = <<gen, index>> /\ index # 0
    BY DEF DateOf
  <2>2. date[1] = gen /\ date[2] # 0 /\ gen' = gen /\ gen <= gen
    BY <1>1, <1>2, <2>1 DEF TypeOK
  <2>3. QED
    BY <1>4, <2>2 DEF Made
<1>6. \A k \in Kinds : k \notin missing <=> date \in cache[k]
  OBVIOUS
<1>7. missing \in SUBSET Kinds
  OBVIOUS
<1> HIDE DEF date, missing
<1>8. /\ pending' \in [Kinds -> [Dates -> Nat]]
      /\ \A k \in missing : pending'[k][date] > 0
      /\ \A k \in Kinds, d \in Dates :
            pending'[k][d] > 0 => pending[k][d] > 0 \/ d = date
  BY <1>1, <1>2, <1>4, <1>7, AskEffect
<1>9. shown' \in [Kinds -> Dates]
  BY <1>1, <1>2, <1>4 DEF TypeOK
<1>10. TypeOK'
  BY <1>1, <1>2, <1>8, <1>9 DEF TypeOK
<1>11. Made' = Made
  BY <1>2 DEF Made
<1>12. KeysAreMade'
  BY <1>1, <1>2, <1>5, <1>8, <1>11 DEF KeysAreMade
<1>13. CurrentIsMade' /\ MenuFollowsToday'
  BY <1>1, <1>2 DEF CurrentIsMade, MenuFollowsToday, NowDate
<1>14. RowsShowSelected'
  BY <1>2, <1>3, <1>6 DEF RowsShowSelected, Kinds
<1>15. \A k \in Kinds : Asked(k)'
  BY <1>2, <1>3, <1>6, <1>8 DEF Asked
<1>16. QED
  BY <1>2, <1>10, <1>12, <1>13, <1>14, <1>15 DEF IInv

\* A cell rendered again.
LEMMA RowAppearsIInv ==
    ASSUME IInv, NEW k \in Rows, RowAppears(k)
    PROVE  IInv' /\ UNCHANGED <<current, Selected, cache, pending>>
<1>1. TypeOK /\ k \in Kinds
  BY DEF IInv, Kinds
<1>2. PICK date \in RowText(k, cache[k]) : shown' = [shown EXCEPT ![k] = date]
  BY DEF RowAppears
<1>3. UNCHANGED <<gen, live, lastIndex, cache, pending, current, spinner>>
  BY DEF RowAppears
<1>4. date \in Dates /\ (Selected \in cache[k] => date = Selected)
  BY <1>1, RowTextEffect
<1>5. TypeOK'
  BY <1>1, <1>2, <1>3, <1>4 DEF TypeOK
<1>6. Selected' = Selected /\ Made' = Made /\ NowDate' = NowDate
  BY <1>3 DEF Selected, DateOf, Made, NowDate
<1>7. RowsShowSelected'
  BY <1>1, <1>2, <1>3, <1>4, <1>6 DEF IInv, RowsShowSelected, TypeOK
<1>8. KeysAreMade' /\ CurrentIsMade' /\ MenuFollowsToday'
  BY <1>3, <1>6 DEF IInv, KeysAreMade, CurrentIsMade, MenuFollowsToday
<1>9. QED
  BY <1>3, <1>5, <1>6, <1>7, <1>8 DEF IInv

\* An answer with weather: the labels follow it, the menu if it is today's.
LEMMA WeatherIInv ==
    ASSUME IInv, NEW date \in Dates, WeatherArrives(date)
    PROVE  /\ IInv'
           /\ \A k \in Kinds : Asked(k) => Asked(k)'
           /\ current'[1] >= current[1]
<1>1. TypeOK /\ KeysAreMade /\ CurrentIsMade /\ MenuFollowsToday
  BY DEF IInv
<1>2. /\ "weather" \in Kinds /\ "weather" \notin Rows
  BY RowsAssumption DEF Kinds
<1>3. /\ Answer("weather", date)
      /\ cache' = [cache EXCEPT !["weather"] = @ \cup {date}]
      /\ shown' = [shown EXCEPT !["weather"] = date]
      /\ current' = IF date = NowDate THEN date ELSE current
      /\ spinner' = FALSE
      /\ UNCHANGED <<gen, live, lastIndex>>
  BY DEF WeatherArrives, Keep
<1>4. /\ pending' \in [Kinds -> [Dates -> Nat]]
      /\ pending["weather"][date] > 0
      /\ \A j \in Kinds, d \in Dates :
            /\ pending'[j][d] <= pending[j][d]
            /\ j # "weather" \/ d # date => pending'[j][d] = pending[j][d]
  BY <1>1, <1>2, <1>3, AnswerEffect
<1>5. /\ cache' \in [Kinds -> SUBSET Dates]
      /\ \A j \in Kinds : cache'[j] = IF j = "weather" THEN cache[j] \cup {date} ELSE cache[j]
  BY <1>1, <1>3 DEF TypeOK
<1>6. /\ shown' \in [Kinds -> Dates]
      /\ \A k \in Rows : shown'[k] = shown[k]
  BY <1>1, <1>2, <1>3 DEF TypeOK, Kinds
<1>7. TypeOK'
  BY <1>1, <1>3, <1>4, <1>5, <1>6 DEF TypeOK
<1>8. Selected' = Selected /\ Made' = Made /\ NowDate' = NowDate
  BY <1>3 DEF Selected, DateOf, Made, NowDate
<1>9. KeysAreMade'
  <2>1. SUFFICES ASSUME NEW k \in Kinds, NEW d \in Dates,
                        d \in cache'[k] \/ pending'[k][d] > 0
                 PROVE  d \in Made
    BY <1>8 DEF KeysAreMade
  <2>2. pending'[k][d] \in Nat /\ pending[k][d] \in Nat /\ pending'[k][d] <= pending[k][d]
    BY <1>1, <1>4 DEF TypeOK
  <2>3. d \in cache[k] \/ pending[k][d] > 0
    BY <1>4, <1>5, <2>1, <2>2
  <2>4. QED
    BY <1>1, <2>3 DEF KeysAreMade
<1>10. CurrentIsMade' /\ current'[1] >= current[1]
  <2>1. NowDate[1] = gen /\ gen \in Nat /\ current[1] \in Nat /\ current[1] <= gen
    BY <1>1, BoundAssumption DEF NowDate, TypeOK, Dates, CurrentIsMade
  <2>2. QED
    BY <1>3, <2>1 DEF CurrentIsMade
<1>11. MenuFollowsToday'
  BY <1>1, <1>2, <1>3, <1>5, <1>8 DEF MenuFollowsToday
<1>12. RowsShowSelected'
  BY <1>2, <1>5, <1>6, <1>8 DEF IInv, RowsShowSelected, Kinds
<1>13. ASSUME NEW k \in Kinds, Asked(k) PROVE Asked(k)'
  <2>1. CASE k = "weather" /\ Selected = date
    BY <1>5, <1>8, <2>1 DEF Asked
  <2>2. CASE k # "weather" \/ Selected # date
    BY <1>1, <1>4, <1>5, <1>8, <1>13, <2>2, DatesTyped DEF Asked
  <2>3. QED
    BY <2>1, <2>2
<1>14. QED
  BY <1>7, <1>9, <1>10, <1>11, <1>12, <1>13 DEF IInv

\* An answer with data for a row: the row is rendered for the selected date.
LEMMA RowArrivesIInv ==
    ASSUME IInv, NEW k \in Rows, NEW date \in Dates, RowArrives(k, date)
    PROVE  /\ IInv'
           /\ \A j \in Kinds : Asked(j) => Asked(j)'
           /\ current' = current
<1>1. /\ TypeOK /\ KeysAreMade /\ CurrentIsMade /\ MenuFollowsToday /\ RowsShowSelected
      /\ k \in Kinds /\ k # "weather"
  BY RowsAssumption DEF IInv, Kinds
<1>2. /\ Answer(k, date)
      /\ cache' = [cache EXCEPT ![k] = @ \cup {date}]
      /\ UNCHANGED <<gen, live, lastIndex, current, spinner>>
  BY DEF RowArrives, Keep
<1>3. PICK text \in RowText(k, cache[k] \cup {date}) : shown' = [shown EXCEPT ![k] = text]
  BY DEF RowArrives
<1>4. /\ pending' \in [Kinds -> [Dates -> Nat]]
      /\ pending[k][date] > 0
      /\ \A j \in Kinds, d \in Dates :
            /\ pending'[j][d] <= pending[j][d]
            /\ j # k \/ d # date => pending'[j][d] = pending[j][d]
  BY <1>1, <1>2, AnswerEffect
<1>5. /\ cache' \in [Kinds -> SUBSET Dates]
      /\ \A j \in Kinds : cache'[j] = IF j = k THEN cache[j] \cup {date} ELSE cache[j]
  BY <1>1, <1>2 DEF TypeOK
<1>6. text \in Dates /\ (Selected \in cache[k] \cup {date} => text = Selected)
  BY <1>1, <1>3, RowTextEffect
<1>7. /\ shown' \in [Kinds -> Dates]
      /\ \A j \in Rows : shown'[j] = IF j = k THEN text ELSE shown[j]
  BY <1>1, <1>3, <1>6 DEF TypeOK, Kinds
<1>8. TypeOK'
  BY <1>1, <1>2, <1>4, <1>5, <1>7 DEF TypeOK
<1>9. Selected' = Selected /\ Made' = Made /\ NowDate' = NowDate
  BY <1>2 DEF Selected, DateOf, Made, NowDate
<1>10. KeysAreMade'
  <2>1. SUFFICES ASSUME NEW j \in Kinds, NEW d \in Dates,
                        d \in cache'[j] \/ pending'[j][d] > 0
                 PROVE  d \in Made
    BY <1>9 DEF KeysAreMade
  <2>2. pending'[j][d] \in Nat /\ pending[j][d] \in Nat /\ pending'[j][d] <= pending[j][d]
    BY <1>1, <1>4 DEF TypeOK
  <2>3. d \in cache[j] \/ pending[j][d] > 0
    BY <1>4, <1>5, <2>1, <2>2
  <2>4. QED
    BY <1>1, <2>3 DEF KeysAreMade
<1>11. CurrentIsMade' /\ MenuFollowsToday'
  BY <1>1, <1>2, <1>5, <1>9 DEF CurrentIsMade, MenuFollowsToday, Kinds
<1>12. RowsShowSelected'
  BY <1>1, <1>5, <1>6, <1>7, <1>9 DEF RowsShowSelected, Kinds
<1>13. ASSUME NEW j \in Kinds, Asked(j) PROVE Asked(j)'
  <2>1. CASE j = k /\ Selected = date
    BY <1>5, <1>9, <2>1 DEF Asked
  <2>2. CASE j # k \/ Selected # date
    BY <1>1, <1>4, <1>5, <1>9, <1>13, <2>2, DatesTyped DEF Asked
  <2>3. QED
    BY <2>1, <2>2
<1>14. QED
  BY <1>2, <1>8, <1>10, <1>11, <1>12, <1>13 DEF IInv

\* An answer with nothing to store gives up its own date and no other.
LEMMA NothingIInv ==
    ASSUME IInv, NEW k \in Kinds, NEW date \in Dates, NothingArrives(k, date)
    PROVE  /\ IInv'
           /\ UNCHANGED <<Selected, current>>
           /\ \A j \in Kinds : Asked(j) /\ ~Asked(j)' => j = k /\ Selected = date
           /\ pending'[k][date] < pending[k][date]
<1>1. TypeOK /\ KeysAreMade
  BY DEF IInv
<1>2. /\ Answer(k, date)
      /\ spinner' \in BOOLEAN
      /\ UNCHANGED <<gen, live, lastIndex, cache, shown, current>>
  BY DEF NothingArrives
<1>3. /\ pending' \in [Kinds -> [Dates -> Nat]]
      /\ pending'[k][date] < pending[k][date]
      /\ \A j \in Kinds, d \in Dates :
            /\ pending'[j][d] <= pending[j][d]
            /\ j # k \/ d # date => pending'[j][d] = pending[j][d]
  BY <1>1, <1>2, AnswerEffect
<1>4. TypeOK'
  BY <1>1, <1>2, <1>3 DEF TypeOK
<1>5. Selected' = Selected /\ Made' = Made /\ NowDate' = NowDate
  BY <1>2 DEF Selected, DateOf, Made, NowDate
<1>6. KeysAreMade'
  <2>1. \A j \in Kinds, d \in Dates : pending'[j][d] \in Nat /\ pending[j][d] \in Nat
    BY <1>1, <1>3 DEF TypeOK
  <2>2. \A j \in Kinds, d \in Dates : pending'[j][d] > 0 => pending[j][d] > 0
    BY <1>3, <2>1
  <2>3. QED
    BY <1>1, <1>2, <1>5, <2>2 DEF KeysAreMade
<1>7. CurrentIsMade' /\ MenuFollowsToday' /\ RowsShowSelected'
  BY <1>2, <1>5 DEF IInv, CurrentIsMade, MenuFollowsToday, RowsShowSelected
<1>8. \A j \in Kinds : Asked(j) /\ ~Asked(j)' => j = k /\ Selected = date
  BY <1>1, <1>2, <1>3, <1>5, DatesTyped DEF Asked
<1>9. QED
  BY <1>2, <1>3, <1>4, <1>5, <1>6, <1>7, <1>8 DEF IInv

-----------------------------------------------------------------------------

GivenUpByFailure ==
    \A k \in Kinds :
        Asked(k) /\ ~Asked(k)' =>
            Selected' = Selected /\ pending'[k][Selected] < pending[k][Selected]

\* Every step keeps the inductive invariant and the two step properties.
LEMMA NextIInv ==
    ASSUME IInv, [Next]_vars
    PROVE  IInv' /\ GivenUpByFailure /\ current'[1] >= current[1]
<1>1. current[1] >= current[1]
  BY BoundAssumption DEF IInv, TypeOK, Dates
<1>2. ASSUME NEW pulled \in BOOLEAN, StartWeatherInfoRequest(pulled)
      PROVE  IInv' /\ GivenUpByFailure /\ current' = current
  BY <1>2, RefreshIInv DEF GivenUpByFailure
<1>3. CASE LiveClick
  BY <1>1, <1>3, LiveClickIInv DEF GivenUpByFailure
<1>4. ASSUME NEW index \in 1..Days, DayClick(index)
      PROVE  IInv' /\ GivenUpByFailure /\ current' = current
  BY <1>4, DayClickIInv DEF GivenUpByFailure
<1>5. ASSUME NEW k \in Rows, RowAppears(k)
      PROVE  IInv' /\ GivenUpByFailure /\ current' = current
  BY <1>5, RowAppearsIInv DEF GivenUpByFailure, Asked
<1>6. ASSUME NEW date \in Dates, WeatherArrives(date)
      PROVE  IInv' /\ GivenUpByFailure /\ current'[1] >= current[1]
  BY <1>6, WeatherIInv DEF GivenUpByFailure
<1>7. ASSUME NEW date \in Dates, NEW k \in Rows, RowArrives(k, date)
      PROVE  IInv' /\ GivenUpByFailure /\ current' = current
  BY <1>7, RowArrivesIInv DEF GivenUpByFailure
<1>8. ASSUME NEW date \in Dates, NEW k \in Kinds, NothingArrives(k, date)
      PROVE  IInv' /\ GivenUpByFailure /\ current' = current
  BY <1>8, NothingIInv DEF GivenUpByFailure
<1>9. CASE UNCHANGED vars
  <2>1. IInv'
    BY <1>9 DEF vars, IInv, TypeOK, KeysAreMade, CurrentIsMade, RowsShowSelected,
                MenuFollowsToday, Selected, DateOf, NowDate, Made
  <2>2. GivenUpByFailure /\ current' = current
    BY <1>9 DEF vars, GivenUpByFailure, Asked, Selected, DateOf
  <2>3. QED
    BY <1>1, <2>1, <2>2
<1>10. CASE Arrives
  BY <1>1, <1>6, <1>7, <1>8, <1>10 DEF Arrives
<1>11. QED
  BY <1>1, <1>2, <1>3, <1>4, <1>5, <1>9, <1>10 DEF Next

-----------------------------------------------------------------------------

\* The inductive invariant holds in every reachable state.
THEOREM Invariance == Spec => []IInv
<1>1. Init => IInv
  BY InitIInv
<1>2. IInv /\ [Next]_vars => IInv'
  BY NextIInv
<1>3. QED
  BY <1>1, <1>2, PTL DEF Spec

\* The variables keep their types.
THEOREM TypeCorrect == Spec => []TypeOK
<1>1. IInv => TypeOK
  BY DEF IInv
<1>2. QED
  BY <1>1, Invariance, PTL

\* The answer blocks of the three tables and segmentedControlClick: a known
\* reading of the selected date is on screen, for every order of taps, refreshes
\* and answers.
THEOREM RowsShowSelectedAlways == Spec => []RowsShowSelected
<1>1. IInv => RowsShowSelected
  BY DEF IInv
<1>2. QED
  BY <1>1, Invariance, PTL

\* getWeatherInfo: the menu has today's weather as soon as the page has it.
THEOREM MenuFollowsTodayAlways == Spec => []MenuFollowsToday
<1>1. IInv => MenuFollowsToday
  BY DEF IInv
<1>2. QED
  BY <1>1, Invariance, PTL

\* getWeatherInfo's pointer test: answers to older refreshes never reach the menu.
THEOREM MenuNeverGoesBackAlways == Spec => MenuNeverGoesBack
<1>1. IInv /\ [Next]_vars => [current'[1] >= current[1]]_vars
  BY NextIInv
<1>2. QED
  BY <1>1, Invariance, PTL DEF Spec, MenuNeverGoesBack

\* segmentedControlClick and startWeatherInfoRequest: what is selected is known
\* or requested until its own request fails.
THEOREM OnlyFailureStarvesAlways == Spec => OnlyFailureStarves
<1>1. IInv /\ [Next]_vars => [GivenUpByFailure]_vars
  BY NextIInv
<1>2. QED
  BY <1>1, Invariance, PTL DEF Spec, OnlyFailureStarves, GivenUpByFailure

-----------------------------------------------------------------------------
(* The header.  A refresh asks for the weather, a tap may; an answer for a    *)
(* row leaves the weather's requests as they are.                             *)

LEMMA InitPulls == Init => Pull!Init
<1> SUFFICES ASSUME Init PROVE Pull!Init
  OBVIOUS
<1>1. InFlight("weather") = {} /\ spinner = FALSE
  BY DEF Init, InFlight, Kinds
<1>2. QED
  BY <1>1, Zenon DEF Pull!Init

\* Requests for some readings: the weather's, if it is one of them, is under way.
LEMMA AskPulls ==
    ASSUME TypeOK, NEW kinds \in SUBSET Kinds, NEW date \in Dates, Ask(kinds, date),
           "weather" \in kinds \/ spinner' = spinner, spinner' \in {spinner, TRUE}
    PROVE  [Pull!Next]_(Pull!pullVars)
<1>1. CASE "weather" \in kinds
  <2>1. pending'["weather"][date] > 0
    BY <1>1, AskEffect
  <2>2. InFlight("weather")' # {}
    BY <2>1 DEF InFlight
  <2>3. QED
    BY <2>2, Zenon DEF Pull!Next, Pull!Ask
<1>2. CASE "weather" \notin kinds
  <2>1. pending'["weather"] = pending["weather"]
    BY <1>2 DEF Ask, Kinds
  <2>2. InFlight("weather")' = InFlight("weather") /\ spinner' = spinner
    BY <1>2, <2>1 DEF InFlight
  <2>3. QED
    BY <2>2, Zenon DEF Pull!pullVars
<1>3. QED
  BY <1>1, <1>2

\* An answer to a weather request hides the header.
LEMMA WeatherPulls ==
    ASSUME TypeOK, NEW date \in Dates, Answer("weather", date), spinner' = FALSE
    PROVE  [Pull!Next]_(Pull!pullVars)
<1>1. InFlight("weather") # {}
  BY DEF Answer, InFlight
<1>2. QED
  BY <1>1, Zenon DEF Pull!Next, Pull!Answered

\* An answer to another request does not concern it.
LEMMA RowPulls ==
    ASSUME TypeOK, NEW k \in Kinds, k # "weather", NEW date \in Dates, Answer(k, date),
           spinner' = spinner
    PROVE  [Pull!Next]_(Pull!pullVars)
<1>1. pending'["weather"] = pending["weather"]
  BY DEF Answer, TypeOK, Kinds
<1>2. InFlight("weather")' = InFlight("weather")
  BY <1>1 DEF InFlight
<1>3. QED
  BY <1>2, Zenon DEF Pull!pullVars

LEMMA StepPulls ==
    ASSUME IInv, [Next]_vars
    PROVE  [Pull!Next]_(Pull!pullVars)
<1>1. TypeOK /\ "weather" \in Kinds /\ Kinds \in SUBSET Kinds
  BY DEF IInv, Kinds
<1>2. ASSUME NEW pulled \in BOOLEAN, StartWeatherInfoRequest(pulled)
      PROVE  [Pull!Next]_(Pull!pullVars)
  <2> DEFINE lastDate == IF lastIndex = 0 THEN <<live, 0>> ELSE <<gen + 1, lastIndex>>
  <2>1. lastDate \in Dates
    BY <1>1, <1>2, BoundAssumption DEF StartWeatherInfoRequest, TypeOK, Dates
  <2>2. Ask(Kinds, lastDate)
    BY <1>2 DEF StartWeatherInfoRequest
  <2>3. spinner' \in {spinner, TRUE}
    <3>1. CASE pulled = TRUE
      BY <1>2, <3>1, Zenon DEF StartWeatherInfoRequest
    <3>2. CASE pulled = FALSE
      <4>1. spinner \in BOOLEAN /\ spinner' = (spinner \/ FALSE)
        BY <1>1, <1>2, <3>2, Zenon DEF StartWeatherInfoRequest, TypeOK
      <4>2. QED
        BY <4>1
    <3>3. QED
      BY <3>1, <3>2
  <2> HIDE DEF lastDate
  <2>4. QED
    BY <1>1, <2>1, <2>2, <2>3, AskPulls
<1>3. CASE LiveClick
  <2>1. <<live + 1, 0>> \in Dates
    BY <1>1, <1>3, BoundAssumption DEF LiveClick, TypeOK, Dates
  <2>2. Ask(Kinds, <<live + 1, 0>>) /\ spinner' = spinner
    BY <1>3 DEF LiveClick
  <2>3. QED
    BY <1>1, <2>1, <2>2, AskPulls
<1>4. ASSUME NEW index \in 1..Days, DayClick(index)
      PROVE  [Pull!Next]_(Pull!pullVars)
  <2> DEFINE missing == {k \in Kinds : DateOf(index) \notin cache[k]}
  <2>1. Ask(missing, DateOf(index)) /\ spinner' = spinner /\ missing \in SUBSET Kinds
    BY <1>4 DEF DayClick
  <2>2. DateOf(index) \in Dates
    BY <1>1, DatesTyped, BoundAssumption
  <2> HIDE DEF missing
  <2>3. QED
    BY <1>1, <2>1, <2>2, AskPulls
<1>5. ASSUME NEW k \in Rows, RowAppears(k) PROVE UNCHANGED Pull!pullVars
  BY <1>5 DEF RowAppears, Pull!pullVars, InFlight
<1>6. ASSUME NEW date \in Dates, WeatherArrives(date)
      PROVE  [Pull!Next]_(Pull!pullVars)
  BY <1>1, <1>6, WeatherPulls DEF WeatherArrives
<1>7. ASSUME NEW date \in Dates, NEW k \in Rows, RowArrives(k, date)
      PROVE  [Pull!Next]_(Pull!pullVars)
  <2>1. k \in Kinds /\ k # "weather"
    BY RowsAssumption DEF Kinds
  <2>2. QED
    BY <1>1, <1>7, <2>1, RowPulls DEF RowArrives
<1>8. ASSUME NEW date \in Dates, NEW k \in Kinds, NothingArrives(k, date)
      PROVE  [Pull!Next]_(Pull!pullVars)
  <2>1. CASE k = "weather"
    <3>1. spinner' = FALSE
      BY <1>8, <2>1 DEF NothingArrives
    <3>2. QED
      BY <1>1, <1>8, <2>1, <3>1, WeatherPulls DEF NothingArrives
  <2>2. CASE k # "weather"
    <3>1. spinner' = spinner
      BY <1>1, <1>8, <2>2, Zenon DEF NothingArrives, TypeOK
    <3>2. QED
      BY <1>1, <1>8, <2>2, <3>1, RowPulls DEF NothingArrives
  <2>3. QED
    BY <2>1, <2>2
<1>9. CASE UNCHANGED vars
  BY <1>9 DEF vars, Pull!pullVars, InFlight
<1>10. CASE Arrives
  BY <1>6, <1>7, <1>8, <1>10 DEF Arrives
<1>11. QED
  BY <1>2, <1>3, <1>4, <1>5, <1>9, <1>10 DEF Next

\* getWeatherInfo's blocks: whatever the order of pulls, taps, refreshes from page
\* two and answers, the header keeps the safety part of PullRefresh: it turns only
\* while weather is on its way, and only an answer of the weather hides it.
THEOREM HeaderIsPull == Spec => Pull!Safety
<1>1. Init => Pull!Init
  BY InitPulls
<1>2. IInv /\ [Next]_vars => [Pull!Next]_(Pull!pullVars)
  BY StepPulls
<1>3. QED
  BY <1>1, <1>2, Invariance, PTL DEF Spec, Pull!Safety
=============================================================================
