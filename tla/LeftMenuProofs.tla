--------------------------- MODULE LeftMenuProofs ---------------------------
(***************************************************************************)
(* LeftMenu, for every stack, every number of delayed blocks, of requests  *)
(* and of taps, and every set of versions.  What LeftSlipProofs shows of   *)
(* the navigation stack and its swipe survives the rows of the menu; the   *)
(* rows' own blocks push no page under the menu; the update alert offers a *)
(* newer version; and the message switch agrees with the server once       *)
(* everything was answered in order.                                       *)
(***************************************************************************)
EXTENDS LeftMenu, LeftSlipProofs

-----------------------------------------------------------------------------
(* The stack, its swipe and its observer: LeftSlip's invariant again.         *)

\* A posted dismissal alone.
LEMMA DismissIInv ==
    ASSUME IInv, DismissLeftView, UNCHANGED <<nav, stackVars, menu, mask, showLeft>>
    PROVE  IInv'
<1>1. dismissals' \in 0..MaxDismissals
  BY SlipAssumption DEF DismissLeftView, IInv, TypeOK
<1>2. TypeOK'
  BY <1>1 DEF IInv, TypeOK, stackVars
<1>3. QED
  BY <1>2, MenuIInv

LEMMA UnchangedIInv ==
    ASSUME IInv, UNCHANGED vars
    PROVE  IInv'
  BY NextIInv

\* The rows and their blocks do nothing to the stack that a push does not.
LEMMA RowIInv ==
    ASSUME IInv, RowClick \/ RowBlock
    PROVE  IInv'
<1>1. CASE UpdateClick
  BY <1>1, DismissIInv DEF UpdateClick
<1>2. CASE WebClick
  BY <1>2, DismissIInv DEF WebClick
<1>3. CASE ClearClick \/ LogoutClick \/ HudHides
  BY <1>3, UnchangedIInv DEF ClearClick, LogoutClick, HudHides
<1>4. CASE WebPush
  <2>1. CASE nav = "root" /\ PushPage
    BY <2>1, PushIInv
  <2>2. CASE UNCHANGED vars
    BY <2>2, UnchangedIInv
  <2>3. QED
    BY <1>4, <2>1, <2>2 DEF WebPush
<1>5. CASE Cleared
  BY <1>5, DismissIInv DEF Cleared
<1>6. CASE LogoutSucceeded
  <2>1. /\ nav = "root" /\ nav' = "leaving"
        /\ UNCHANGED <<stackVars, menu, mask, showLeft>>
    BY <1>6 DEF LogoutSucceeded
  <2>2. dismissals' \in 0..MaxDismissals
    BY <1>6, SlipAssumption DEF LogoutSucceeded, DismissLeftView, IInv, TypeOK
  <2>3. TypeOK'
    BY <2>1, <2>2 DEF IInv, TypeOK, stackVars
  <2>4. QED
    BY <2>1, <2>3 DEF IInv, stackVars, ObserverBalanced, Swipable
<1>7. QED
  BY <1>1, <1>2, <1>3, <1>4, <1>5, <1>6 DEF RowClick, RowBlock

\* What a step does to LeftSlip's variables: nothing, a step of LeftSlip, or
\* something a row does.
LEMMA SlipSteps ==
    ASSUME [MenuNext]_allVars
    PROVE  [Next]_vars \/ RowClick \/ RowBlock
<1>1. CASE OtherStep
  <2>1. PageTouches => Next
    BY DEF Next, Touches
  <2>2. SlipCallback => Next
    BY DEF SlipCallback, Settles, Next, Callbacks
  <2>3. StoreAnswers \/ AlertClosed => UNCHANGED vars
    BY DEF StoreAnswers, LaunchAnswer, MenuAnswer, AlertClosed
  <2>4. QED
    BY <1>1, <2>1, <2>2, <2>3 DEF OtherStep
<1>2. CASE ShowLeftView
  BY <1>2 DEF Next, Touches
<1>3. CASE RootReplaced
  BY <1>3 DEF RootReplaced, Next, Callbacks
<1>4. CASE UNCHANGED vars
  BY <1>4
<1>5. QED
  BY <1>1, <1>2, <1>3, <1>4 DEF MenuNext, allVars

LEMMA MenuStepIInv == IInv /\ [MenuNext]_allVars => IInv'
  BY SlipSteps, RowIInv, NextIInv

LEMMA MenuInitIInv == MenuInit => IInv
  BY InitIInv DEF MenuInit

\* LeftSlip's invariant holds with the rows of the menu too.
THEOREM SlipInvariantHolds == MenuSpec => []IInv
  BY MenuInitIInv, MenuStepIInv, PTL DEF MenuSpec

\* The stack, the gesture and the menu keep their types.
THEOREM MenuTypeCorrect == MenuSpec => []TypeOK
<1>1. IInv => TypeOK
  BY DEF IInv
<1>2. QED
  BY <1>1, SlipInvariantHolds, PTL

\* With the pages the menu's rows push and the logout they ask for, the observer
\* is still never added nor removed twice (DYL_pushViewController).
THEOREM MenuObserverBalanced == MenuSpec => []ObserverBalanced
<1>1. IInv => ObserverBalanced
  BY DEF IInv
<1>2. QED
  BY <1>1, SlipInvariantHolds, PTL

\* Nor is it left on the gesture of a controller that a logout lets go
\* (DYL_dealloc).
THEOREM MenuNoObserverLeft == MenuSpec => []NoObserverLeft
<1>1. IInv => NoObserverLeft
  BY DEF IInv, ObserverBalanced, NoObserverLeft
<1>2. QED
  BY <1>1, SlipInvariantHolds, PTL

\* A page pushed by a row of the menu, after it is gone, can be swiped back as
\* any other (didSelectRowAtIndexPath, observeValueForKeyPath).
THEOREM MenuPushedPageSwipes == MenuSpec => []PushedPageSwipes
<1>1. IInv => PushedPageSwipes
  BY DEF IInv, Swipable, PushedPageSwipes
<1>2. QED
  BY <1>1, SlipInvariantHolds, PTL

-----------------------------------------------------------------------------
(* The mask: the rows leave it to the dismissals they post.                   *)

LEMMA MenuMaskStep ==
    ASSUME MaskGoesFirst, [MenuNext]_allVars
    PROVE  MaskGoesFirst' /\ MaskNotLeft
<1>1. CASE RowClick \/ RowBlock
  <2>1. UNCHANGED <<menu, mask>>
    BY <1>1 DEF RowClick, UpdateClick, WebClick, ClearClick, LogoutClick, RowBlock, WebPush,
                PushPage, Cleared, LogoutSucceeded, HudHides, menuVars, vars
  <2>2. QED
    BY <2>1, MaskUntouched
<1>2. QED
  BY <1>1, SlipSteps, MaskStep

\* didSelectRowAtIndexPath, clearMembory, the logout: nor does a row, however late
\* its dismissal, leave a mask over the page.
THEOREM MenuOnlyReplacementLeavesMask == MenuSpec => OnlyReplacementLeavesMask
<1>1. MenuInit => MaskGoesFirst
  BY MaskInit DEF MenuInit
<1>2. MaskGoesFirst /\ [MenuNext]_allVars => MaskGoesFirst'
  BY MenuMaskStep
<1>3. MaskGoesFirst /\ [MenuNext]_allVars => [MaskAlone' => MaskAlone \/ nav = "leaving"]_vars
  BY MenuMaskStep DEF MaskNotLeft
<1>4. QED
  BY <1>1, <1>2, <1>3, PTL DEF MenuSpec, OnlyReplacementLeavesMask

-----------------------------------------------------------------------------
(* The web pages to be pushed.  Each was asked for together with a dismissal, *)
(* and none is left when the menu has gone: so a dismissal still to run       *)
(* stands for each while the menu is open.                                    *)

WebInv ==
    /\ opening \in 0..MaxDismissals
    /\ nav = "root" /\ menu = "shown" => opening <= dismissals
    /\ nav = "root" /\ menu \in {"hidden", "presenting"} => opening = 0

\* Nothing that matters here changes, or only the dismissals, and they grow.
LEMMA WebUntouched ==
    ASSUME IInv, IInv', WebInv, opening' = opening,
           nav' = "root" => nav = "root", menu' = menu, dismissals' >= dismissals
    PROVE  WebInv'
<1>1. dismissals \in Nat /\ dismissals' \in Nat /\ opening \in Nat
  BY SlipAssumption DEF IInv, TypeOK, WebInv
<1>2. QED
  BY <1>1 DEF WebInv

LEMMA WebRows ==
    ASSUME IInv, IInv', WebInv, RowClick \/ RowBlock
    PROVE  WebInv'
<1>1. dismissals \in Nat /\ opening \in Nat /\ dismissals' \in 0..MaxDismissals
  BY SlipAssumption DEF IInv, TypeOK, WebInv
<1>2. CASE UpdateClick \/ Cleared
  <2>1. opening' = opening /\ nav' = nav /\ menu' = menu /\ dismissals' = dismissals + 1
    BY <1>2 DEF UpdateClick, Cleared, DismissLeftView
  <2>2. QED
    BY <1>1, <2>1, WebUntouched
<1>3. CASE WebClick
  <2>1. /\ nav = "root" /\ menu = "shown" /\ nav' = nav /\ menu' = menu
        /\ opening' = opening + 1 /\ dismissals' = dismissals + 1
    BY <1>3 DEF WebClick, RowTapped, DismissLeftView
  <2>2. opening' <= dismissals' /\ opening' \in 0..MaxDismissals
    BY <1>1, <2>1, SlipAssumption DEF WebInv
  <2>3. QED
    BY <2>1, <2>2 DEF WebInv
<1>4. CASE ClearClick \/ LogoutClick \/ HudHides
  <2>1. opening' = opening /\ nav' = nav /\ menu' = menu /\ dismissals' = dismissals
    BY <1>4 DEF ClearClick, LogoutClick, HudHides, vars, menuVars
  <2>2. QED
    BY <1>1, <2>1, WebUntouched
<1>5. CASE WebPush
  <2>1. nav' = nav /\ menu' = menu /\ dismissals = 0 /\ opening > 0 /\ opening' = opening - 1
    BY <1>5 DEF WebPush, PushPage, vars, menuVars
  <2>2. ~(nav = "root" /\ menu \in {"hidden", "presenting", "shown"})
    BY <1>1, <2>1 DEF WebInv
  <2>3. opening' \in 0..MaxDismissals
    BY <1>1, <2>1, SlipAssumption DEF WebInv
  <2>4. QED
    BY <2>1, <2>2, <2>3 DEF WebInv
<1>6. CASE LogoutSucceeded
  <2>1. opening' = opening /\ nav' = "leaving"
    BY <1>6 DEF LogoutSucceeded, rowVars
  <2>2. QED
    BY <2>1 DEF WebInv
<1>7. QED
  BY <1>2, <1>3, <1>4, <1>5, <1>6 DEF RowClick, RowBlock

\* What the other steps of the menu do to it.
LEMMA WebSlip ==
    ASSUME IInv, IInv', WebInv, SlipCallback
    PROVE  WebInv'
<1>1. dismissals \in Nat /\ opening \in Nat /\ dismissals' \in Nat /\ opening' = opening
  BY SlipAssumption DEF IInv, TypeOK, WebInv, SlipCallback, rowVars
<1>2. CASE SwipeEnds \/ SwipeUndone \/ EndBlock \/ Dealloc
  <2>1. menu' = menu /\ dismissals' = dismissals /\ (nav' = "root" => nav = "root")
    BY <1>2 DEF SwipeEnds, SwipeUndone, EndBlock, Dealloc, menuVars
  <2>2. QED
    BY <1>1, <2>1, WebUntouched
<1>3. CASE RunDismissal
  <2>1. nav' = nav /\ (menu = "shown" => menu' = "dismissing") /\ (menu # "shown" => menu' = menu)
    BY <1>3 DEF RunDismissal
  <2>2. QED
    BY <1>1, <2>1 DEF WebInv
<1>4. CASE PresenterGone
  <2>1. nav' = "leaving"
    BY <1>4 DEF PresenterGone
  <2>2. QED
    BY <1>1, <2>1 DEF WebInv
<1>5. CASE Settles
  <2>1. CASE opening = 0 /\ Dismissed
    BY <1>1, <2>1 DEF WebInv, Dismissed
  <2>2. CASE Presented
    BY <1>1, <2>2 DEF WebInv, Presented
  <2>3. QED
    BY <1>5, <2>1, <2>2 DEF Settles
<1>6. QED
  BY <1>2, <1>3, <1>4, <1>5 DEF SlipCallback

LEMMA WebStep == IInv /\ IInv' /\ WebInv /\ [MenuNext]_allVars => WebInv'
<1> SUFFICES ASSUME IInv, IInv', WebInv, [MenuNext]_allVars PROVE WebInv'
  OBVIOUS
<1>1. dismissals \in Nat /\ opening \in Nat /\ dismissals' \in Nat
  BY SlipAssumption DEF IInv, TypeOK, WebInv
<1>2. CASE OtherStep
  <2>1. CASE PageTouches /\ UNCHANGED rowVars
    <3>1. opening' = opening /\ nav' = nav /\ menu' = menu /\ dismissals' >= dismissals
      BY <1>1, <2>1 DEF PageTouches, Push, PushPage, Pop, TouchFails, SwipeStarts, TapMask,
                        DismissLeftView, menuVars, rowVars
    <3>2. QED
      BY <3>1, WebUntouched
  <2>2. CASE StoreAnswers \/ AlertClosed
    <3>1. opening' = opening /\ nav' = nav /\ menu' = menu /\ dismissals' = dismissals
      BY <2>2 DEF StoreAnswers, LaunchAnswer, MenuAnswer, AlertClosed, vars, menuVars
    <3>2. QED
      BY <1>1, <3>1, WebUntouched
  <2>3. QED
    BY <1>2, <2>1, <2>2, WebRows, WebSlip DEF OtherStep
<1>3. CASE ShowLeftView /\ UNCHANGED rowVars
  BY <1>1, <1>3 DEF ShowLeftView, OnScreen, WebInv, rowVars
<1>4. CASE RootReplaced
  <2>1. CASE ConfigLoginRootVC
    BY <1>1, <1>4, <2>1 DEF RootReplaced, ConfigLoginRootVC, WebInv
  <2>2. CASE opening = 0 /\ ConfigureMainViewController
    BY <1>1, <1>4, <2>2 DEF RootReplaced, ConfigureMainViewController, WebInv, menuVars
  <2>3. QED
    BY <1>4, <2>1, <2>2 DEF RootReplaced
<1>5. CASE UNCHANGED <<vars, rowVars>>
  <2>1. opening' = opening /\ nav' = nav /\ menu' = menu /\ dismissals' = dismissals
    BY <1>5 DEF vars, menuVars, rowVars
  <2>2. QED
    BY <1>1, <2>1, WebUntouched
<1>6. QED
  BY <1>2, <1>3, <1>4, <1>5 DEF MenuNext, allVars

LEMMA WebInit == MenuInit => WebInv
  BY SlipAssumption DEF MenuInit, Init, WebInv

\* didSelectRowAtIndexPath: the page a row opens is pushed when its menu is gone,
\* or going, and on the main page's controller, whatever was tapped meanwhile
\* and however the dismissals came to run.
THEOREM PushesUnderNoMenuAlways == MenuSpec => PushesUnderNoMenu
<1>1. IInv /\ WebInv /\ [MenuNext]_allVars
        => [depth' > depth /\ swipe = "none" => menu # "shown" /\ nav = "root"]_allVars
  <2> SUFFICES ASSUME IInv, WebInv, MenuNext, depth' > depth, swipe = "none"
               PROVE  menu # "shown" /\ nav = "root"
    OBVIOUS
  <2>1. depth \in Nat /\ depth >= 1 /\ dismissals \in Nat /\ opening \in Nat
    BY SlipAssumption DEF IInv, TypeOK, WebInv
  <2>2. depth' # depth
    BY <2>1
  <2>3. CASE WebPush
    <3>1. nav = "root" /\ opening > 0 /\ dismissals = 0
      BY <2>2, <2>3 DEF WebPush, vars, stackVars
    <3>2. QED
      BY <2>1, <3>1 DEF WebInv
  <2>4. CASE PageTouches
    BY <2>1, <2>2, <2>4 DEF PageTouches, Push, OnScreen, Pop, TouchFails, SwipeStarts, TapMask,
                      stackVars
  <2>5. SlipCallback => ~(depth' > depth)
    BY <2>1 DEF SlipCallback, SwipeEnds, SwipeUndone, EndBlock, RunDismissal, PresenterGone,
           Dealloc, Settles, Dismissed, Presented, stackVars
  <2>6. StoreAnswers \/ AlertClosed => depth' = depth
    BY DEF StoreAnswers, LaunchAnswer, MenuAnswer, AlertClosed, vars, stackVars
  <2>7. RowClick \/ Cleared \/ LogoutSucceeded \/ HudHides => depth' = depth
    BY DEF RowClick, UpdateClick, WebClick, ClearClick, LogoutClick, Cleared, LogoutSucceeded,
           HudHides, vars, stackVars
  <2>8. ShowLeftView => depth' = depth
    BY DEF ShowLeftView, stackVars
  <2>9. RootReplaced => ~(depth' > depth)
    BY <2>1 DEF RootReplaced, ConfigLoginRootVC, ConfigureMainViewController, stackVars
  <2>10. UNCHANGED vars => depth' = depth
    BY DEF vars, stackVars
  <2>11. QED
    BY <2>2, <2>3, <2>4, <2>5, <2>6, <2>7, <2>8, <2>9, <2>10
    DEF MenuNext, OtherStep, RowBlock
<1>2. QED
  BY <1>1, MenuInitIInv, MenuStepIInv, WebInit, WebStep, PTL DEF MenuSpec, PushesUnderNoMenu

-----------------------------------------------------------------------------
(* Sequences and requests.                                                    *)

\* Taking the i-th element out of a sequence shifts what follows it.
LEMMA RemoveAtEffect ==
    ASSUME NEW S, NEW s \in Seq(S), NEW i \in 1..Len(s)
    PROVE  /\ RemoveAt(s, i) \in Seq(S)
           /\ Len(RemoveAt(s, i)) = Len(s) - 1
           /\ \A k \in 1..(Len(s) - 1) :
                RemoveAt(s, i)[k] = IF k < i THEN s[k] ELSE s[k + 1]
<1> DEFINE front == SubSeq(s, 1, i - 1)
           back == SubSeq(s, i + 1, Len(s))
<1>1. /\ front \in Seq(S) /\ Len(front) = i - 1
      /\ \A k \in 1..(i - 1) : front[k] = s[k]
  OBVIOUS
<1>2. /\ back \in Seq(S) /\ Len(back) = Len(s) - i
      /\ \A k \in 1..(Len(s) - i) : back[k] = s[k + i]
  OBVIOUS
<1>3. RemoveAt(s, i) = front \o back
  BY DEF RemoveAt
<1> HIDE DEF front, back
<1>4. front \o back \in Seq(S) /\ Len(front \o back) = Len(s) - 1
  BY <1>1, <1>2
<1>5. ASSUME NEW k \in 1..(Len(s) - 1)
      PROVE  (front \o back)[k] = IF k < i THEN s[k] ELSE s[k + 1]
  <2>1. CASE k < i
    BY <1>1, <1>2, <2>1
  <2>2. CASE k >= i
    <3>1. (front \o back)[k] = back[k - (i - 1)]
      BY <1>1, <1>2, <2>2
    <3>2. k - (i - 1) \in 1..(Len(s) - i)
      BY <2>2
    <3>3. back[k - (i - 1)] = s[k - (i - 1) + i]
      BY <1>2, <3>2
    <3>. QED
      BY <2>2, <3>1, <3>3
  <2>3. k < i \/ k >= i
    OBVIOUS
  <2>. QED
    BY <2>1, <2>2, <2>3
<1>. QED
  BY <1>3, <1>4, <1>5

\* Replacing it changes nothing else.
LEMMA ReplaceEffect ==
    ASSUME NEW S, NEW s \in Seq(S), NEW i \in 1..Len(s), NEW e \in S
    PROVE  /\ [s EXCEPT ![i] = e] \in Seq(S)
           /\ Len([s EXCEPT ![i] = e]) = Len(s)
           /\ \A k \in 1..Len(s) : [s EXCEPT ![i] = e][k] = IF k = i THEN e ELSE s[k]
  OBVIOUS

\* Two updates of a request's fields, for any types of the fields.
LEMMA FieldEffect ==
    ASSUME NEW A, NEW B, NEW m \in [says : A, dealt : B, mine : B], NEW f \in B
    PROVE  LET n == [m EXCEPT !.mine = f]
           IN  n \in [says : A, dealt : B, mine : B] /\ n.says = m.says /\ n.dealt = m.dealt
  OBVIOUS

LEMMA AnswerField ==
    ASSUME NEW A, NEW B, NEW m \in [says : A, dealt : B, mine : B], NEW a \in A, NEW f \in B
    PROVE  LET n == [m EXCEPT !.says = a, !.dealt = f]
           IN  /\ n \in [says : A, dealt : B, mine : B]
               /\ n.says = a /\ n.dealt = f /\ n.mine = m.mine
  OBVIOUS

\* A request nobody waits for is otherwise the same.
LEMMA UnheardType ==
    \A m \in Msgs : /\ Unheard(m) \in Msgs
                    /\ Unheard(m).says = m.says /\ Unheard(m).dealt = m.dealt
<1> SUFFICES ASSUME NEW m \in Msgs
             PROVE  /\ Unheard(m) \in Msgs
                    /\ Unheard(m).says = m.says /\ Unheard(m).dealt = m.dealt
  OBVIOUS
<1>1. FALSE \in BOOLEAN
  OBVIOUS
<1>. QED
  BY <1>1, FieldEffect, Zenon DEF Msgs, Unheard

LEMMA AllUnheard ==
    ASSUME NEW s \in Seq(Msgs)
    PROVE  /\ [i \in DOMAIN s |-> Unheard(s[i])] \in Seq(Msgs)
           /\ Len([i \in DOMAIN s |-> Unheard(s[i])]) = Len(s)
<1>1. \A i \in DOMAIN s : Unheard(s[i]) \in Msgs
  BY UnheardType
<1>2. DOMAIN s = 1..Len(s) /\ Len(s) \in Nat
  OBVIOUS
<1>. QED
  BY <1>1, <1>2

-----------------------------------------------------------------------------
(* The switch.  As long as no request failed and none overtook another, all   *)
(* are the menu's own, the server has dealt with the first of them, and the   *)
(* last one decides: it carries the user's last choice, if there is one, and, *)
(* once dealt with, what the server keeps.                                    *)

AllMine == \A k \in 1..Len(msgs) : msgs[k].mine

InOrder == \A j, k \in 1..Len(msgs) : j < k /\ msgs[k].dealt => msgs[j].dealt

LastDecides ==
    LET last == msgs[Len(msgs)]
    IN  /\ last.dealt => server = last.says
        /\ choice \in {last.says, "none"}

\* An answer is a status.
AnswersTold == \A k \in 1..Len(msgs) : msgs[k].dealt => msgs[k].says # "get"

SettleInv ==
    choice # "lost" =>
        /\ AllMine
        /\ InOrder
        /\ IF Len(msgs) = 0 THEN status = server /\ choice \in {status, "none"} ELSE LastDecides

SwitchIInv == SwitchTypeOK /\ AnswersTold /\ SettleInv

LEMMA SwitchFacts ==
    ASSUME SwitchTypeOK
    PROVE  /\ msgs \in Seq(Msgs) /\ Len(msgs) \in Nat /\ Len(msgs) <= MaxMsgs
           /\ \A k \in 1..Len(msgs) : msgs[k] \in Msgs
           /\ msgs = <<>> <=> Len(msgs) = 0
  BY DEF SwitchTypeOK

\* An answer taken away leaves the others what they are.
LEMMA RemovedTold ==
    ASSUME SwitchTypeOK, AnswersTold, NEW i \in 1..Len(msgs), msgs' = RemoveAt(msgs, i)
    PROVE  AnswersTold'
<1>1. /\ Len(msgs') = Len(msgs) - 1
      /\ \A k \in 1..(Len(msgs) - 1) : msgs'[k] = IF k < i THEN msgs[k] ELSE msgs[k + 1]
  BY SwitchFacts, RemoveAtEffect
<1>2. \A k \in 1..(Len(msgs) - 1) : k \in 1..Len(msgs) /\ k + 1 \in 1..Len(msgs)
  BY SwitchFacts
<1>. QED
  BY <1>1, <1>2 DEF AnswersTold

LEMMA OppositeType == ASSUME NEW s \in Status PROVE Opposite(s) \in Status
  BY DEF Status, Opposite

\* A request is sent.
LEMMA SendStep ==
    ASSUME SwitchIInv, NEW ask \in Status \cup {"get"}, SendMsg(ask), server' = server,
           NEW new \in {ask, "none"}, new \in Status \cup {"none"}, Intend(new),
           loaded' \in BOOLEAN, status' \in Status
    PROVE  SwitchIInv'
<1> USE DEF SwitchIInv
<1> DEFINE m == [says |-> ask, dealt |-> FALSE, mine |-> TRUE]
<1>1. m \in Msgs
  BY DEF Msgs
<1>2. m.says = ask /\ ~m.dealt /\ m.mine
  OBVIOUS
<1>3. msgs' = Append(msgs, m) /\ Len(msgs) < MaxMsgs
  BY DEF SendMsg
<1> HIDE DEF m
<1>4. /\ msgs' \in Seq(Msgs) /\ Len(msgs') = Len(msgs) + 1 /\ Len(msgs') <= MaxMsgs
      /\ msgs'[Len(msgs')] = m
      /\ \A k \in 1..Len(msgs) : msgs'[k] = msgs[k]
  BY <1>1, <1>3, SwitchFacts, SwitchAssumption
<1>5. choice' = IF msgs # <<>> /\ choice = "lost" THEN "lost" ELSE new
  BY DEF Intend
<1>6. choice' \in Status \cup {"none", "lost"}
  BY <1>5
<1>7. SwitchTypeOK'
  BY <1>4, <1>6, Zenon DEF SwitchTypeOK
<1>8. ASSUME choice' # "lost"
      PROVE  AllMine' /\ InOrder' /\ LastDecides'
  <2>1. Len(msgs) = 0 \/ (AllMine /\ InOrder)
    BY <1>5, <1>8, SwitchFacts DEF SettleInv
  <2>2. \A k \in 1..Len(msgs') : k \in 1..Len(msgs) \/ k = Len(msgs')
    BY <1>4, SwitchFacts
  <2>3. AllMine'
    BY <1>2, <1>4, <2>1, <2>2, SwitchFacts DEF AllMine
  <2>4. InOrder'
    <3> SUFFICES ASSUME NEW j \in 1..Len(msgs'), NEW k \in 1..Len(msgs'), j < k, msgs'[k].dealt
                 PROVE  msgs'[j].dealt
      BY DEF InOrder
    <3>1. k # Len(msgs') /\ k \in 1..Len(msgs) /\ j \in 1..Len(msgs)
      BY <1>2, <1>4, <2>2, SwitchFacts
    <3>2. msgs[k].dealt => msgs[j].dealt
      BY <2>1, <3>1, SwitchFacts DEF InOrder
    <3>. QED
      BY <1>4, <3>1, <3>2
  <2>5. LastDecides'
    BY <1>2, <1>4, <1>5, <1>8 DEF LastDecides
  <2>. QED
    BY <2>3, <2>4, <2>5
<1>9. Len(msgs') # 0
  BY <1>4, SwitchFacts
<1>10. AnswersTold'
  <2>1. \A k \in 1..Len(msgs') : k \in 1..Len(msgs) \/ k = Len(msgs')
    BY <1>4, SwitchFacts
  <2>. QED
    BY <1>2, <1>4, <2>1 DEF AnswersTold
<1>. QED
  BY <1>7, <1>8, <1>9, <1>10 DEF SettleInv

\* The server deals with a request: the last one, if nothing is lost, decides what
\* it keeps.
LEMMA ServerTurnsStep ==
    ASSUME SwitchIInv, NEW i \in 1..Len(msgs), ServerTurns(i)
    PROVE  SwitchIInv'
<1> USE DEF SwitchIInv
<1> DEFINE m == [msgs[i] EXCEPT !.says = server', !.dealt = TRUE]
<1>1. /\ ~msgs[i].dealt
      /\ server' = IF msgs[i].says = "get" THEN server ELSE msgs[i].says
      /\ msgs' = IF msgs[i].mine THEN [msgs EXCEPT ![i] = m] ELSE RemoveAt(msgs, i)
      /\ choice' = IF \E j \in 1..(i - 1) : ~msgs[j].dealt THEN "lost" ELSE choice
      /\ loaded' = loaded /\ status' = status
  BY DEF ServerTurns
<1>2. msgs[i] \in Msgs /\ server' \in Status
  <2>1. msgs[i] \in Msgs
    BY SwitchFacts
  <2>2. msgs[i].says \in Status \cup {"get"} /\ server \in Status
    BY <2>1 DEF Msgs, SwitchTypeOK
  <2>. QED
    BY <1>1, <2>1, <2>2
<1>3. m \in Msgs /\ m.says = server' /\ m.dealt = TRUE /\ m.mine = msgs[i].mine
  BY <1>2, AnswerField, Zenon DEF Msgs
<1> HIDE DEF m
<1>4. [msgs EXCEPT ![i] = m] \in Seq(Msgs) /\ Len([msgs EXCEPT ![i] = m]) = Len(msgs)
      /\ \A k \in 1..Len(msgs) : [msgs EXCEPT ![i] = m][k] = IF k = i THEN m ELSE msgs[k]
  BY <1>3, SwitchFacts, ReplaceEffect
<1>5. RemoveAt(msgs, i) \in Seq(Msgs) /\ Len(RemoveAt(msgs, i)) = Len(msgs) - 1
  BY SwitchFacts, RemoveAtEffect
<1>6. msgs' \in Seq(Msgs) /\ Len(msgs') <= MaxMsgs
  <2>1. CASE msgs[i].mine
    BY <1>1, <1>4, <2>1, SwitchFacts
  <2>2. CASE ~msgs[i].mine
    BY <1>1, <1>5, <2>2, SwitchFacts, SwitchAssumption
  <2>. QED
    BY <2>1, <2>2
<1>7. choice' \in Status \cup {"none", "lost"}
  BY <1>1 DEF SwitchTypeOK
<1>8. SwitchTypeOK'
  BY <1>1, <1>2, <1>6, <1>7, Zenon DEF SwitchTypeOK
<1>9. ASSUME choice' # "lost"
      PROVE  AllMine' /\ InOrder' /\ Len(msgs') # 0 /\ LastDecides'
  <2>1. choice # "lost" /\ choice' = choice /\ \A j \in 1..(i - 1) : msgs[j].dealt
    BY <1>1, <1>9
  <2>2. Len(msgs) \in Nat /\ Len(msgs) # 0
    BY SwitchFacts
  <2>3. AllMine /\ InOrder /\ LastDecides
    BY <2>1, <2>2 DEF SettleInv
  <2>4. msgs[i].mine
    BY <2>3 DEF AllMine
  <2>5. Len(msgs') = Len(msgs) /\ \A k \in 1..Len(msgs) : msgs'[k] = IF k = i THEN m ELSE msgs[k]
    BY <1>1, <1>4, <2>4
  <2>6. AllMine'
    BY <1>3, <2>3, <2>4, <2>5 DEF AllMine
  <2>7. InOrder'
    <3> SUFFICES ASSUME NEW j \in 1..Len(msgs), NEW k \in 1..Len(msgs), j < k, msgs'[k].dealt
                 PROVE  msgs'[j].dealt
      BY <2>5 DEF InOrder
    <3>1. CASE j = i
      BY <1>3, <2>5, <3>1
    <3>2. CASE j # i /\ k = i
      <4>1. j \in 1..(i - 1)
        BY <3>2
      <4>. QED
        BY <2>1, <2>5, <3>2, <4>1
    <3>3. CASE j # i /\ k # i
      BY <2>3, <2>5, <3>3 DEF InOrder
    <3>. QED
      BY <3>1, <3>2, <3>3
  <2>8. LastDecides'
    <3>1. Len(msgs) \in 1..Len(msgs) /\ msgs'[Len(msgs')] = IF Len(msgs) = i THEN m ELSE msgs[Len(msgs)]
      BY <2>2, <2>5
    <3>2. CASE Len(msgs) = i
      <4>1. choice \in {msgs[i].says, "none"}
        BY <2>3, <3>2 DEF LastDecides
      <4>2. choice # "get"
        BY <2>1 DEF SwitchTypeOK, Status
      <4>3. choice \in {server', "none"}
        BY <1>1, <4>1, <4>2
      <4>. QED
        BY <1>3, <2>1, <3>1, <3>2, <4>3 DEF LastDecides
    <3>3. CASE Len(msgs) # i
      <4>1. ~msgs[Len(msgs)].dealt
        BY <1>1, <2>2, <2>3, <3>3 DEF InOrder
      <4>. QED
        BY <2>1, <2>3, <3>1, <3>3, <4>1 DEF LastDecides
    <3>. QED
      BY <3>2, <3>3
  <2>. QED
    BY <2>2, <2>5, <2>6, <2>7, <2>8
<1>10. AnswersTold'
  <2>1. CASE msgs[i].mine
    <3>1. msgs' = [msgs EXCEPT ![i] = m] /\ Len(msgs') = Len(msgs)
      BY <1>1, <1>4, <2>1
    <3>2. m.says # "get"
      BY <1>2, <1>3 DEF Status
    <3>. QED
      BY <1>4, <3>1, <3>2 DEF AnswersTold
  <2>2. CASE ~msgs[i].mine
    BY <1>1, <2>2, RemovedTold
  <2>. QED
    BY <2>1, <2>2
<1>. QED
  BY <1>8, <1>9, <1>10 DEF SettleInv

\* The first answer comes; when it was the last one too, everything agrees.
LEMMA StatusArrivesStep ==
    ASSUME SwitchIInv, NEW i \in 1..Len(msgs), StatusArrives(i)
    PROVE  SwitchIInv'
<1> USE DEF SwitchIInv
<1>1. /\ msgs[i].dealt
      /\ status' = IF msgs[i].mine THEN msgs[i].says ELSE status
      /\ msgs' = RemoveAt(msgs, i)
      /\ choice' = IF i > 1 THEN "lost" ELSE choice
      /\ loaded' = loaded /\ server' = server
  BY DEF StatusArrives
<1>2. /\ msgs' \in Seq(Msgs) /\ Len(msgs') = Len(msgs) - 1
      /\ \A k \in 1..(Len(msgs) - 1) : msgs'[k] = IF k < i THEN msgs[k] ELSE msgs[k + 1]
  BY <1>1, SwitchFacts, RemoveAtEffect
<1>3. Len(msgs') <= MaxMsgs
  BY <1>2, SwitchFacts, SwitchAssumption
<1>4. status' \in Status
  <2>1. msgs[i] \in Msgs /\ msgs[i].says # "get"
    BY <1>1, SwitchFacts DEF AnswersTold
  <2>2. msgs[i].says \in Status
    BY <2>1 DEF Msgs
  <2>. QED
    BY <1>1, <2>2 DEF SwitchTypeOK
<1>5. choice' \in Status \cup {"none", "lost"}
  BY <1>1 DEF SwitchTypeOK
<1>6. SwitchTypeOK'
  BY <1>1, <1>2, <1>3, <1>4, <1>5, Zenon DEF SwitchTypeOK
<1>7. AnswersTold'
  BY <1>1, RemovedTold
<1>8. ASSUME choice' # "lost"
      PROVE  /\ AllMine' /\ InOrder'
             /\ IF Len(msgs') = 0 THEN status' = server' /\ choice' \in {status', "none"}
                ELSE LastDecides'
  <2>1. i = 1 /\ choice # "lost" /\ choice' = choice
    BY <1>1, <1>8
  <2>2. Len(msgs) \in Nat /\ Len(msgs) # 0
    BY SwitchFacts
  <2>3. AllMine /\ InOrder /\ LastDecides
    BY <2>1, <2>2 DEF SettleInv
  <2>4. \A k \in 1..Len(msgs') : k + 1 \in 1..Len(msgs) /\ msgs'[k] = msgs[k + 1]
    BY <1>2, <2>1, <2>2
  <2>5. AllMine'
    BY <2>3, <2>4 DEF AllMine
  <2>6. InOrder'
    <3> SUFFICES ASSUME NEW j \in 1..Len(msgs'), NEW k \in 1..Len(msgs'), j < k, msgs'[k].dealt
                 PROVE  msgs'[j].dealt
      BY DEF InOrder
    <3>1. j + 1 < k + 1
      OBVIOUS
    <3>. QED
      BY <2>3, <2>4, <3>1 DEF InOrder
  <2>7. CASE Len(msgs') = 0
    <3>1. Len(msgs) = 1
      BY <1>2, <2>2, <2>7
    <3>2. msgs[1].mine /\ status' = msgs[1].says
      BY <1>1, <2>1, <2>3, <3>1 DEF AllMine
    <3>3. server = msgs[1].says /\ choice \in {msgs[1].says, "none"}
      BY <1>1, <2>1, <2>3, <3>1 DEF LastDecides
    <3>. QED
      BY <1>1, <2>1, <2>5, <2>6, <2>7, <3>2, <3>3
  <2>8. CASE Len(msgs') # 0
    <3>1. Len(msgs') \in 1..Len(msgs') /\ Len(msgs') + 1 = Len(msgs)
      BY <1>2, <2>2, <2>8
    <3>2. msgs'[Len(msgs')] = msgs[Len(msgs)]
      BY <2>4, <3>1
    <3>3. LastDecides'
      BY <1>1, <2>1, <2>3, <3>2 DEF LastDecides
    <3>. QED
      BY <2>5, <2>6, <2>8, <3>3
  <2>. QED
    BY <2>7, <2>8
<1>. QED
  BY <1>6, <1>7, <1>8 DEF SettleInv

\* Whether the server may still act on it or not, nothing is claimed any more.
LEMMA MsgFailsStep ==
    ASSUME SwitchIInv, NEW i \in 1..Len(msgs), MsgFails(i)
    PROVE  SwitchIInv'
<1> USE DEF SwitchIInv
<1>1. choice' = "lost" /\ loaded' = loaded /\ status' = status /\ server' = server
  BY DEF MsgFails
<1>2. CASE msgs' = RemoveAt(msgs, i)
  <2>1. msgs' \in Seq(Msgs) /\ Len(msgs') <= MaxMsgs
    BY <1>2, SwitchFacts, RemoveAtEffect, SwitchAssumption
  <2>2. SwitchTypeOK'
    BY <1>1, <2>1, Zenon DEF SwitchTypeOK
  <2>. QED
    BY <1>1, <1>2, <2>2, RemovedTold DEF SettleInv
<1>3. CASE ~msgs[i].dealt /\ msgs' = [msgs EXCEPT ![i] = Unheard(msgs[i])]
  <2>1. Unheard(msgs[i]) \in Msgs
    BY SwitchFacts, UnheardType
  <2>2. /\ msgs' \in Seq(Msgs) /\ Len(msgs') = Len(msgs)
        /\ \A k \in 1..Len(msgs) : msgs'[k] = IF k = i THEN Unheard(msgs[i]) ELSE msgs[k]
    BY <1>3, <2>1, SwitchFacts, ReplaceEffect
  <2>3. Len(msgs') <= MaxMsgs
    BY <2>2, SwitchFacts
  <2>4. SwitchTypeOK'
    BY <1>1, <2>2, <2>3, Zenon DEF SwitchTypeOK
  <2>5. Unheard(msgs[i]).dealt = msgs[i].dealt
    BY SwitchFacts, UnheardType
  <2>6. AnswersTold'
    BY <1>3, <2>2, <2>5 DEF AnswersTold
  <2>. QED
    BY <1>1, <2>4, <2>6 DEF SettleInv
<1>. QED
  BY <1>2, <1>3 DEF MsgFails, StillToStore

\* A new menu claims nothing.
LEMMA NewSwitchStep ==
    ASSUME SwitchIInv, NewSwitch
    PROVE  SwitchIInv'
<1> USE DEF SwitchIInv
<1>1. loaded' = FALSE /\ status' = "on" /\ status' \in Status /\ choice' = "lost"
  BY DEF NewSwitch, Status
<1>2. CASE msgs' = [k \in DOMAIN msgs |-> Unheard(msgs[k])] /\ server' = server
  <2>1. msgs' \in Seq(Msgs) /\ Len(msgs') = Len(msgs) /\ Len(msgs') <= MaxMsgs
    BY <1>2, SwitchFacts, AllUnheard
  <2>2. server' \in Status /\ loaded' \in BOOLEAN
    BY <1>1, <1>2 DEF SwitchTypeOK
  <2>3. SwitchTypeOK'
    BY <1>1, <2>1, <2>2, Zenon DEF SwitchTypeOK
  <2>4. \A k \in 1..Len(msgs) : k \in DOMAIN msgs /\ msgs[k] \in Msgs
    BY SwitchFacts
  <2>5. \A k \in 1..Len(msgs) : msgs'[k].dealt = msgs[k].dealt /\ msgs'[k].says = msgs[k].says
    BY <1>2, <2>4, UnheardType
  <2>6. AnswersTold'
    BY <2>1, <2>5 DEF AnswersTold
  <2>. QED
    BY <1>1, <2>3, <2>6 DEF SettleInv
<1>3. CASE msgs' = <<>> /\ server' \in Status
  <2>1. msgs' \in Seq(Msgs) /\ Len(msgs') = 0 /\ Len(msgs') <= MaxMsgs
    BY <1>3, SwitchAssumption
  <2>2. loaded' \in BOOLEAN
    BY <1>1
  <2>3. SwitchTypeOK'
    BY <1>1, <1>3, <2>1, <2>2, Zenon DEF SwitchTypeOK
  <2>4. AnswersTold'
    BY <2>1 DEF AnswersTold
  <2>. QED
    BY <1>1, <2>3, <2>4 DEF SettleInv
<1>. QED
  BY <1>2, <1>3 DEF NewSwitch

LEMMA SwitchUnchanged ==
    ASSUME SwitchIInv, UNCHANGED switchVars
    PROVE  SwitchIInv'
  BY DEF SwitchIInv, switchVars, SwitchTypeOK, AnswersTold, SettleInv, AllMine, InOrder, LastDecides

LEMMA LoadSwitchStep ==
    ASSUME SwitchIInv, LoadSwitch
    PROVE  SwitchIInv'
<1>1. CASE UNCHANGED switchVars
  BY <1>1, SwitchUnchanged
<1>2. CASE loaded' = TRUE /\ SendMsg("get") /\ Intend("none") /\ UNCHANGED <<status, server>>
  <2>1. status' \in Status /\ loaded' \in BOOLEAN
    BY <1>2 DEF SwitchIInv, SwitchTypeOK
  <2>. QED
    BY <1>2, <2>1, SendStep
<1>. QED
  BY <1>1, <1>2 DEF LoadSwitch

LEMMA MsgButtonClickStep ==
    ASSUME SwitchIInv, MsgButtonClick
    PROVE  SwitchIInv'
<1>1. status' \in Status /\ loaded' = loaded /\ server' = server
  BY OppositeType DEF MsgButtonClick, SwitchIInv, SwitchTypeOK
<1>2. SendMsg(status') /\ Intend(status') /\ loaded' \in BOOLEAN
  BY DEF MsgButtonClick, SwitchIInv, SwitchTypeOK
<1> DEFINE new == status'
<1>3. new \in Status /\ SendMsg(new) /\ Intend(new)
  BY <1>1, <1>2
<1>. QED
  BY <1>1, <1>2, <1>3, SendStep

LEMMA SwitchInitIInv == SwitchInit => SwitchIInv
<1> SUFFICES ASSUME SwitchInit PROVE SwitchIInv
  OBVIOUS
<1>1. msgs = <<>> /\ msgs \in Seq(Msgs) /\ Len(msgs) = 0 /\ Len(msgs) <= MaxMsgs
  BY SwitchAssumption DEF SwitchInit
<1>2. loaded \in BOOLEAN /\ status \in Status /\ server \in Status /\ choice = "lost"
  BY DEF SwitchInit, Status
<1>3. SwitchTypeOK
  BY <1>1, <1>2, Zenon DEF SwitchTypeOK
<1>. QED
  BY <1>1, <1>2, <1>3 DEF SwitchIInv, AnswersTold, SettleInv

\* Every step of the menu keeps it: a tap and the network's steps, the first
\* presentation, a new root controller, and the steps that leave it alone.
LEMMA SwitchStepIInv == SwitchIInv /\ [MenuNext]_allVars => SwitchIInv'
<1> SUFFICES ASSUME SwitchIInv, [MenuNext]_allVars PROVE SwitchIInv'
  OBVIOUS
<1>1. CASE UNCHANGED switchVars
  BY <1>1, SwitchUnchanged
<1>2. CASE LoadSwitch
  BY <1>2, LoadSwitchStep
<1>3. CASE NewSwitch
  BY <1>3, NewSwitchStep
<1>4. CASE MsgButtonClick
  BY <1>4, MsgButtonClickStep
<1>5. CASE SwitchAnswered
  BY <1>5, ServerTurnsStep, StatusArrivesStep, MsgFailsStep DEF SwitchAnswered
<1>6. QED
  BY <1>1, <1>2, <1>3, <1>4, <1>5 DEF MenuNext, RootReplaced, SwitchStep, allVars

\* setMsgButtonStatus and the cell's block: for any number of taps and requests,
\* when everything asked was answered in order the switch, the server and the
\* last tap agree.
THEOREM SwitchSettlesAlways == MenuSpec => []SwitchSettles
<1>1. MenuInit => SwitchIInv
  BY SwitchInitIInv DEF MenuInit
<1>2. SwitchIInv => SwitchSettles
  BY SwitchFacts DEF SwitchIInv, SettleInv, SwitchSettles
<1>3. QED
  BY <1>1, <1>2, SwitchStepIInv, PTL DEF MenuSpec

-----------------------------------------------------------------------------
(* The types of the rows.                                                     *)

RowTypes ==
    /\ installed \in Versions
    /\ hud \in {"none", "check", "clear", "logout"}
    /\ alert \in Versions \cup {NoAlert}
    /\ launchCheck \in BOOLEAN
    /\ menuCheck \in BOOLEAN
    /\ clearing \in BOOLEAN

LEMMA ShowAlertType ==
    ASSUME NEW store \in Versions \cup {NoAnswer}, IsUpdate(installed, store), ShowAlert(store),
           alert \in Versions \cup {NoAlert}
    PROVE  alert' \in Versions \cup {NoAlert}
  BY DEF IsUpdate, ShowAlert

LEMMA StoreTypes ==
    ASSUME RowTypes, StoreAnswers
    PROVE  RowTypes'
<1>1. PICK store \in Versions \cup {NoAnswer} : LaunchAnswer(store) \/ MenuAnswer(store)
  BY DEF StoreAnswers
<1>2. CASE LaunchAnswer(store)
  <2>1. alert' \in Versions \cup {NoAlert}
    BY <1>2, ShowAlertType DEF LaunchAnswer, RowTypes
  <2>2. QED
    BY <1>2, <2>1, Zenon DEF LaunchAnswer, RowTypes
<1>3. CASE MenuAnswer(store)
  <2>1. alert' \in Versions \cup {NoAlert}
    BY <1>3, ShowAlertType DEF MenuAnswer, RowTypes
  <2>2. hud' \in {"none", hud}
    BY <1>3 DEF MenuAnswer
  <2>3. hud' \in {"none", "check", "clear", "logout"}
    BY <2>2 DEF RowTypes
  <2>4. QED
    BY <1>3, <2>1, <2>3, Zenon DEF MenuAnswer, RowTypes
<1>4. QED
  BY <1>1, <1>2, <1>3

LEMMA RowTypesStep == RowTypes /\ [MenuNext]_allVars => RowTypes'
<1> SUFFICES ASSUME RowTypes, [MenuNext]_allVars PROVE RowTypes'
  OBVIOUS
<1>1. CASE UNCHANGED rowVars
  BY <1>1, Zenon DEF rowVars, RowTypes
<1>2. CASE StoreAnswers
  BY <1>2, StoreTypes
<1>3. CASE RootReplaced \/ AlertClosed
  BY <1>3 DEF RootReplaced, AlertClosed, RowTypes
<1>4. CASE RowClick
  BY <1>4 DEF RowClick, UpdateClick, WebClick, ClearClick, LogoutClick, RowTypes
<1>5. CASE RowBlock
  BY <1>5 DEF RowBlock, WebPush, Cleared, LogoutSucceeded, HudHides, rowVars, RowTypes
<1>6. QED
  BY <1>1, <1>2, <1>3, <1>4, <1>5 DEF MenuNext, OtherStep, SlipCallback, allVars

\* The rows, the alert and the switch keep their types; the pages to be pushed are
\* never more than the dismissals that may be posted, whatever is tapped.
THEOREM MenuTypeOKAlways == MenuSpec => []MenuTypeOK
<1>1. MenuInit => IInv /\ WebInv /\ SwitchIInv /\ RowTypes
  BY MenuInitIInv, WebInit, SwitchInitIInv DEF MenuInit, RowTypes
<1>2. WebInv /\ SwitchIInv /\ RowTypes => MenuTypeOK
  BY Zenon DEF WebInv, SwitchIInv, RowTypes, MenuTypeOK
<1>3. QED
  BY <1>1, <1>2, MenuStepIInv, WebStep, SwitchStepIInv, RowTypesStep, PTL DEF MenuSpec

-----------------------------------------------------------------------------
(* The versions: filled up to three digits they are compared as their numbers *)
(* are, one by one.                                                           *)

LEMMA PaddedDigits ==
    ASSUME NEW v \in Versions
    PROVE  /\ \A i \in 1..3 : At(v, i) \in 0..9
           /\ Padded(v) = 100 * At(v, 1) + 10 * At(v, 2) + At(v, 3)
<1>1. v \in Seq(0..9) /\ Len(v) \in 1..3
  BY VersionsAssumption
<1>2. \A i \in 1..Len(v) : v[i] \in 0..9
  BY <1>1
<1>3. CASE Len(v) = 1
  <2>1. At(v, 1) = v[1] /\ At(v, 2) = 0 /\ At(v, 3) = 0 /\ v[1] \in 0..9
    BY <1>2, <1>3 DEF At
  <2>2. Padded(v) = 100 * v[1]
    BY <1>3 DEF Padded, Plain
  <2>3. QED
    BY <2>1, <2>2
<1>4. CASE Len(v) = 2
  <2>1. At(v, 1) = v[1] /\ At(v, 2) = v[2] /\ At(v, 3) = 0 /\ v[1] \in 0..9 /\ v[2] \in 0..9
    BY <1>2, <1>4 DEF At
  <2>2. Padded(v) = 10 * (10 * v[1] + v[2])
    BY <1>4 DEF Padded, Plain
  <2>3. QED
    BY <2>1, <2>2
<1>5. CASE Len(v) = 3
  <2>1. /\ At(v, 1) = v[1] /\ At(v, 2) = v[2] /\ At(v, 3) = v[3]
        /\ v[1] \in 0..9 /\ v[2] \in 0..9 /\ v[3] \in 0..9
    BY <1>2, <1>5 DEF At
  <2>2. Padded(v) = 100 * v[1] + 10 * v[2] + v[3]
    BY <1>5 DEF Padded, Plain
  <2>3. QED
    BY <2>1, <2>2
<1>6. QED
  BY <1>1, <1>3, <1>4, <1>5

\* The first digit that differs decides between two numbers of three digits.
LEMMA FirstDigitDecides ==
    ASSUME NEW a \in 0..9, NEW b \in 0..9, NEW c \in 0..9,
           NEW x \in 0..9, NEW y \in 0..9, NEW z \in 0..9,
           100 * a + 10 * b + c < 100 * x + 10 * y + z
    PROVE  x > a \/ (x = a /\ y > b) \/ (x = a /\ y = b /\ z > c)
  OBVIOUS

LEMMA UpdateIsNewer ==
    ASSUME NEW current \in Versions, NEW store \in Versions, IsUpdate(current, store)
    PROVE  Newer(store, current)
<1>1. Padded(current) < Padded(store)
  BY DEF IsUpdate
<1> DEFINE a == At(current, 1)
           b == At(current, 2)
           c == At(current, 3)
           x == At(store, 1)
           y == At(store, 2)
           z == At(store, 3)
<1>2. a \in 0..9 /\ b \in 0..9 /\ c \in 0..9 /\ x \in 0..9 /\ y \in 0..9 /\ z \in 0..9
  BY PaddedDigits
<1>3. 100 * a + 10 * b + c < 100 * x + 10 * y + z
  BY <1>1, PaddedDigits
<1>4. x > a \/ (x = a /\ y > b) \/ (x = a /\ y = b /\ z > c)
  <2> HIDE DEF a, b, c, x, y, z
  <2> QED
    BY <1>2, <1>3, FirstDigitDecides
<1>5. CASE x > a
  BY <1>5 DEF Newer
<1>6. CASE x = a /\ y > b
  <2>1. \A j \in 1..(2 - 1) : j = 1
    OBVIOUS
  <2>2. \A j \in 1..(2 - 1) : At(store, j) = At(current, j)
    BY <1>6, <2>1
  <2>3. QED
    BY <1>6, <2>2 DEF Newer
<1>7. CASE x = a /\ y = b /\ z > c
  <2>1. \A j \in 1..(3 - 1) : j = 1 \/ j = 2
    OBVIOUS
  <2>2. \A j \in 1..(3 - 1) : At(store, j) = At(current, j)
    BY <1>7, <2>1
  <2>3. QED
    BY <1>7, <2>2 DEF Newer
<1>8. QED
  BY <1>4, <1>5, <1>6, <1>7

LEMMA StoreNewer ==
    ASSUME RowTypes, AlertIsNewer, StoreAnswers
    PROVE  AlertIsNewer'
<1>1. PICK store \in Versions \cup {NoAnswer} : LaunchAnswer(store) \/ MenuAnswer(store)
  BY DEF StoreAnswers
<1>2. installed' = installed /\ installed \in Versions
  BY <1>1 DEF LaunchAnswer, MenuAnswer, RowTypes
<1>3. CASE alert' = alert
  BY <1>2, <1>3 DEF AlertIsNewer
<1>4. CASE IsUpdate(installed, store) /\ ShowAlert(store) /\ alert' # alert
  <2>1. store \in Versions /\ alert' = store
    BY <1>4 DEF IsUpdate, ShowAlert
  <2>2. Newer(store, installed)
    BY <1>2, <1>4, <2>1, UpdateIsNewer
  <2>3. QED
    BY <1>2, <2>1, <2>2 DEF AlertIsNewer
<1>5. QED
  BY <1>1, <1>3, <1>4 DEF LaunchAnswer, MenuAnswer

LEMMA NewerStep == RowTypes /\ AlertIsNewer /\ [MenuNext]_allVars => AlertIsNewer'
<1> SUFFICES ASSUME RowTypes, AlertIsNewer, [MenuNext]_allVars PROVE AlertIsNewer'
  OBVIOUS
<1>1. CASE UNCHANGED <<installed, alert>>
  BY <1>1 DEF AlertIsNewer
<1>2. CASE StoreAnswers
  BY <1>2, StoreNewer
<1>3. CASE RootReplaced \/ AlertClosed
  <2>1. alert' = NoAlert
    BY <1>3 DEF RootReplaced, AlertClosed
  <2>2. QED
    BY <2>1 DEF AlertIsNewer
<1>4. CASE RowClick \/ RowBlock
  <2>1. UNCHANGED <<installed, alert>>
    BY <1>4 DEF RowClick, UpdateClick, WebClick, ClearClick, LogoutClick,
                RowBlock, WebPush, Cleared, LogoutSucceeded, HudHides, rowVars
  <2>2. QED
    BY <1>1, <2>1
<1>5. CASE UNCHANGED rowVars
  BY <1>1, <1>5 DEF rowVars
<1>6. QED
  BY <1>2, <1>3, <1>4, <1>5 DEF MenuNext, OtherStep, SlipCallback, allVars

\* The update alert offers a version newer than the installed one
\* (hs_updateWithAPPID), whichever check found it and whatever hid alerts before
\* it, for every set of versions of one to three digits.
THEOREM AlertIsNewerAlways == MenuSpec => []AlertIsNewer
<1>1. MenuInit => RowTypes /\ AlertIsNewer
  BY DEF MenuInit, RowTypes, AlertIsNewer
<1>2. QED
  BY <1>1, RowTypesStep, NewerStep, PTL DEF MenuSpec
=============================================================================
