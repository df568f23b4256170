--------------------------- MODULE LeftSlipProofs ---------------------------
(***************************************************************************)
(* The observer of the edge swipe, for any stack and any number of delayed *)
(* blocks.  The invariant adds what the three properties leave open: a     *)
(* swipe under way needs the swipe enabled and watched too, for its page   *)
(* may come back, and nothing is under way without a controller.           *)
(***************************************************************************)
EXTENDS LeftSlip, TLAPS

\* The page on screen can be swiped, or is being swiped.
Swipable == depth > 1 \/ swipe # "none"

IInv ==
    /\ TypeOK
    /\ swipe # "none" => depth < MaxDepth
    /\ ObserverBalanced
    /\ nav = "none" => ~stateObserve /\ swipe = "none"
    /\ nav # "none" /\ Swipable /\ ~outrun => popEnabled /\ stateObserve

-----------------------------------------------------------------------------

\* The inductive invariant holds initially.
LEMMA InitIInv == Init => IInv
<1> SUFFICES ASSUME Init PROVE IInv
  OBVIOUS
<1>1. TypeOK
  <2>1. 1 \in 1..MaxDepth /\ 0 \in 0..MaxEnds /\ 0 \in 0..MaxDismissals /\ 0 \in Nat
    BY SlipAssumption
  <2>2. QED
    BY Zenon, <2>1 DEF Init, TypeOK
<1>2. ObserverBalanced
  BY DEF Init, ObserverBalanced
<1>3. ~stateObserve /\ swipe = "none" /\ nav = "none"
  BY DEF Init
<1>4. QED
  BY Zenon, <1>1, <1>2, <1>3 DEF IInv

\* Adding the observer where there may be one leaves exactly one.
LEMMA ObserveBalances ==
    ASSUME TypeOK, ObserverBalanced, Observe
    PROVE  observers' = 1 /\ stateObserve'
  BY DEF TypeOK, ObserverBalanced, Observe

\* Removing it where there may be none leaves none.
LEMMA RemoveBalances ==
    ASSUME TypeOK, ObserverBalanced, RemoveObserver
    PROVE  observers' = 0 /\ ~stateObserve'
  BY DEF TypeOK, ObserverBalanced, RemoveObserver

\* A pushed page is watched and can be swiped.
LEMMA PushIInv == IInv /\ PushPage /\ nav # "none" => IInv'
<1> SUFFICES ASSUME IInv, PushPage, nav # "none" PROVE IInv'
  OBVIOUS
<1>1. observers' = 1 /\ stateObserve'
  BY ObserveBalances DEF PushPage, IInv
<1>2. TypeOK'
  <2>1. depth' \in 1..MaxDepth
    BY SlipAssumption DEF IInv, TypeOK, PushPage
  <2>2. stateObserve' \in BOOLEAN
    BY <1>1 DEF PushPage, Observe
  <2>3. QED
    BY <1>1, <2>1, <2>2 DEF IInv, TypeOK, PushPage, menuVars
<1>3. QED
  BY <1>1, <1>2 DEF IInv, PushPage, ObserverBalanced

\* The delayed block leaves the observer balanced, and a swipe it cuts short
\* is one it has outrun.
LEMMA EndBlockIInv == IInv /\ EndBlock => IInv'
<1> SUFFICES ASSUME IInv, EndBlock PROVE IInv'
  OBVIOUS
<1>1. UNCHANGED <<nav, depth, menu, mask, showLeft, dismissals>>
  BY DEF EndBlock, menuVars
<1>2. CASE depth = 1 /\ Disable /\ RemoveObserver /\ outrun' = (outrun \/ swipe # "none")
  <2>1. observers' = 0 /\ ~stateObserve'
    BY <1>2, RemoveBalances DEF IInv
  <2>2. ends' \in 0..MaxEnds
    BY <1>2, SlipAssumption DEF EndBlock, Disable, IInv, TypeOK
  <2>3. /\ swipe' \in {"none", "pop", "back"}
        /\ swipe' = "none" <=> swipe = "none"
    BY <1>2 DEF Disable, IInv, TypeOK
  <2>4. TypeOK'
    <3>1. stateObserve' = FALSE
      BY <1>2 DEF RemoveObserver
    <3>2. popEnabled' = FALSE
      BY <1>2 DEF Disable
    <3>3. outrun' \in BOOLEAN
      BY <1>2 DEF IInv, TypeOK
    <3>4. QED
      BY <1>1, <2>1, <2>2, <2>3, <3>1, <3>2, <3>3 DEF IInv, TypeOK
  <2>5. Swipable' => outrun'
    <3>1. Swipable' => swipe # "none"
      BY <1>1, <1>2, <2>3 DEF Swipable
    <3>2. QED
      BY <1>2, <3>1
  <2>6. swipe' # "none" => depth' < MaxDepth
    BY <1>1, <2>3 DEF IInv
  <2>7. ObserverBalanced'
    BY <2>1 DEF ObserverBalanced
  <2>8. nav' = "none" => ~stateObserve' /\ swipe' = "none"
    BY <1>1, <2>1, <2>3 DEF IInv
  <2>9. QED
    BY <2>4, <2>5, <2>6, <2>7, <2>8 DEF IInv
<1>3. CASE /\ depth > 1 /\ ends' = ends - 1
           /\ UNCHANGED <<swipe, popEnabled, stateObserve, observers, outrun>>
  <2>1. ends' \in 0..MaxEnds
    BY <1>3, SlipAssumption DEF EndBlock, IInv, TypeOK
  <2>2. TypeOK'
    BY <1>1, <1>3, <2>1 DEF IInv, TypeOK
  <2>3. QED
    BY <1>1, <1>3, <2>2 DEF IInv, ObserverBalanced, Swipable
<1>4. QED
  BY <1>2, <1>3 DEF EndBlock

\* A step of the menu alone touches nothing of the invariant but the types.
LEMMA MenuIInv == IInv /\ TypeOK' /\ UNCHANGED <<nav, stackVars>> => IInv'
  BY DEF IInv, stackVars, ObserverBalanced, Swipable

\* Every step keeps the inductive invariant.
LEMMA NextIInv == IInv /\ [Next]_vars => IInv'
<1> SUFFICES ASSUME IInv, [Next]_vars PROVE IInv'
  OBVIOUS
<1>1. CASE Push
  BY <1>1, PushIInv DEF Push, OnScreen
<1>2. CASE Pop
  <2>1. TypeOK'
    <3>1. depth' \in 1..MaxDepth
      BY <1>2, SlipAssumption DEF Pop, IInv, TypeOK
    <3>2. popEnabled' \in BOOLEAN
      BY <1>2 DEF Pop, IInv, TypeOK
    <3>3. QED
      BY <1>2, <3>1, <3>2 DEF Pop, IInv, TypeOK, menuVars
  <2>2. Swipable' => Swipable /\ popEnabled' = popEnabled
    BY <1>2 DEF Pop, IInv, TypeOK, Swipable
  <2>3. UNCHANGED <<nav, swipe, stateObserve, observers, outrun>>
    BY <1>2 DEF Pop
  <2>4. swipe = "none"
    BY <1>2 DEF Pop
  <2>5. QED
    BY <2>1, <2>2, <2>3, <2>4 DEF IInv, ObserverBalanced
<1>3. ASSUME GestureEnds PROVE ends' \in 0..MaxEnds
  BY <1>3, SlipAssumption DEF GestureEnds, IInv, TypeOK
<1>4. CASE TouchFails
  <2>1. TypeOK'
    BY <1>3, <1>4 DEF TouchFails, IInv, TypeOK, menuVars
  <2>2. QED
    BY <1>4, <2>1 DEF TouchFails, IInv, ObserverBalanced, Swipable
<1>5. CASE SwipeStarts
  <2>1. depth' \in 1..MaxDepth /\ depth' < MaxDepth /\ Swipable
    BY <1>5, SlipAssumption DEF SwipeStarts, IInv, TypeOK, Swipable
  <2>2. TypeOK'
    BY <1>5, <2>1 DEF SwipeStarts, IInv, TypeOK, menuVars
  <2>3. QED
    BY <1>5, <2>1, <2>2 DEF SwipeStarts, OnScreen, IInv, ObserverBalanced
<1>6. CASE SwipeEnds
  <2>1. TypeOK'
    BY <1>3, <1>6 DEF SwipeEnds, IInv, TypeOK, menuVars
  <2>2. Swipable
    BY <1>6 DEF SwipeEnds, Swipable
  <2>3. QED
    BY <1>6, <2>1, <2>2 DEF SwipeEnds, IInv, ObserverBalanced
<1>7. CASE SwipeUndone
  <2>1. depth' \in 1..MaxDepth /\ Swipable
    BY <1>7, SlipAssumption DEF SwipeUndone, IInv, TypeOK, Swipable
  <2>2. TypeOK'
    BY <1>7, <2>1 DEF SwipeUndone, IInv, TypeOK, menuVars
  <2>3. QED
    BY <1>7, <2>1, <2>2 DEF SwipeUndone, IInv, ObserverBalanced
<1>8. CASE EndBlock
  BY <1>8, EndBlockIInv
<1>9. CASE ShowLeftView
  BY <1>9, MenuIInv DEF ShowLeftView, stackVars, IInv, TypeOK
<1>10. CASE Presented
  BY <1>10, MenuIInv DEF Presented, stackVars, IInv, TypeOK
<1>11. CASE TapMask
  BY <1>11, MenuIInv, SlipAssumption DEF TapMask, DismissLeftView, stackVars, IInv, TypeOK
<1>12. CASE RunDismissal
  <2>1. dismissals' \in 0..MaxDismissals
    BY <1>12, SlipAssumption DEF RunDismissal, IInv, TypeOK
  <2>2. mask' \in BOOLEAN /\ menu' \in {"hidden", "presenting", "shown", "dismissing"}
    BY <1>12 DEF RunDismissal, IInv, TypeOK
  <2>3. QED
    BY <1>12, <2>1, <2>2, MenuIInv DEF RunDismissal, stackVars, IInv, TypeOK
<1>13. CASE Dismissed
  BY <1>13, MenuIInv DEF Dismissed, stackVars, IInv, TypeOK
<1>14. CASE PresenterGone
  BY <1>14, MenuIInv DEF PresenterGone, stackVars, IInv, TypeOK
<1>15. CASE ConfigLoginRootVC
  BY <1>15 DEF ConfigLoginRootVC, stackVars, menuVars, IInv, TypeOK, ObserverBalanced, Swipable
<1>16. CASE Dealloc
  <2>1. observers' = 0 /\ ~stateObserve'
    BY <1>16, RemoveBalances DEF Dealloc, IInv
  <2>2. TypeOK'
    <3>1. stateObserve' = FALSE
      BY <1>16 DEF Dealloc, RemoveObserver
    <3>2. QED
      BY <1>16, <2>1, <3>1 DEF Dealloc, IInv, TypeOK, menuVars
  <2>3. swipe = "none" /\ UNCHANGED <<depth, swipe, popEnabled, outrun>>
    BY <1>16 DEF Dealloc, Released
  <2>4. nav' = "none"
    BY <1>16 DEF Dealloc
  <2>5. QED
    BY <2>1, <2>2, <2>3, <2>4 DEF IInv, ObserverBalanced
<1>17. CASE ConfigureMainViewController
  <2>1. ~stateObserve /\ swipe = "none" /\ 1 \in 1..MaxDepth
    BY <1>17, SlipAssumption DEF ConfigureMainViewController, IInv
  <2>2. TypeOK'
    BY <1>17, <2>1 DEF ConfigureMainViewController, IInv, TypeOK, menuVars
  <2>3. ~Swipable'
    BY <1>17, <2>1 DEF ConfigureMainViewController, Swipable
  <2>4. QED
    BY <1>17, <2>1, <2>2, <2>3 DEF ConfigureMainViewController, IInv, ObserverBalanced
<1>18. CASE UNCHANGED vars
  BY <1>18 DEF vars, stackVars, menuVars, IInv, TypeOK, ObserverBalanced, Swipable
<1>19. QED
  BY <1>1, <1>2, <1>4, <1>5, <1>6, <1>7, <1>8, <1>9, <1>10, <1>11, <1>12, <1>13, <1>14,
     <1>15, <1>16, <1>17, <1>18 DEF Next, Touches, PageTouches, Callbacks

\* The inductive invariant always holds.
THEOREM InvariantHolds == Spec => []IInv
  BY InitIInv, NextIInv, PTL DEF Spec

\* The navigation stack, the gesture and the menu keep their types.
THEOREM TypeCorrect == Spec => []TypeOK
<1>1. IInv => TypeOK
  BY DEF IInv
<1>2. QED
  BY <1>1, InvariantHolds, PTL

\* The observer is never added twice nor removed twice
\* (DYL_pushViewController, observeValueForKeyPath).
THEOREM ObserverBalancedAlways == Spec => []ObserverBalanced
<1>1. IInv => ObserverBalanced
  BY DEF IInv
<1>2. QED
  BY <1>1, InvariantHolds, PTL

\* No observer is left on the gesture of a controller that is gone
\* (DYL_dealloc).
THEOREM NoObserverLeftAlways == Spec => []NoObserverLeft
<1>1. IInv => NoObserverLeft
  BY DEF IInv, ObserverBalanced, NoObserverLeft
<1>2. QED
  BY <1>1, InvariantHolds, PTL

\* A pushed page can be swiped back unless a delayed block outran its swipe
\* (observeValueForKeyPath).
THEOREM PushedPageSwipesAlways == Spec => []PushedPageSwipes
<1>1. IInv => PushedPageSwipes
  BY DEF IInv, Swipable, PushedPageSwipes
<1>2. QED
  BY <1>1, InvariantHolds, PTL

-----------------------------------------------------------------------------
(* The mask.  A menu on its way out has taken it along already.               *)

MaskGoesFirst == menu = "dismissing" => ~mask

MaskNotLeft == MaskAlone' => MaskAlone \/ nav = "leaving"

\* A step that touches neither the menu nor the mask.
LEMMA MaskUntouched ==
    ASSUME MaskGoesFirst, UNCHANGED <<menu, mask>>
    PROVE  MaskGoesFirst' /\ MaskNotLeft
  BY DEF MaskGoesFirst, MaskNotLeft, MaskAlone

\* The steps of the menu, and the others.
LEMMA MaskStep ==
    ASSUME MaskGoesFirst, [Next]_vars
    PROVE  MaskGoesFirst' /\ MaskNotLeft
<1>1. CASE ShowLeftView
  BY <1>1 DEF ShowLeftView, MaskGoesFirst, MaskNotLeft, MaskAlone
<1>2. CASE Presented
  BY <1>2 DEF Presented, MaskGoesFirst, MaskNotLeft, MaskAlone
<1>3. CASE RunDismissal
  <2>1. CASE menu = "shown" /\ menu' = "dismissing" /\ mask' = FALSE
    BY <2>1 DEF MaskGoesFirst, MaskNotLeft, MaskAlone
  <2>2. CASE UNCHANGED <<menu, mask>>
    BY <2>2, MaskUntouched
  <2>3. QED
    BY <1>3, <2>1, <2>2 DEF RunDismissal
<1>4. CASE Dismissed
  BY <1>4 DEF Dismissed, MaskGoesFirst, MaskNotLeft, MaskAlone
<1>5. CASE PresenterGone
  BY <1>5 DEF PresenterGone, MaskGoesFirst, MaskNotLeft, MaskAlone
<1>6. CASE \/ Push \/ Pop \/ TouchFails \/ SwipeStarts \/ TapMask
           \/ SwipeEnds \/ SwipeUndone \/ EndBlock
           \/ ConfigLoginRootVC \/ Dealloc \/ ConfigureMainViewController
           \/ UNCHANGED vars
  <2>1. UNCHANGED <<menu, mask>>
    BY <1>6 DEF Push, PushPage, Pop, TouchFails, SwipeStarts, TapMask, SwipeEnds, SwipeUndone,
                EndBlock, ConfigLoginRootVC, Dealloc, ConfigureMainViewController, menuVars, vars
  <2>2. QED
    BY <2>1, MaskUntouched
<1>7. QED
  BY <1>1, <1>2, <1>3, <1>4, <1>5, <1>6 DEF Next, Touches, PageTouches, Callbacks

\* No menu and no mask at first.
LEMMA MaskInit == Init => MaskGoesFirst
  BY DEF Init, MaskGoesFirst

\* tapView, dismissLeftView, animateTransition: a mask is left over the page only
\* by a root controller that was replaced under its menu.
THEOREM OnlyReplacementLeavesMaskAlways == Spec => OnlyReplacementLeavesMask
<1>1. MaskGoesFirst /\ [Next]_vars => MaskGoesFirst'
  BY MaskStep
<1>2. MaskGoesFirst /\ [Next]_vars => [MaskAlone' => MaskAlone \/ nav = "leaving"]_vars
  BY MaskStep DEF MaskNotLeft
<1>3. QED
  BY <1>1, <1>2, MaskInit, PTL DEF Spec, OnlyReplacementLeavesMask
=============================================================================
