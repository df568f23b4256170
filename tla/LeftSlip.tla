------------------------------ MODULE LeftSlip ------------------------------
(***************************************************************************)
(* DYLeftSlipManager: the menu presented beside the main page's navigation *)
(* controller, the transparent mask that closes it when tapped, and the    *)
(* navigation controller's edge swipe, which the manager watches through   *)
(* key-value observation and switches off at the root of the stack.        *)
(*                                                                         *)
(* Push, pop and dealloc of UINavigationController are swizzled: a push    *)
(* adds the observer and enables the swipe; the end of a swipe posts a     *)
(* block that, 0.2 seconds later and only at the root, disables the swipe  *)
(* and removes the observer; dealloc removes one that is left.  A swipe    *)
(* takes its page off the stack at once and puts it back when cancelled,   *)
(* so that the block may find any stack.                                   *)
(*                                                                         *)
(* The manager's own pan gesture is never attached to a view, so that      *)
(* pan:, interactive and setGestureEnabled: have no effect; nothing reads  *)
(* leftViewInShow.  They are left out.                                     *)
(***************************************************************************)
EXTENDS Integers

CONSTANTS
    MaxDepth,       \* bound on the navigation stack
    MaxEnds,        \* bound on the delayed blocks
    MaxDismissals   \* bound on the posted dismissals

ASSUME SlipAssumption ==
    /\ MaxDepth \in Nat \ {0}
    /\ MaxEnds \in Nat
    /\ MaxDismissals \in Nat

VARIABLES
    nav,          \* the navigation controller: "none" (login page), "root" (the
                  \* window's), "leaving" (replaced and not yet deallocated)
    depth,        \* viewControllers.count
    swipe,        \* interactive pop: "none", "pop", "back" (cancelled, its page
                  \* not yet back on the stack)
    popEnabled,   \* interactivePopGestureRecognizer.enabled
    stateObserve, \* the mark kept on the gesture
    observers,    \* observers really registered on it
    ends,         \* delayed blocks of observeValueForKeyPath not yet run
    outrun,       \* a block found the root during a swipe since the last push
    menu,         \* "hidden", "presenting", "shown", "dismissing"
    mask,         \* tapView.alpha is 1
    showLeft,
    dismissals    \* blocks of dismissLeftView not yet run

stackVars == <<depth, swipe, popEnabled, stateObserve, observers, ends, outrun>>
menuVars == <<menu, mask, showLeft, dismissals>>
vars == <<nav, stackVars, menuVars>>

TypeOK ==
    /\ nav \in {"none", "root", "leaving"}
    /\ depth \in 1..MaxDepth
    /\ swipe \in {"none", "pop", "back"}
    /\ popEnabled \in BOOLEAN
    /\ stateObserve \in BOOLEAN
    /\ observers \in Nat
    /\ ends \in 0..MaxEnds
    /\ outrun \in BOOLEAN
    /\ menu \in {"hidden", "presenting", "shown", "dismissing"}
    /\ mask \in BOOLEAN
    /\ showLeft \in BOOLEAN
    /\ dismissals \in 0..MaxDismissals

\* A launch on the login page.
Init ==
    /\ nav = "none"
    /\ depth = 1
    /\ swipe = "none"
    /\ popEnabled = TRUE
    /\ stateObserve = FALSE
    /\ observers = 0
    /\ ends = 0
    /\ outrun = FALSE
    /\ menu = "hidden"
    /\ mask = FALSE
    /\ showLeft = FALSE
    /\ dismissals = 0

\* The navigation controller is on screen and can be touched.
OnScreen == nav = "root" /\ menu = "hidden"

-----------------------------------------------------------------------------
(* The navigation stack and its swipe.                                       *)

\* (mutant) the observer is added without looking for the mark
ObserveAgain ==
    /\ observers' = observers + 1
    /\ stateObserve' = TRUE

\* The push adds the observer unless the gesture carries the mark.
Observe ==
    /\ observers' = IF stateObserve THEN observers ELSE observers + 1
    /\ stateObserve' = TRUE

\* (mutant) the push enables the swipe only with a new observer
PushPageOnce ==
    /\ swipe = "none" /\ depth < MaxDepth
    /\ depth' = depth + 1
    /\ Observe
    /\ popEnabled' = (popEnabled \/ ~stateObserve)
    /\ outrun' = FALSE
    /\ UNCHANGED <<nav, swipe, ends, menuVars>>

\* pushViewController, after which the count is never 1.
PushPage ==
    /\ swipe = "none" /\ depth < MaxDepth
    /\ depth' = depth + 1
    /\ Observe
    /\ popEnabled' = TRUE
    /\ outrun' = FALSE
    /\ UNCHANGED <<nav, swipe, ends, menuVars>>

\* A row, a button or a warning of the main page, or a chart's list.
Push == OnScreen /\ PushPage

\* popViewControllerAnimated by a page's back button, which the mask covers;
\* a second tap may find the root, where the pop returns nil.
Pop ==
    /\ OnScreen /\ ~mask /\ swipe = "none"
    /\ \/ depth > 1 /\ depth' = depth - 1 /\ UNCHANGED popEnabled
       \/ depth = 1 /\ popEnabled' = FALSE /\ UNCHANGED depth
    /\ UNCHANGED <<nav, swipe, stateObserve, observers, ends, outrun, menuVars>>

\* observeValueForKeyPath: the gesture ended, was cancelled or failed; only a
\* registered observer is told.
GestureEnds ==
    /\ ends < MaxEnds
    /\ ends' = IF observers > 0 THEN ends + 1 ELSE ends

\* An edge touch that does not become a swipe.
TouchFails ==
    /\ OnScreen /\ swipe = "none" /\ popEnabled
    /\ GestureEnds
    /\ UNCHANGED <<nav, depth, swipe, popEnabled, stateObserve, observers, outrun, menuVars>>

SwipeStarts ==
    /\ OnScreen /\ swipe = "none" /\ popEnabled /\ depth > 1
    /\ swipe' = "pop"
    /\ depth' = depth - 1
    /\ UNCHANGED <<nav, popEnabled, stateObserve, observers, ends, outrun, menuVars>>

SwipeEnds ==
    /\ swipe = "pop"
    /\ GestureEnds
    /\ swipe' \in {"none", "back"}
    /\ UNCHANGED <<nav, depth, popEnabled, stateObserve, observers, outrun, menuVars>>

SwipeUndone ==
    /\ swipe = "back"
    /\ swipe' = "none"
    /\ depth' = depth + 1
    /\ UNCHANGED <<nav, popEnabled, stateObserve, observers, ends, outrun, menuVars>>

\* Disabling a gesture under way cancels it, and its observer, registered
\* still, posts another block.
Disable ==
    /\ popEnabled' = FALSE
    /\ swipe' = IF swipe = "pop" THEN "back" ELSE swipe
    /\ ends' = IF swipe = "pop" /\ observers > 0 THEN ends ELSE ends - 1

\* (mutant) the block removes the observer without looking at the mark
RemoveUnchecked ==
    /\ observers' = observers - 1
    /\ stateObserve' = FALSE

RemoveObserver ==
    /\ observers' = IF stateObserve THEN observers - 1 ELSE observers
    /\ stateObserve' = FALSE

\* The block posted 0.2 seconds earlier.  It holds the navigation controller.
EndBlock ==
    /\ ends > 0
    /\ \/ /\ depth = 1
          /\ Disable
          /\ RemoveObserver
          /\ outrun' = (outrun \/ swipe # "none")
       \/ /\ depth > 1
          /\ ends' = ends - 1
          /\ UNCHANGED <<swipe, popEnabled, stateObserve, observers, outrun>>
    /\ UNCHANGED <<nav, depth, menuVars>>

-----------------------------------------------------------------------------
(* The menu.                                                                 *)

\* showLeftView from the first page's user or weather button, both under the
\* mask; the animation's block shows the mask.
ShowLeftView ==
    /\ OnScreen /\ ~mask /\ depth = 1 /\ swipe = "none"
    /\ menu' = "presenting"
    /\ mask' = TRUE
    /\ UNCHANGED <<nav, stackVars, showLeft, dismissals>>

Presented ==
    /\ menu = "presenting"
    /\ menu' = "shown"
    /\ showLeft' = TRUE
    /\ UNCHANGED <<nav, stackVars, mask, dismissals>>

\* dismissLeftView posts its block.
DismissLeftView ==
    /\ dismissals < MaxDismissals
    /\ dismissals' = dismissals + 1

\* A tap on the mask, over the page beside the menu or over a page alone.
TapMask ==
    /\ mask /\ nav = "root" /\ menu \in {"hidden", "shown"}
    /\ DismissLeftView
    /\ UNCHANGED <<nav, stackVars, menu, mask, showLeft>>

\* (mutant) the dismissal's animation does not hide the mask
RunDismissalKeepsMask ==
    /\ dismissals > 0
    /\ dismissals' = dismissals - 1
    /\ menu' = IF menu = "shown" THEN "dismissing" ELSE menu
    /\ UNCHANGED <<nav, stackVars, mask, showLeft>>

\* The posted block: UIKit dismisses a presented menu and ignores any other.
RunDismissal ==
    /\ dismissals > 0
    /\ dismissals' = dismissals - 1
    /\ \/ menu = "shown" /\ menu' = "dismissing" /\ mask' = FALSE
       \/ menu # "shown" /\ UNCHANGED <<menu, mask>>
    /\ UNCHANGED <<nav, stackVars, showLeft>>

Dismissed ==
    /\ menu = "dismissing"
    /\ menu' = "hidden"
    /\ showLeft' = FALSE
    /\ UNCHANGED <<nav, stackVars, mask, dismissals>>

-----------------------------------------------------------------------------
(* AppDelegate replaces the root controller.                                 *)

\* configLoginRootVC, at any moment.
ConfigLoginRootVC ==
    /\ nav = "root"
    /\ nav' = "leaving"
    /\ UNCHANGED <<stackVars, menuVars>>

\* UIKit lets go of a menu whose presenter was replaced and which no posted
\* block is about to dismiss.
PresenterGone ==
    /\ nav = "leaving" /\ menu # "hidden" /\ dismissals = 0
    /\ menu' = "hidden"
    /\ UNCHANGED <<nav, stackVars, mask, showLeft, dismissals>>

\* Neither a block, nor a transition, nor the menu holds the controller.
Released == nav = "leaving" /\ ends = 0 /\ swipe = "none" /\ menu = "hidden"

\* (mutant) the swizzled dealloc does not look for an observer
DeallocOnly ==
    /\ Released
    /\ nav' = "none"
    /\ UNCHANGED <<stackVars, menuVars>>

\* The swizzled dealloc.
Dealloc ==
    /\ Released
    /\ nav' = "none"
    /\ RemoveObserver
    /\ UNCHANGED <<depth, swipe, popEnabled, ends, outrun, menuVars>>

\* configureMainViewController: a new navigation controller and
\* setLeftViewController, which moves the mask as it is.  A login takes longer
\* than the 0.2 seconds the old controller may be held.
ConfigureMainViewController ==
    /\ nav = "none"
    /\ nav' = "root"
    /\ depth' = 1
    /\ popEnabled' = TRUE
    /\ outrun' = FALSE
    /\ UNCHANGED <<swipe, stateObserve, observers, ends, menuVars>>

-----------------------------------------------------------------------------

PageTouches == Push \/ Pop \/ TouchFails \/ SwipeStarts \/ TapMask

Touches == PageTouches \/ ShowLeftView

Callbacks ==
    \/ SwipeEnds \/ SwipeUndone \/ EndBlock
    \/ Presented \/ RunDismissal \/ Dismissed
    \/ ConfigLoginRootVC \/ PresenterGone \/ Dealloc \/ ConfigureMainViewController

Next == Touches \/ Callbacks

Spec == Init /\ [][Next]_vars

-----------------------------------------------------------------------------
(* Properties.                                                               *)

\* The mark on the gesture tells whether the observer is registered, and it is
\* registered at most once: it is never added twice nor removed twice (which
\* raises an exception), whatever blocks, pushes and swipes overlap
\* (DYL_pushViewController and observeValueForKeyPath).
ObserverBalanced == observers = IF stateObserve THEN 1 ELSE 0

\* The gesture of a controller that is gone has no observer left
\* (DYL_dealloc): Foundation raises an exception otherwise.
NoObserverLeft == nav = "none" => observers = 0

\* A pushed page can be swiped back, and its swipe is watched, unless a
\* delayed block ran while a swipe to the root was under way or being undone
\* (the 0.2 seconds of observeValueForKeyPath are there to outlast it).
PushedPageSwipes ==
    (nav = "root" /\ depth > 1 /\ swipe = "none" /\ ~outrun) => (popEnabled /\ stateObserve)

MaskAlone == mask /\ menu = "hidden"

\* A mask without a menu comes only of a root controller that was replaced under
\* its menu: no order of taps on the mask, posted dismissals and transitions
\* leaves one over the page (tapView, dismissLeftView, animateTransition).
OnlyReplacementLeavesMask == [][MaskAlone' => MaskAlone \/ nav = "leaving"]_vars

\* The mask over the page is there to close the menu (the comment on tapView:
\* a mask view to tap to go back): no mask without a menu.
MaskOnlyWithMenu == (nav = "root" /\ mask) => menu # "hidden"
=============================================================================
