------------------------------ MODULE LeftMenu ------------------------------
(***************************************************************************)
(* The rows of LeftMenuViewController over LeftSlip's menu, the update     *)
(* check of HSUpdateApp that a row and the launch start, and the alert     *)
(* AppDelegate presents when the App Store has a newer version.            *)
(*                                                                         *)
(* Most rows close the menu at once and act later: a web page is pushed    *)
(* 0.25 seconds after the tap, the caches are reported cleared after 1.5,  *)
(* an answer of the store comes when it comes.  A HUD over the window or   *)
(* an alert takes every touch meanwhile.  The root controller can present  *)
(* one thing at a time: an alert that finds the menu there is dropped.     *)
(* Row 1's switch is MsgSwitch's; its view loads when the menu is first    *)
(* presented, and a new root controller has a new menu.                    *)
(***************************************************************************)
EXTENDS LeftSlip, MsgSwitch

CONSTANT Versions     \* versions of the application, installed and in the store

\* One to three numbers, each a single digit.
ASSUME VersionsAssumption ==
    \A v \in Versions : v \in Seq(0..9) /\ Len(v) \in 1..3

VARIABLES
    installed,    \* CFBundleShortVersionString
    hud,          \* what the HUD over the window is for
    alert,        \* the version the update alert offers, or NoAlert
    launchCheck,  \* the launch's request to the store is under way
    menuCheck,    \* a row's request to the store is under way
    opening,      \* web pages to be pushed 0.25 seconds after their tap
    clearing      \* the caches' delayed block has not run

rowVars == <<installed, hud, alert, launchCheck, menuCheck, opening, clearing>>
allVars == <<vars, rowVars, switchVars>>

NoAlert == <<>>
NoAnswer == <<>>

MenuTypeOK ==
    /\ installed \in Versions
    /\ hud \in {"none", "check", "clear", "logout"}
    /\ alert \in Versions \cup {NoAlert}
    /\ launchCheck \in BOOLEAN
    /\ menuCheck \in BOOLEAN
    /\ opening \in 0..MaxDismissals
    /\ clearing \in BOOLEAN
    /\ SwitchTypeOK

\* didFinishLaunchingWithOptions asks the store.
MenuInit ==
    /\ Init
    /\ installed \in Versions
    /\ hud = "none"
    /\ alert = NoAlert
    /\ launchCheck = TRUE
    /\ menuCheck = FALSE
    /\ opening = 0
    /\ clearing = FALSE
    /\ SwitchInit

Touchable == hud = "none" /\ alert = NoAlert

-----------------------------------------------------------------------------
(* The store's answer.                                                       *)

\* The version without its dots, read as a number.
Plain(version) ==
    CASE Len(version) = 1 -> version[1]
      [] Len(version) = 2 -> 10 * version[1] + version[2]
      [] OTHER -> 100 * version[1] + 10 * version[2] + version[3]

\* (mutant) the versions are not filled up to three digits
Unpadded(version) == Plain(version)

\* "0" or "00" appended to a version of two digits or one.
Padded(version) ==
    CASE Len(version) = 1 -> 100 * Plain(version)
      [] Len(version) = 2 -> 10 * Plain(version)
      [] OTHER -> Plain(version)

IsUpdate(current, store) == store # NoAnswer /\ Padded(current) < Padded(store)

\* (mutant) the alert offers the version without its dots
ShowAlertStripped(store) ==
    alert' = IF alert = NoAlert /\ (nav = "root" => menu = "hidden")
             THEN <<Padded(store)>> ELSE alert

\* showAlertViewTitle on the root controller, which drops the alert when it
\* presents the menu or another alert.
ShowAlert(store) ==
    alert' = IF alert = NoAlert /\ (nav = "root" => menu = "hidden") THEN store ELSE alert

LaunchAnswer(store) ==
    /\ launchCheck
    /\ launchCheck' = FALSE
    /\ \/ IsUpdate(installed, store) /\ ShowAlert(store)
       \/ ~IsUpdate(installed, store) /\ UNCHANGED alert
    /\ UNCHANGED <<vars, installed, hud, menuCheck, opening, clearing>>

\* The HUD goes with an update; without one it tells that the version is the
\* latest, for an error too, and goes later (HudHides).
MenuAnswer(store) ==
    /\ menuCheck
    /\ menuCheck' = FALSE
    /\ \/ /\ IsUpdate(installed, store)
          /\ hud' = IF hud = "check" THEN "none" ELSE hud
          /\ ShowAlert(store)
       \/ ~IsUpdate(installed, store) /\ UNCHANGED <<hud, alert>>
    /\ UNCHANGED <<vars, installed, launchCheck, opening, clearing>>

AlertClosed ==
    /\ alert # NoAlert
    /\ alert' = NoAlert
    /\ UNCHANGED <<vars, installed, hud, launchCheck, menuCheck, opening, clearing>>

-----------------------------------------------------------------------------
(* The rows.                                                                 *)

RowTapped == nav = "root" /\ menu = "shown" /\ Touchable

\* didSelectRow on rows 0, 1 and 5; one check from the menu at a time.
UpdateClick ==
    /\ RowTapped /\ ~menuCheck
    /\ DismissLeftView
    /\ hud' = "check"
    /\ menuCheck' = TRUE
    /\ UNCHANGED <<nav, stackVars, menu, mask, showLeft,
                   installed, alert, launchCheck, opening, clearing>>

\* (mutant) the row leaves the menu open
WebClickOnly ==
    /\ RowTapped
    /\ opening < MaxDismissals
    /\ opening' = opening + 1
    /\ UNCHANGED <<vars, installed, hud, alert, launchCheck, menuCheck, clearing>>

\* Rows 3 and 4, help and about.
WebClick ==
    /\ RowTapped
    /\ DismissLeftView
    /\ opening' = opening + 1
    /\ UNCHANGED <<nav, stackVars, menu, mask, showLeft,
                   installed, hud, alert, launchCheck, menuCheck, clearing>>

\* The block 0.25 seconds later, which the dismissal's block precedes, pushes
\* on the main page's controller if it is there still.
WebPush ==
    /\ opening > 0 /\ dismissals = 0
    /\ opening' = opening - 1
    /\ \/ nav = "root" /\ PushPage
       \/ nav # "root" /\ UNCHANGED vars
    /\ UNCHANGED <<installed, hud, alert, launchCheck, menuCheck, clearing>>

\* Row 2, clearMembory.
ClearClick ==
    /\ RowTapped
    /\ hud' = "clear"
    /\ clearing' = TRUE
    /\ UNCHANGED <<vars, installed, alert, launchCheck, menuCheck, opening>>

\* Its block 1.5 seconds later.
Cleared ==
    /\ clearing
    /\ clearing' = FALSE
    /\ DismissLeftView
    /\ UNCHANGED <<nav, stackVars, menu, mask, showLeft,
                   installed, hud, alert, launchCheck, menuCheck, opening>>

LogoutClick ==
    /\ RowTapped
    /\ hud' = "logout"
    /\ UNCHANGED <<vars, installed, alert, launchCheck, menuCheck, opening, clearing>>

\* The accepted logout posts the dismissal and replaces the root.
LogoutSucceeded ==
    /\ hud = "logout" /\ nav = "root"
    /\ nav' = "leaving"
    /\ DismissLeftView
    /\ UNCHANGED <<stackVars, menu, mask, showLeft, rowVars>>

\* After 1.2 seconds with its last word, or after 33 in any case.
HudHides ==
    /\ hud # "none" /\ ~clearing
    /\ hud' = "none"
    /\ UNCHANGED <<vars, installed, alert, launchCheck, menuCheck, opening, clearing>>

-----------------------------------------------------------------------------

\* A root controller that is replaced takes its alert along; the main page's
\* comes with a menu of its own.
RootReplaced ==
    /\ \/ ConfigLoginRootVC /\ UNCHANGED switchVars
       \/ opening = 0 /\ ConfigureMainViewController /\ NewSwitch
    /\ alert' = NoAlert
    /\ UNCHANGED <<installed, hud, launchCheck, menuCheck, opening, clearing>>

\* The dismissal takes 0.3 seconds, longer than the web page waits.
Settles == (opening = 0 /\ Dismissed) \/ Presented

SlipCallback ==
    /\ SwipeEnds \/ SwipeUndone \/ EndBlock \/ RunDismissal \/ PresenterGone \/ Dealloc \/ Settles
    /\ UNCHANGED rowVars

StoreAnswers == \E store \in Versions \cup {NoAnswer} : LaunchAnswer(store) \/ MenuAnswer(store)

RowClick == UpdateClick \/ WebClick \/ ClearClick \/ LogoutClick

RowBlock == WebPush \/ Cleared \/ LogoutSucceeded \/ HudHides

\* What the switch has no part in.
OtherStep ==
    \/ Touchable /\ PageTouches /\ UNCHANGED rowVars
    \/ SlipCallback
    \/ StoreAnswers \/ AlertClosed
    \/ RowClick \/ RowBlock

\* A tap on the switch, and what the network does with its requests.
SwitchStep == (RowTapped /\ MsgButtonClick) \/ SwitchAnswered

MenuNext ==
    \/ OtherStep /\ UNCHANGED switchVars
    \/ Touchable /\ ShowLeftView /\ LoadSwitch /\ UNCHANGED rowVars
    \/ RootReplaced
    \/ SwitchStep /\ UNCHANGED <<vars, rowVars>>

MenuSpec == MenuInit /\ [][MenuNext]_allVars

-----------------------------------------------------------------------------
(* Properties.                                                               *)

\* The order of versions: the first number that differs decides, a missing one
\* is 0.
At(version, i) == IF i <= Len(version) THEN version[i] ELSE 0
Newer(a, b) == \E i \in 1..3 :
    /\ At(a, i) > At(b, i)
    /\ \A j \in 1..(i - 1) : At(a, j) = At(b, j)

\* The alert offers a version newer than the installed one
\* (hs_updateWithAPPID), for versions of up to three single digits.
AlertIsNewer == alert # NoAlert => Newer(alert, installed)

\* No page is pushed under an open menu, although the rows push theirs by a
\* delayed block (didSelectRowAtIndexPath); nor onto a controller on its way
\* out.
PushesUnderNoMenu ==
    [][depth' > depth /\ swipe = "none" => menu # "shown" /\ nav = "root"]_allVars
=============================================================================
