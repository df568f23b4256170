------------------------------ MODULE Session ------------------------------
(***************************************************************************)
(* Signing in and out: AppDelegate decides which page is the root of the   *)
(* window, WMDUserManager and NSUserDefaults keep the token, HttpClient    *)
(* puts it on the shared request serializer and turns an answer with       *)
(* code 3 into a logout, LoginViewController and LeftMenuViewController    *)
(* send the login and logout requests.                                     *)
(*                                                                         *)
(* Every callback runs on the main queue, so a step is one callback: a     *)
(* tap, an answer, a timer, the launch or the death of the process.  What  *)
(* interleaves is the order in which they are delivered.                   *)
(***************************************************************************)
EXTENDS Naturals

CONSTANTS
    Tokens,     \* the tokens the server can issue
    NoToken,    \* nil: no token stored, or no Authorization header set
    Slots       \* requests that may be outstanding at the same time

\* The outcomes that are not a token are told apart from every token.
Outcomes == {"none", "ok", "rejected", "refused"}

ASSUME SessionAssumption ==
    /\ NoToken \notin Tokens
    /\ Tokens \cap Outcomes = {}

VARIABLES
    running,             \* the process is alive
    root,                \* window.rootViewController: "none", "login" or "main"
    mainViewController,  \* AppDelegate.mainViewController is set
    build,               \* flips whenever a root controller is built, to tell
                         \* a page from another one of the same class
    stored,              \* NSUserDefaults, KDefaultUserTokenKey
    tokenId,             \* WMDUserManager.tokenId
    header,              \* Authorization of the shared request serializer
    net,                 \* net[s]: the request in slot s
    hud,                 \* hud[s]: its loading HUD: "none", over the page
                         \* ("front"), or over a page since replaced ("behind")
    issued,              \* server: tokens handed out so far
    live                 \* server: tokens it still accepts

clientVars == <<running, root, mainViewController, build, stored, tokenId, header>>
serverVars == <<issued, live>>
vars == <<running, root, mainViewController, build, stored, tokenId, header,
          net, hud, issued, live>>

-----------------------------------------------------------------------------
(* Requests.  "code" and "login" leave the header alone; "data" stands for  *)
(* every other POST of the main page and the menu, "get" for the one GET.   *)

Kinds == {"code", "login", "logout", "data", "get"}

\* An answered login carries its token; "rejected" is code 3; "refused" is any
\* other outcome: another code, an empty or malformed body, a network error.
Request == [kind : Kinds, token : Tokens \cup {NoToken}, reply : Outcomes \cup Tokens]
Idle == [kind |-> "idle", token |-> NoToken, reply |-> "none"]

Sent(kind, token) == [kind |-> kind, token |-> token, reply |-> "none"]

Free(s) == net[s] = Idle /\ hud[s] = "none"
Outstanding(s) == net[s].kind \in Kinds /\ net[s].reply = "none"
Answered(s) == net[s].kind \in Kinds /\ net[s].reply # "none"

\* A HUD covers the window it was added to and takes its touches.
Touchable == \A s \in Slots : hud[s] # "front"

-----------------------------------------------------------------------------
(* AppDelegate: replacing the root controller.  Whether a HUD that was added *)
(* to the window stays above the new page is UIKit's business: a "behind"    *)
(* HUD does not block touches.                                               *)

Install(page) ==
    /\ root' = page
    /\ mainViewController' = (page = "main")
    /\ build' = 1 - build

HudsBehind == [s \in Slots |-> IF hud[s] = "front" THEN "behind" ELSE hud[s]]

ConfigLoginRootVC == Install("login")
ConfigureMainViewController == Install("main")

TypeOK ==
    /\ running \in BOOLEAN
    /\ root \in {"none", "login", "main"}
    /\ mainViewController \in BOOLEAN
    /\ build \in {0, 1}
    /\ stored \in Tokens \cup {NoToken}
    /\ tokenId \in Tokens \cup {NoToken}
    /\ header \in Tokens \cup {NoToken}
    /\ net \in [Slots -> Request \cup {Idle}]
    /\ hud \in [Slots -> {"none", "front", "behind"}]
    /\ issued \subseteq Tokens
    /\ live \subseteq issued

Init ==
    /\ running = FALSE
    /\ root = "none"
    /\ mainViewController = FALSE
    /\ build = 0
    /\ stored = NoToken
    /\ tokenId = NoToken
    /\ header = NoToken
    /\ net = [s \in Slots |-> Idle]
    /\ hud = [s \in Slots |-> "none"]
    /\ issued = {}
    /\ live = {}

-----------------------------------------------------------------------------
(* The process.                                                              *)

\* didFinishLaunchingWithOptions.  shareInstance copies the stored token the
\* first time it is used; nothing reads tokenId before.
Launch ==
    /\ ~running
    /\ running' = TRUE
    /\ tokenId' = stored
    /\ IF stored = NoToken THEN ConfigLoginRootVC ELSE ConfigureMainViewController
    /\ UNCHANGED <<stored, header, net, hud, issued, live>>

\* The user or the system ends the process; NSUserDefaults survives.
Kill ==
    /\ running
    /\ running' = FALSE
    /\ root' = "none"
    /\ mainViewController' = FALSE
    /\ tokenId' = NoToken
    /\ header' = NoToken
    /\ net' = [s \in Slots |-> Idle]
    /\ hud' = [s \in Slots |-> "none"]
    /\ UNCHANGED <<build, stored, issued, live>>

-----------------------------------------------------------------------------
(* Sending.                                                                  *)

\* codeButtonClick -> getCodeRequest: the header keeps its last value.
ClickCode(s) ==
    /\ root = "login" /\ Touchable /\ Free(s)
    /\ net' = [net EXCEPT ![s] = Sent("code", header)]
    /\ UNCHANGED <<clientVars, hud, serverVars>>

\* loginButtonClick with both fields filled -> loginRequest.
ClickLogin(s) ==
    /\ root = "login" /\ Touchable /\ Free(s)
    /\ net' = [net EXCEPT ![s] = Sent("login", header)]
    /\ hud' = [hud EXCEPT ![s] = "front"]
    /\ UNCHANGED <<clientVars, serverVars>>

\* asyncSendPostRequest / asyncSendGetRequest for any other url.
SendAuthorized(s, kind) ==
    /\ header' = tokenId
    /\ net' = [net EXCEPT ![s] = Sent(kind, tokenId)]
    /\ UNCHANGED <<running, root, mainViewController, build, stored, tokenId, serverVars>>

\* Page load, pull-to-refresh, a segment tap, coming back to the foreground.
\* The views of a main page that was replaced stay alive, and go on observing
\* the foreground notification, while a request of theirs is outstanding.
SendData(s) ==
    /\ root = "main" \/ \E r \in Slots : net[r].kind = "data"
    /\ Free(s)
    /\ SendAuthorized(s, "data")
    /\ UNCHANGED hud

\* getStreamStatusInfo, the only GET.
SendGet(s) ==
    /\ root = "main" /\ Free(s)
    /\ SendAuthorized(s, "get")
    /\ UNCHANGED hud

ClickLogout(s) ==
    /\ root = "main" /\ Touchable /\ Free(s)
    /\ SendAuthorized(s, "logout")
    /\ hud' = [hud EXCEPT ![s] = "front"]

-----------------------------------------------------------------------------
(* The server and the network (external).                                    *)

Reply(s, reply) == net' = [net EXCEPT ![s].reply = reply]

Issue(s, t) ==
    /\ Outstanding(s) /\ net[s].kind = "login"
    /\ t \notin issued
    /\ Reply(s, t)
    /\ issued' = issued \cup {t}
    /\ live' = live \cup {t}
    /\ UNCHANGED <<clientVars, hud>>

\* A logout may or may not end the token on the server.
Accept(s) ==
    /\ Outstanding(s) /\ net[s].kind # "login"
    /\ net[s].kind = "code" \/ net[s].token \in live
    /\ Reply(s, "ok")
    /\ live' \in {live} \cup (IF net[s].kind = "logout" THEN {live \ {net[s].token}} ELSE {})
    /\ UNCHANGED <<clientVars, hud, issued>>

\* code 3: only for a request that carries a token the server dropped.
Reject(s) ==
    /\ Outstanding(s)
    /\ net[s].token \in issued \ live
    /\ Reply(s, "rejected")
    /\ UNCHANGED <<clientVars, hud, serverVars>>

Refuse(s) ==
    /\ Outstanding(s)
    /\ Reply(s, "refused")
    /\ UNCHANGED <<clientVars, hud, serverVars>>

Expire(t) ==
    /\ t \in live
    /\ live' = live \ {t}
    /\ UNCHANGED <<clientVars, net, hud, issued>>

-----------------------------------------------------------------------------
(* Answers reach the blocks.                                                 *)

Done(s) == net' = [net EXCEPT ![s] = Idle]

\* (mutant) the setters forget NSUserDefaults
LoginKeptInMemory(s) ==
    /\ Answered(s) /\ net[s].kind = "login" /\ net[s].reply \in Tokens
    /\ tokenId' = net[s].reply
    /\ ConfigureMainViewController
    /\ hud' = HudsBehind
    /\ Done(s)
    /\ UNCHANGED <<running, stored, header, serverVars>>

\* (mutant) the token is stored without testing succ and content
LoginUnchecked(s) ==
    /\ Answered(s) /\ net[s].kind = "login"
    /\ tokenId' = net[s].reply
    /\ stored' = net[s].reply
    /\ ConfigureMainViewController
    /\ hud' = HudsBehind
    /\ Done(s)
    /\ UNCHANGED <<running, header, serverVars>>

\* loginRequest's success block: both setters write through to NSUserDefaults,
\* then UserLoginSuccessNotify builds a new main page.
LoginSucceeded(s) ==
    /\ Answered(s) /\ net[s].kind = "login" /\ net[s].reply \in Tokens
    /\ tokenId' = net[s].reply
    /\ stored' = net[s].reply
    /\ ConfigureMainViewController
    /\ hud' = HudsBehind
    /\ Done(s)
    /\ UNCHANGED <<running, header, serverVars>>

\* logoutButtonClick's success block.  Nothing clears the token.
LogoutSucceeded(s) ==
    /\ Answered(s) /\ net[s].kind = "logout" /\ net[s].reply = "ok"
    /\ ConfigLoginRootVC
    /\ hud' = HudsBehind
    /\ Done(s)
    /\ UNCHANGED <<running, stored, tokenId, header, serverVars>>

\* (mutant) every non-zero code logs the user out
AnyErrorRejects(s) ==
    /\ Answered(s) /\ net[s].kind # "get" /\ net[s].reply \in {"rejected", "refused"}
    /\ ConfigLoginRootVC
    /\ hud' = HudsBehind
    /\ Done(s)
    /\ UNCHANGED <<running, stored, tokenId, header, serverVars>>

\* (mutant) the logout notification is not posted
RejectionSwallowed(s) ==
    /\ Answered(s) /\ net[s].kind # "get" /\ net[s].reply = "rejected"
    /\ Done(s)
    /\ UNCHANGED <<clientVars, hud, serverVars>>

\* (mutant) the rejected token is deleted from NSUserDefaults
RejectionForgetsToken(s) ==
    /\ Answered(s) /\ net[s].kind # "get" /\ net[s].reply = "rejected"
    /\ ConfigLoginRootVC
    /\ stored' = NoToken /\ tokenId' = NoToken
    /\ hud' = HudsBehind
    /\ Done(s)
    /\ UNCHANGED <<running, header, serverVars>>

\* asyncSendPostRequest, code 3: successblock(NO, ...), then
\* UserLogoutSuccessNotify, whatever page is up and whoever sent the request.
TokenRejected(s) ==
    /\ Answered(s) /\ net[s].kind # "get" /\ net[s].reply = "rejected"
    /\ ConfigLoginRootVC
    /\ hud' = HudsBehind
    /\ Done(s)
    /\ UNCHANGED <<running, stored, tokenId, header, serverVars>>

\* Everything else shows a text at most.
OtherAnswer(s) ==
    /\ Answered(s)
    /\ \/ net[s].reply = "refused"
       \/ net[s].reply = "ok" /\ net[s].kind # "logout"
       \/ net[s].reply = "rejected" /\ net[s].kind = "get"
    /\ Done(s)
    /\ UNCHANGED <<clientVars, hud, serverVars>>

Deliver(s) ==
    LoginSucceeded(s) \/ LogoutSucceeded(s) \/ TokenRejected(s) \/ OtherAnswer(s)

\* hide:afterDelay: 1.2 seconds after the answer, or 33 seconds after the click
\* whether or not an answer came.
HudHide(s) ==
    /\ hud[s] # "none"
    /\ hud' = [hud EXCEPT ![s] = "none"]
    /\ UNCHANGED <<clientVars, net, serverVars>>

-----------------------------------------------------------------------------
Next ==
    \/ Launch
    \/ Kill
    \/ \E s \in Slots :
        \/ ClickCode(s) \/ ClickLogin(s) \/ ClickLogout(s)
        \/ SendData(s) \/ SendGet(s)
        \/ \E t \in Tokens : Issue(s, t)
        \/ Accept(s) \/ Reject(s) \/ Refuse(s)
        \/ Deliver(s)
        \/ HudHide(s)
    \/ \E t \in Tokens : Expire(t)

\* The main queue runs what was posted to it; users, servers and the system
\* promise nothing.
Fairness == \A s \in Slots : WF_vars(Deliver(s)) /\ WF_vars(HudHide(s))

Spec == Init /\ [][Next]_vars /\ Fairness

-----------------------------------------------------------------------------
(* Properties.                                                               *)

\* The main page is only up with a token the server issued, and that token is
\* the one NSUserDefaults will offer to the next launch: the page, the token in
\* memory and the token on disk agree across logins, rejections and deaths of
\* the process (WMDUserManager's setters, the launch test in AppDelegate).
MainHasStoredToken ==
    /\ running => stored = tokenId
    /\ root = "main" => tokenId \in issued

\* While the process lives, the root page is replaced only by an answer of the
\* server: the main page by a granted login, the login page by an accepted
\* logout or by a rejection of a token that is dead on the server.  No network
\* error, malformed body, other code, timer or GET answer ends a session.
RebuiltOnServerWord ==
    [][running /\ running' /\ build' # build =>
        \E s \in Slots :
            /\ Answered(s) /\ net'[s] = Idle
            /\ IF root' = "main"
               THEN net[s].kind = "login" /\ net[s].reply = tokenId'
               ELSE \/ net[s].kind = "logout" /\ net[s].reply = "ok"
                    \/ /\ net[s].kind # "get" /\ net[s].reply = "rejected"
                       /\ net[s].token \in issued \ live
      ]_vars

\* The rejection of a POST sent from the main page is not lost among other
\* answers: the login page comes up, or the process ends.
RejectionSurfaces ==
    \A s \in Slots :
        (net[s].kind = "data" /\ net[s].reply = "rejected") ~> root \in {"login", "none"}

\* The session implements SignIn: every token is redeemed at most once, signing
\* out keeps the credential on disk, and a launch with a credential opens the
\* main page even when the user had signed out.
Granted == {net[s].reply : s \in Slots} \cap Tokens

Abstract == INSTANCE SignIn WITH
    page <- IF running THEN root ELSE "off",
    credential <- stored,
    granted <- Granted,
    spent <- issued

ImplementsSignIn == Abstract!Spec

\* HttpClient.m takes code 3 for "the token is no longer valid"; the session
\* ended by it should be the one whose token was rejected.
RejectionEndsItsOwnSession ==
    [][\A s \in Slots :
        (/\ root = "main" /\ root' = "login"
         /\ net[s].kind = "data" /\ net[s].reply = "rejected" /\ net'[s] = Idle)
        => net[s].token = tokenId]_vars
=============================================================================
