--------------------------- MODULE SessionProofs ---------------------------
(***************************************************************************)
(* Session, for every set of tokens and every number of requests under way *)
(***************************************************************************)
EXTENDS Session, TLAPS

\* Two answers under way never carry the same token, and none carries the
\* token in use: the server issues each token once.  Without this conjunct a
\* login answer could redeem a token a second time.
GrantsDistinct ==
    \A s, r \in Slots : s # r /\ net[s].reply \in Tokens => net[s].reply # net[r].reply

\* What the server knows of the client's tokens.
KnownTokens ==
    /\ stored \in issued \cup {NoToken}
    /\ header \in issued \cup {NoToken}
    /\ \A s \in Slots :
        /\ net[s].token \in issued \cup {NoToken}
        /\ net[s].reply \in Tokens => net[s].reply \in issued /\ net[s].kind = "login"

\* A token never comes back to life, so a rejection is still true when it arrives.
RejectedAreDead ==
    \A s \in Slots : net[s].reply = "rejected" => net[s].token \in issued \ live

\* A process that is not running has no page and nothing under way.
DeadIsEmpty ==
    ~running =>
        /\ root = "none"
        /\ tokenId = NoToken
        /\ net = [s \in Slots |-> Idle]

\* A running process has a page.
RunningHasPage == running => root \in {"login", "main"}

Consistent ==
    /\ MainHasStoredToken
    /\ KnownTokens
    /\ GrantsDistinct
    /\ RejectedAreDead
    /\ DeadIsEmpty
    /\ RunningHasPage

IInv == TypeOK /\ Consistent

-----------------------------------------------------------------------------

\* The inductive invariant holds initially.
LEMMA InitIInv == Init => IInv
<1> SUFFICES ASSUME Init PROVE IInv
  OBVIOUS
<1>1. TypeOK
  BY DEF Init, TypeOK, Idle
<1>2. MainHasStoredToken /\ DeadIsEmpty /\ RunningHasPage
  BY DEF Init, MainHasStoredToken, DeadIsEmpty, RunningHasPage
<1>3. KnownTokens /\ GrantsDistinct /\ RejectedAreDead
  BY SessionAssumption DEF Init, KnownTokens, GrantsDistinct, RejectedAreDead, Idle, Outcomes
<1>4. QED
  BY <1>1, <1>2, <1>3 DEF IInv, Consistent

\* Installing a root controller keeps the three variables it sets typed.
LEMMA InstallType ==
    ASSUME NEW page \in {"login", "main"}, build \in {0, 1}, Install(page)
    PROVE  /\ root' \in {"none", "login", "main"}
           /\ mainViewController' \in BOOLEAN
           /\ build' \in {0, 1}
<1>1. mainViewController' \in BOOLEAN
  BY Zenon DEF Install
<1>2. QED
  BY <1>1 DEF Install

\* Type correctness is preserved by every step.
LEMMA NextTypeOK == TypeOK /\ [Next]_vars => TypeOK'
<1> SUFFICES ASSUME TypeOK, [Next]_vars PROVE TypeOK'
  OBVIOUS
<1> USE SessionAssumption
    DEF TypeOK, Request, Idle, Kinds, Outcomes, clientVars, serverVars, ConfigLoginRootVC,
        ConfigureMainViewController, HudsBehind, Sent, Reply, Done, SendAuthorized
<1>1. CASE Launch
  BY <1>1, InstallType DEF Launch
<1>2. CASE Kill
  <2>1. net' \in [Slots -> Request \cup {Idle}] /\ hud' \in [Slots -> {"none", "front", "behind"}]
    BY <1>2 DEF Kill
  <2>2. QED
    BY <1>2, <2>1 DEF Kill
<1>3. ASSUME NEW s \in Slots, ClickCode(s) \/ ClickLogin(s) \/ ClickLogout(s)
      PROVE  TypeOK'
  BY <1>3 DEF ClickCode, ClickLogin, ClickLogout
<1>4. ASSUME NEW s \in Slots, SendData(s) \/ SendGet(s)
      PROVE  TypeOK'
  BY <1>4 DEF SendData, SendGet
<1>5. ASSUME NEW s \in Slots, NEW t \in Tokens, Issue(s, t)
      PROVE  TypeOK'
  BY <1>5 DEF Issue, Outstanding
<1>6. ASSUME NEW s \in Slots, Reject(s) \/ Refuse(s)
      PROVE  TypeOK'
  BY <1>6 DEF Reject, Refuse, Outstanding
<1>7. ASSUME NEW s \in Slots, Accept(s)
      PROVE  TypeOK'
  <2>1. net' \in [Slots -> Request \cup {Idle}]
    BY <1>7 DEF Accept, Outstanding
  <2>2. live' \subseteq issued
    BY <1>7 DEF Accept
  <2>3. QED
    BY <1>7, <2>1, <2>2 DEF Accept
<1>8. ASSUME NEW s \in Slots, LoginSucceeded(s)
      PROVE  TypeOK'
  BY <1>8, InstallType DEF LoginSucceeded, Answered
<1>9. ASSUME NEW s \in Slots, LogoutSucceeded(s) \/ TokenRejected(s)
      PROVE  TypeOK'
  BY <1>9, InstallType DEF LogoutSucceeded, TokenRejected
<1>10. ASSUME NEW s \in Slots, OtherAnswer(s)
      PROVE  TypeOK'
  BY <1>10 DEF OtherAnswer
<1>11. ASSUME NEW s \in Slots, HudHide(s)
      PROVE  TypeOK'
  BY <1>11 DEF HudHide
<1>12. ASSUME NEW t \in Tokens, Expire(t)
       PROVE  TypeOK'
  BY <1>12 DEF Expire
<1>13. CASE UNCHANGED vars
  BY <1>13 DEF vars
<1>14. QED
  BY <1>1, <1>2, <1>3, <1>4, <1>5, <1>6, <1>7, <1>8, <1>9, <1>10, <1>11, <1>12, <1>13 DEF Next, Deliver

\* The rest of the inductive invariant is preserved by every step.
LEMMA NextIInv == IInv /\ [Next]_vars => IInv'
<1> SUFFICES ASSUME IInv, [Next]_vars PROVE IInv'
  OBVIOUS
<1> SUFFICES Consistent'
  BY NextTypeOK DEF IInv
<1> USE SessionAssumption
    DEF IInv, TypeOK, Consistent, MainHasStoredToken, KnownTokens, GrantsDistinct, RejectedAreDead, DeadIsEmpty, RunningHasPage,
        Request, Idle, Outcomes, Kinds, clientVars, serverVars, Install, ConfigLoginRootVC,
        ConfigureMainViewController, Sent, Reply, Done, SendAuthorized
<1>1. CASE Launch
  BY <1>1 DEF Launch
<1>2. CASE Kill
  BY <1>2 DEF Kill
<1>3. ASSUME NEW s \in Slots, ClickCode(s) \/ ClickLogin(s) \/ ClickLogout(s)
      PROVE  Consistent'
  BY <1>3 DEF ClickCode, ClickLogin, ClickLogout
<1>4. ASSUME NEW s \in Slots, SendData(s) \/ SendGet(s)
      PROVE  Consistent'
  BY <1>4 DEF SendData, SendGet
<1>5. ASSUME NEW s \in Slots, NEW t \in Tokens, Issue(s, t)
      PROVE  Consistent'
  BY <1>5 DEF Issue, Outstanding
<1>6. ASSUME NEW s \in Slots, Accept(s) \/ Reject(s) \/ Refuse(s)
      PROVE  Consistent'
  BY <1>6 DEF Accept, Reject, Refuse, Outstanding
<1>7. ASSUME NEW s \in Slots, LoginSucceeded(s)
      PROVE  Consistent'
  BY <1>7 DEF LoginSucceeded, Answered
<1>8. ASSUME NEW s \in Slots, LogoutSucceeded(s) \/ TokenRejected(s) \/ OtherAnswer(s)
      PROVE  Consistent'
  BY <1>8 DEF LogoutSucceeded, TokenRejected, OtherAnswer, Answered
<1>9. ASSUME NEW s \in Slots, HudHide(s)
      PROVE  Consistent'
  BY <1>9 DEF HudHide
<1>10. ASSUME NEW t \in Tokens, Expire(t)
       PROVE  Consistent'
  BY <1>10 DEF Expire
<1>11. CASE UNCHANGED vars
  BY <1>11 DEF vars
<1>12. QED
  BY <1>1, <1>2, <1>3, <1>4, <1>5, <1>6, <1>7, <1>8, <1>9, <1>10, <1>11 DEF Next, Deliver

-----------------------------------------------------------------------------

\* IInv is an invariant of the session.
THEOREM Invariance == Spec => []IInv
<1>1. Init => IInv
  BY InitIInv
<1>2. IInv /\ [Next]_vars => IInv'
  BY NextIInv
<1>3. QED
  BY <1>1, <1>2, PTL DEF Spec

\* Every variable keeps its type.
THEOREM TypeCorrect == Spec => []TypeOK
BY Invariance, PTL DEF IInv

\* The main page is up only with an issued token, the one on disk.
THEOREM MainHasStoredTokenAlways == Spec => []MainHasStoredToken
BY Invariance, PTL DEF IInv, Consistent

\* A step that builds a root page in a living process is an answer of the server.
LEMMA BuildStep ==
    ASSUME IInv, Next, running, running', build' # build
    PROVE  \E s \in Slots :
              /\ Answered(s) /\ net'[s] = Idle
              /\ IF root' = "main"
                 THEN net[s].kind = "login" /\ net[s].reply = tokenId'
                 ELSE \/ net[s].kind = "logout" /\ net[s].reply = "ok"
                      \/ /\ net[s].kind # "get" /\ net[s].reply = "rejected"
                         /\ net[s].token \in issued \ live
<1> USE DEF clientVars, serverVars, SendAuthorized
<1>1. ~Launch /\ ~Kill
  BY DEF Launch, Kill
<1>2. ASSUME NEW s \in Slots
      PROVE  /\ ~ClickCode(s) /\ ~ClickLogin(s) /\ ~ClickLogout(s)
             /\ ~SendData(s) /\ ~SendGet(s)
             /\ ~\E t \in Tokens : Issue(s, t)
             /\ ~Accept(s) /\ ~Reject(s) /\ ~Refuse(s)
             /\ ~OtherAnswer(s) /\ ~HudHide(s)
  BY DEF ClickCode, ClickLogin, ClickLogout, SendData, SendGet, Issue, Accept, Reject, Refuse,
         OtherAnswer, HudHide
<1>3. ~\E t \in Tokens : Expire(t)
  BY DEF Expire
<1>4. PICK s \in Slots : LoginSucceeded(s) \/ LogoutSucceeded(s) \/ TokenRejected(s)
  BY <1>1, <1>2, <1>3 DEF Next, Deliver
<1>5. net'[s] = Idle
  BY <1>4 DEF IInv, TypeOK, LoginSucceeded, LogoutSucceeded, TokenRejected, Done
<1>6. CASE LoginSucceeded(s)
  BY <1>5, <1>6 DEF LoginSucceeded, ConfigureMainViewController, Install
<1>7. CASE LogoutSucceeded(s)
  BY <1>5, <1>7 DEF LogoutSucceeded, ConfigLoginRootVC, Install
<1>8. CASE TokenRejected(s)
  BY <1>5, <1>8 DEF TokenRejected, ConfigLoginRootVC, Install, IInv, Consistent, RejectedAreDead
<1>9. QED
  BY <1>4, <1>6, <1>7, <1>8

\* Only the server's word replaces the root page of a living process.
THEOREM RebuiltOnServerWordAlways == Spec => RebuiltOnServerWord
<1>1. IInv /\ [Next]_vars =>
        [running /\ running' /\ build' # build =>
            \E s \in Slots :
                /\ Answered(s) /\ net'[s] = Idle
                /\ IF root' = "main"
                   THEN net[s].kind = "login" /\ net[s].reply = tokenId'
                   ELSE \/ net[s].kind = "logout" /\ net[s].reply = "ok"
                        \/ /\ net[s].kind # "get" /\ net[s].reply = "rejected"
                           /\ net[s].token \in issued \ live]_vars
  BY BuildStep
<1>2. QED
  BY <1>1, Invariance, PTL DEF Spec, RebuiltOnServerWord

\* The slot of a rejected data request changes only when the process dies or the
\* rejection is delivered: nothing else is an answer to it, and no page that sends
\* a request finds the slot free.
LEMMA RejectedStep ==
    ASSUME IInv, Next, NEW s \in Slots,
           net[s].kind = "data", net[s].reply = "rejected", net'[s] # net[s]
    PROVE  root' \in {"login", "none"}
<1> USE SessionAssumption
    DEF IInv, TypeOK, Idle, clientVars, serverVars, SendAuthorized, Reply, Done, Outcomes
<1>1. net[s] # Idle
  OBVIOUS
<1>2. CASE Kill
  BY <1>2 DEF Kill
<1>3. ~Launch
  BY DEF Launch
<1>4. ASSUME NEW r \in Slots
      PROVE  /\ ~ClickCode(r) /\ ~ClickLogin(r) /\ ~ClickLogout(r)
             /\ ~SendData(r) /\ ~SendGet(r)
  BY <1>1 DEF ClickCode, ClickLogin, ClickLogout, SendData, SendGet, Free
<1>5. ASSUME NEW r \in Slots
      PROVE  /\ ~\E t \in Tokens : Issue(r, t)
             /\ ~Accept(r) /\ ~Reject(r) /\ ~Refuse(r)
  BY DEF Issue, Accept, Reject, Refuse, Outstanding
<1>6. ASSUME NEW r \in Slots
      PROVE  ~LoginSucceeded(r) /\ ~LogoutSucceeded(r) /\ ~OtherAnswer(r) /\ ~HudHide(r)
  BY DEF LoginSucceeded, LogoutSucceeded, OtherAnswer, HudHide
<1>7. ~\E t \in Tokens : Expire(t)
  BY DEF Expire
<1>8. ASSUME NEW r \in Slots, TokenRejected(r) PROVE root' = "login"
  BY <1>8 DEF TokenRejected, ConfigLoginRootVC, Install
<1>9. QED
  BY <1>2, <1>3, <1>4, <1>5, <1>6, <1>7, <1>8 DEF Next, Deliver

\* The safety half of RejectionSurfaces: a rejection that has come in waits in its
\* slot, and the step that takes it away brings up the login page or is the end of
\* the process (asyncSendPostRequest, code 3).
RejectionWaits ==
    [][\A s \in Slots :
        net[s].kind = "data" /\ net[s].reply = "rejected" /\ net'[s] # net[s]
            => root' \in {"login", "none"}]_vars

\* However many answers are under way and in whatever order they are delivered, no
\* rejection of a page's request is lost: what RejectionSurfaces still needs is
\* that the main queue goes on.
THEOREM RejectionWaitsAlways == Spec => RejectionWaits
<1>1. IInv /\ [Next]_vars =>
        [\A s \in Slots :
            net[s].kind = "data" /\ net[s].reply = "rejected" /\ net'[s] # net[s]
                => root' \in {"login", "none"}]_vars
  BY RejectedStep
<1>2. QED
  BY <1>1, Invariance, PTL DEF Spec, RejectionWaits

-----------------------------------------------------------------------------

\* The session starts where SignIn starts.
LEMMA InitRefines == Init => Abstract!Init
BY SessionAssumption DEF Init, Abstract!Init, Granted, Idle, Outcomes

\* A step that neither grants nor redeems leaves the tokens under way alone.
LEMMA GrantedKept ==
    ASSUME \A s \in Slots : \/ net'[s].reply = net[s].reply
                            \/ net'[s].reply \notin Tokens /\ net[s].reply \notin Tokens
    PROVE  Granted' = Granted
<1>1. \A t : t \in Granted' <=> t \in Granted
  BY DEF Granted
<1>2. QED
  BY <1>1

\* Every step of the session is a step of SignIn or changes nothing it can see.
LEMMA NextRefines == IInv /\ [Next]_vars => [Abstract!Next]_(Abstract!vars)
<1> SUFFICES ASSUME IInv, [Next]_vars PROVE [Abstract!Next]_(Abstract!vars)
  OBVIOUS
<1> USE SessionAssumption DEF IInv, TypeOK, Consistent, Abstract!Next, Abstract!vars
<1>1. CASE Launch
  <2>1. Granted' = Granted
    BY <1>1, GrantedKept DEF Launch
  <2>2. Abstract!Open
    BY <1>1, <2>1
    DEF Launch, Abstract!Open, ConfigLoginRootVC, ConfigureMainViewController, Install
  <2>3. QED
    BY <2>2
<1>2. CASE Kill
  <2>1. Granted' = {}
    BY <1>2 DEF Kill, Granted, Idle, Outcomes
  <2>2. Abstract!Quit
    BY <1>2, <2>1 DEF Kill, Abstract!Quit, RunningHasPage
  <2>3. QED
    BY <2>2
<1>3. ASSUME NEW s \in Slots,
             \/ ClickCode(s) \/ ClickLogin(s) \/ ClickLogout(s) \/ SendData(s) \/ SendGet(s)
      PROVE  UNCHANGED Abstract!vars
  <2>1. \A r \in Slots : net'[r].reply = net[r].reply
    BY <1>3
    DEF ClickCode, ClickLogin, ClickLogout, SendData, SendGet, SendAuthorized, Free, Sent, Idle
  <2>2. Granted' = Granted
    BY <2>1, GrantedKept
  <2>3. QED
    BY <1>3, <2>2
    DEF ClickCode, ClickLogin, ClickLogout, SendData, SendGet, SendAuthorized, clientVars, serverVars
<1>4. ASSUME NEW s \in Slots, NEW t \in Tokens, Issue(s, t)
      PROVE  Abstract!Grant(t)
  <2>1. net[s].reply \notin Tokens
    BY <1>4 DEF Issue, Outstanding, Outcomes
  <2>2. net' = [net EXCEPT ![s].reply = t]
    BY <1>4 DEF Issue, Reply
  <2>3. \A r \in Slots : net'[r].reply = IF r = s THEN t ELSE net[r].reply
    BY <2>2, <1>4 DEF Issue, Outstanding, Request, Idle
  <2>4. Granted' = Granted \cup {t}
    BY <2>1, <2>3 DEF Granted
  <2>5. QED
    BY <1>4, <2>4 DEF Issue, Abstract!Grant, clientVars
<1>5. ASSUME NEW s \in Slots, Accept(s) \/ Reject(s) \/ Refuse(s)
      PROVE  UNCHANGED Abstract!vars
  <2>1. PICK reply \in {"ok", "rejected", "refused"} : net' = [net EXCEPT ![s].reply = reply]
    BY <1>5 DEF Accept, Reject, Refuse, Reply
  <2>2. \A r \in Slots : net'[r].reply = IF r = s THEN reply ELSE net[r].reply
    BY <2>1 DEF Request, Idle
  <2>3. Granted' = Granted
    BY <1>5, <2>2, GrantedKept DEF Accept, Reject, Refuse, Outstanding, Outcomes
  <2>4. QED
    BY <1>5, <2>3 DEF Accept, Reject, Refuse, clientVars, serverVars
<1>6. ASSUME NEW s \in Slots, LoginSucceeded(s)
      PROVE  Abstract!Redeem(net[s].reply)
  <2>1. net[s].reply \in Granted
    BY <1>6 DEF LoginSucceeded, Granted
  <2>2. \A r \in Slots : net'[r].reply = IF r = s THEN "none" ELSE net[r].reply
    BY <1>6 DEF LoginSucceeded, Done, Idle
  <2>3. Granted' = Granted \ {net[s].reply}
    BY <1>6, <2>2 DEF Granted, LoginSucceeded, GrantsDistinct, Outcomes
  <2>4. running
    BY <1>6 DEF DeadIsEmpty, LoginSucceeded, Answered, Idle
  <2>5. QED
    BY <1>6, <2>1, <2>3, <2>4
    DEF LoginSucceeded, Abstract!Redeem, ConfigureMainViewController, Install, serverVars, RunningHasPage
<1>7. ASSUME NEW s \in Slots, LogoutSucceeded(s) \/ TokenRejected(s)
      PROVE  Abstract!SignOut
  <2>1. \A r \in Slots : net'[r].reply = IF r = s THEN "none" ELSE net[r].reply
    BY <1>7 DEF LogoutSucceeded, TokenRejected, Done, Idle
  <2>2. Granted' = Granted
    BY <1>7, <2>1, GrantedKept DEF LogoutSucceeded, TokenRejected, Outcomes
  <2>3. running
    BY <1>7 DEF DeadIsEmpty, LogoutSucceeded, TokenRejected, Answered, Idle
  <2>4. QED
    BY <1>7, <2>2, <2>3
    DEF LogoutSucceeded, TokenRejected, Abstract!SignOut, ConfigLoginRootVC, Install, serverVars,
        RunningHasPage
<1>8. ASSUME NEW s \in Slots, OtherAnswer(s)
      PROVE  UNCHANGED Abstract!vars
  <2>1. \A r \in Slots : net'[r].reply = IF r = s THEN "none" ELSE net[r].reply
    BY <1>8 DEF OtherAnswer, Done, Idle
  <2>2. Granted' = Granted
    BY <1>8, <2>1, GrantedKept DEF OtherAnswer, Outcomes
  <2>3. QED
    BY <1>8, <2>2 DEF OtherAnswer, clientVars, serverVars
<1>9. ASSUME NEW s \in Slots, HudHide(s)
      PROVE  UNCHANGED Abstract!vars
  BY <1>9, GrantedKept DEF HudHide, clientVars, serverVars
<1>10. ASSUME NEW t \in Tokens, Expire(t)
       PROVE  UNCHANGED Abstract!vars
  BY <1>10, GrantedKept DEF Expire, clientVars
<1>11. CASE UNCHANGED vars
  BY <1>11, GrantedKept DEF vars
<1>12. ASSUME NEW s \in Slots, LoginSucceeded(s)
       PROVE  Abstract!Next
  BY <1>6, <1>12 DEF LoginSucceeded
<1>13. QED
  BY <1>1, <1>2, <1>3, <1>4, <1>5, <1>7, <1>8, <1>9, <1>10, <1>11, <1>12 DEF Next, Deliver

\* The session implements SignIn.
THEOREM Refinement == Spec => ImplementsSignIn
<1>1. Init => Abstract!Init
  BY InitRefines
<1>2. IInv /\ [Next]_vars => [Abstract!Next]_(Abstract!vars)
  BY NextRefines
<1>3. QED
  BY <1>1, <1>2, Invariance, PTL DEF Spec, ImplementsSignIn, Abstract!Spec
=============================================================================
