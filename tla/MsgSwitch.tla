------------------------------ MODULE MsgSwitch ------------------------------
(***************************************************************************)
(* The message switch, row 1 of LeftMenuViewController.  The controller    *)
(* keeps a status (0 for on, any other for off), on from the start.  The   *)
(* view's loading asks the server for the status of the user; a tap turns  *)
(* the switch at once and asks the server to store the status shown. Every *)
(* answer brings the server's status and is shown as it comes, so that an  *)
(* answer may turn a switch tapped meanwhile back; no failure is noticed.  *)
(*                                                                         *)
(* LeftMenu composes it with the presentation of the menu: a replaced root *)
(* controller has a new menu, and the requests of the old one go on.       *)
(***************************************************************************)
EXTENDS Naturals, SequencesExt

CONSTANT MaxMsgs    \* bound on the switch's requests under way

ASSUME SwitchAssumption == MaxMsgs \in Nat \ {0}

VARIABLES
    loaded,   \* viewDidLoad of this menu has run
    status,   \* the controller's status; its cell shows it at every change
    server,   \* the status the server keeps for the user
    msgs,     \* requests under way, in the order they were sent
    choice    \* the status chosen last, or "none", since nothing was under way;
              \* "lost" at first, or when a request failed or overtook another

switchVars == <<loaded, status, server, msgs, choice>>

Status == {"on", "off"}
Opposite(s) == IF s = "on" THEN "off" ELSE "on"

\* A request says what it asks for ("get": the status stored; else the status to
\* store) and, once the server has dealt with it, what it answers.  It is not
\* mine when nobody waits for its answer: its menu is gone or it was given up.
Msgs == [says : Status \cup {"get"}, dealt : BOOLEAN, mine : BOOLEAN]

SwitchTypeOK ==
    /\ loaded \in BOOLEAN
    /\ status \in Status
    /\ server \in Status
    /\ msgs \in Seq(Msgs)
    /\ Len(msgs) <= MaxMsgs
    /\ choice \in Status \cup {"none", "lost"}

SwitchInit ==
    /\ loaded = FALSE
    /\ status = "on"
    /\ server \in Status
    /\ msgs = <<>>
    /\ choice = "lost"

-----------------------------------------------------------------------------
(* The controller.                                                           *)

SendMsg(ask) ==
    /\ Len(msgs) < MaxMsgs
    /\ msgs' = Append(msgs, [says |-> ask, dealt |-> FALSE, mine |-> TRUE])

\* A request sent with none under way starts anew.
Intend(new) == choice' = IF msgs # <<>> /\ choice = "lost" THEN "lost" ELSE new

\* getMsgButtonStatus of viewDidLoad, at the menu's first presentation.
LoadSwitch ==
    \/ loaded /\ UNCHANGED switchVars
    \/ /\ ~loaded
       /\ loaded' = TRUE
       /\ SendMsg("get")
       /\ Intend("none")
       /\ UNCHANGED <<status, server>>

\* (mutant) the request is sent with the status the switch had
MsgButtonClickSendsOld ==
    /\ status' = Opposite(status)
    /\ SendMsg(status)
    /\ Intend(status')
    /\ UNCHANGED <<loaded, server>>

\* msgButtonClick and the cell's block, with setMsgButtonStatus.
MsgButtonClick ==
    /\ status' = Opposite(status)
    /\ SendMsg(status')
    /\ Intend(status')
    /\ UNCHANGED <<loaded, server>>

\* A request the server may still act on with nobody waiting.
Unheard(m) == [m EXCEPT !.mine = FALSE]
StillToStore(m) == ~m.dealt /\ m.says # "get"

\* A menu for a new root controller: of the same user, or of another one, whose
\* status the earlier requests do not touch.
NewSwitch ==
    /\ loaded' = FALSE
    /\ status' = "on"
    /\ choice' = "lost"
    /\ \/ msgs' = [i \in DOMAIN msgs |-> Unheard(msgs[i])] /\ UNCHANGED server
       \/ msgs' = <<>> /\ server' \in Status

-----------------------------------------------------------------------------
(* The server and the network.                                               *)

\* The server deals with the i-th request, perhaps before an earlier one.
ServerTurns(i) ==
    /\ ~msgs[i].dealt
    /\ server' = IF msgs[i].says = "get" THEN server ELSE msgs[i].says
    /\ msgs' = IF msgs[i].mine
               THEN [msgs EXCEPT ![i] = [@ EXCEPT !.says = server', !.dealt = TRUE]]
               ELSE RemoveAt(msgs, i)
    /\ choice' = IF \E j \in 1..(i - 1) : ~msgs[j].dealt THEN "lost" ELSE choice
    /\ UNCHANGED <<loaded, status>>

\* The success block of either request; the one of an old menu sets its own.
StatusArrives(i) ==
    /\ msgs[i].dealt
    /\ status' = IF msgs[i].mine THEN msgs[i].says ELSE status
    /\ msgs' = RemoveAt(msgs, i)
    /\ choice' = IF i > 1 THEN "lost" ELSE choice
    /\ UNCHANGED <<loaded, server>>

\* Another code, an error or the timeout, whether the server dealt with it, never
\* will, or is still to.
MsgFails(i) ==
    /\ \/ msgs' = RemoveAt(msgs, i)
       \/ StillToStore(msgs[i]) /\ msgs' = [msgs EXCEPT ![i] = Unheard(@)]
    /\ choice' = "lost"
    /\ UNCHANGED <<loaded, status, server>>

SwitchAnswered == \E i \in 1..Len(msgs) : ServerTurns(i) \/ StatusArrives(i) \/ MsgFails(i)

-----------------------------------------------------------------------------
(* Properties.                                                               *)

\* Once everything asked was answered in order, the switch, the server and the
\* user's last tap agree, whatever the taps and the answers in between did to
\* the switch (setMsgButtonStatus and the cell's block): only a failure or an
\* answer that overtakes another leaves them apart.
SwitchSettles ==
    msgs = <<>> /\ choice # "lost" => status = server /\ choice \in {status, "none"}
=============================================================================
