----------------------------- MODULE PullRefresh -----------------------------
(***************************************************************************)
(* What a page with a pull-to-refresh header (MJRefresh's mj_header)       *)
(* promises.  Requests are sent by the pull, and by other causes that do   *)
(* not turn the header; any answer hides it.  So the header may be hidden  *)
(* before the pull's own answer has come, but it never turns with nothing  *)
(* under way, and it does not turn for ever.                               *)
(*                                                                         *)
(* FirstInfo, the second page of MainPage and Calendar implement it.       *)
(***************************************************************************)
VARIABLES
    waiting,   \* a request whose answer hides the header is under way
    spinning   \* the header is refreshing

pullVars == <<waiting, spinning>>

Init ==
    /\ waiting \in BOOLEAN
    /\ spinning \in BOOLEAN
    /\ spinning => waiting

\* A request is sent, by a pull or not.
Ask ==
    /\ waiting' = TRUE
    /\ spinning' \in {spinning, TRUE}

\* A request is answered, perhaps not the last one.
Answered ==
    /\ waiting
    /\ waiting' \in BOOLEAN
    /\ spinning' = FALSE

Next == Ask \/ Answered

\* Stated as what fairness is for: the mapped Answered is not an action of one
\* request.
Liveness == spinning ~> ~spinning

Safety == Init /\ [][Next]_pullVars

Spec == Safety /\ Liveness
=============================================================================
