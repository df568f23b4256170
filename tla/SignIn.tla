------------------------------- MODULE SignIn -------------------------------
(***************************************************************************)
(* What signing in promises, with the requests, the HUDs and the header    *)
(* left out.  The credential is the token the application keeps on disk;   *)
(* a granted token is one the server put in a login answer that has not    *)
(* reached the application yet.                                            *)
(*                                                                         *)
(*   - a token is redeemed at most once, and only if it was granted;       *)
(*   - signing out changes the page and keeps the credential, so the next  *)
(*     Open shows the main page again;                                     *)
(*   - the main page is only reached with a credential.                    *)
(***************************************************************************)
CONSTANTS Tokens, NoToken

VARIABLES
    page,        \* "off", "login" or "main"
    credential,  \* the token on disk, or NoToken
    granted,     \* tokens in login answers under way
    spent        \* every token ever granted

vars == <<page, credential, granted, spent>>

Init ==
    /\ page = "off"
    /\ credential = NoToken
    /\ granted = {}
    /\ spent = {}

Open ==
    /\ page = "off"
    /\ page' = IF credential = NoToken THEN "login" ELSE "main"
    /\ UNCHANGED <<credential, granted, spent>>

Quit ==
    /\ page # "off"
    /\ page' = "off"
    /\ granted' = {}
    /\ UNCHANGED <<credential, spent>>

Grant(t) ==
    /\ t \in Tokens \ spent
    /\ granted' = granted \cup {t}
    /\ spent' = spent \cup {t}
    /\ UNCHANGED <<page, credential>>

Redeem(t) ==
    /\ page # "off"
    /\ t \in granted
    /\ page' = "main"
    /\ credential' = t
    /\ granted' = granted \ {t}
    /\ UNCHANGED spent

SignOut ==
    /\ page # "off"
    /\ page' = "login"
    /\ UNCHANGED <<credential, granted, spent>>

Next ==
    \/ Open
    \/ Quit
    \/ SignOut
    \/ \E t \in Tokens : Grant(t) \/ Redeem(t)

Spec == Init /\ [][Next]_vars
=============================================================================
