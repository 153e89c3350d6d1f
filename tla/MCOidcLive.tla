----------------------------- MODULE MCOidcLive -----------------------------
(***************************************************************************)
(* What must eventually happen in the OIDC clients, on small instances:    *)
(* the client with its calls and its timer, and the logins of the frontend *)
(* mode.  A behaviour runs one of the two.                                 *)
(***************************************************************************)
EXTENDS OidcModeClient, FrontendLogin

CONSTANTS c1, a, b

VARIABLE active     \* which of the two this behaviour runs

OneCall == {c1}
ShortOrInvalid == {Invalid, 4}

LiveInit ==
    /\ Init /\ LoginInit
    /\ active \in {"client", "login"}
    /\ active # "client" => disk = None

\* The calls of a page are bounded, so the logins may come to rest.
LiveNext ==
    /\ UNCHANGED active
    /\ \/ active = "client" /\ Next /\ UNCHANGED loginVars
       \/ active = "login" /\ LoginNext /\ UNCHANGED vars
       \/ active = "login" /\ UNCHANGED <<vars, loginVars>>

\* Time passes for the part that runs.
LiveSpec ==
    /\ LiveInit
    /\ [][LiveNext]_<<active, vars, loginVars>>
    /\ ClientFairness /\ LoginFairness
    /\ WF_vars(active = "client" /\ Tick)
=============================================================================
