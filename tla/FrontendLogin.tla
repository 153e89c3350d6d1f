--------------------------- MODULE FrontendLogin ---------------------------
(***************************************************************************)
(* Logins of the frontend OIDC mode: authorization requests, the pending   *)
(* and consumed records they leave in the session store, the callbacks     *)
(* that take them, and the popup relay.                                    *)
(*                                                                         *)
(* A flow is a call that has not returned; it runs to its next await in    *)
(* one step.  The stores of the SDK take effect when they are called.  A   *)
(* state stands for all that is drawn or kept with it: the code verifier,  *)
(* the nonce, the redirect URI.  What becomes of a snapshot after it is    *)
(* applied is the subject of OidcModeClient.                               *)
(***************************************************************************)
EXTENDS Naturals, FiniteSets

CONSTANTS
    LoginClients,   \* clients on one page, which share its session store
    Flows,          \* calls that may overlap
    States,         \* values of the state parameter
    Scripted,       \* the clients with a claims check script
    PendingTtl,     \* the age at which pending and consumed records lapse
    MaxLoginTime,   \* bound on the clock
    NoState

ASSUME LoginAssumption ==
    /\ PendingTtl \in Nat /\ MaxLoginTime \in Nat /\ NoState \notin States
    /\ Scripted \subseteq LoginClients

VARIABLES
    pendingStates,    \* session store: by which client and when a state was saved
    consumedStates,   \* session store: when a state was consumed
    flows,            \* the calls
    popups,           \* the window each popup login has opened
    relayed,          \* relay messages that are not yet delivered
    retired,          \* the disposed clients
    loginTime,
    exchanges         \* history: the states drawn, how often each was exchanged, by whom

loginVars == <<flows, retired, pendingStates, consumedStates, popups, relayed, loginTime, exchanges>>

Nothing == [at |-> MaxLoginTime + 1]
NoFlow == [pc |-> "none"]
NoPopup == [state |-> NoState, open |-> FALSE]

LoginInit ==
    /\ flows = [f \in Flows |-> NoFlow]
    /\ retired = {}
    /\ pendingStates = [s \in States |-> Nothing]
    /\ consumedStates = [s \in States |-> Nothing]
    /\ popups = [f \in Flows |-> NoPopup]
    /\ relayed = {}
    /\ loginTime = 0
    /\ exchanges = [s \in States |-> [drawn |-> FALSE, times |-> 0, own |-> TRUE]]

-----------------------------------------------------------------------------
Flow(f, pc) == flows[f].pc = pc
Goes(f, pc) == flows' = [flows EXCEPT ![f].pc = pc]
FlowEnds(f) == flows' = [flows EXCEPT ![f] = NoFlow]
Client(f) == flows[f].client

Call(f, c, pc, kind, s) ==
    /\ Flow(f, "none") /\ popups[f] = NoPopup
    /\ c \notin retired
    /\ flows' = [flows EXCEPT ![f] = [pc |-> pc, client |-> c, kind |-> kind,
                                      state |-> s, held |-> Nothing]]

Stores == <<pendingStates, consumedStates>>
Windows == <<popups, relayed>>

(* Bound: a state is left for every request that is under way.             *)
StatesLeft ==
    LET requests == {f \in Flows : Flow(f, "server")}
    IN Cardinality({s \in States : ~exchanges[s].drawn}) > Cardinality(requests)

(* authorizeUrl, loginWithRedirect and popupLogin wait for the provider.    *)
StartFlow(f, c, kind) ==
    /\ StatesLeft
    /\ Call(f, c, "server", kind, NoState)
    /\ UNCHANGED <<retired, Stores, Windows, loginTime, exchanges>>

-----------------------------------------------------------------------------
(* The authorization request: a fresh state, whose consumed record is      *)
(* cleared and whose pending record is saved.                              *)

_buildAuthorizeUrl(f, s) ==
    /\ Flow(f, "server")
    /\ ~exchanges[s].drawn
    /\ exchanges' = [exchanges EXCEPT ![s].drawn = TRUE]
    /\ flows' = [flows EXCEPT ![f].pc = "saving", ![f].state = s,
                              ![f].held = [client |-> Client(f), at |-> loginTime]]
    /\ consumedStates' = [consumedStates EXCEPT ![s] = Nothing]
    /\ UNCHANGED <<retired, pendingStates, Windows, loginTime>>

_savePendingState(f) ==
    /\ Flow(f, "saving")
    /\ pendingStates' = [pendingStates EXCEPT ![flows[f].state] = flows[f].held]
    /\ IF flows[f].kind = "popup" THEN flows' = [flows EXCEPT ![f].pc = "opening", ![f].held = Nothing]
       ELSE FlowEnds(f)
    /\ UNCHANGED <<retired, consumedStates, Windows, loginTime, exchanges>>

-----------------------------------------------------------------------------
(* The popup.  Its callback page posts its URL to the opener and closes;   *)
(* every popup login that waits on the page hears the message.             *)

openPopupWindow(f) ==
    /\ Flow(f, "opening")
    /\ popups' = [popups EXCEPT ![f] = [state |-> flows[f].state, open |-> TRUE]]
    /\ flows' = [flows EXCEPT ![f].pc = "waiting", ![f].state = NoState]
    /\ UNCHANGED <<retired, Stores, relayed, loginTime, exchanges>>

relayPopupCallback(f, error) ==
    /\ popups[f].open
    /\ relayed' = relayed \cup {[state |-> popups[f].state, error |-> error]}
    /\ UNCHANGED <<flows, retired, Stores, popups, loginTime, exchanges>>

PopupCloses(f) ==
    /\ popups[f].open
    /\ popups' = [popups EXCEPT ![f] = IF Flow(f, "waiting") THEN [@ EXCEPT !.open = FALSE] ELSE NoPopup]
    /\ UNCHANGED <<flows, retired, Stores, relayed, loginTime, exchanges>>

RelaySettled(f, pc, s) ==
    IF pc = "none" THEN NoFlow ELSE [flows[f] EXCEPT !.pc = pc, !.state = s]

(* A window that closed before its login settled is of no more interest.   *)
Forgotten(fs) == [f \in Flows |-> IF f \in fs /\ ~popups[f].open THEN NoPopup ELSE popups[f]]

OnMessage_ErrorUnsettled(message) ==
    LET waiting == {f \in Flows : Flow(f, "waiting")} IN
    /\ message \in relayed
    /\ relayed' = relayed \ {message}
    /\ flows' = [f \in Flows |->
         IF f \in waiting
         THEN RelaySettled(f, IF message.error THEN "deaf" ELSE "callback", message.state)
         ELSE flows[f]]
    /\ popups' = Forgotten(waiting)
    /\ UNCHANGED <<retired, Stores, loginTime, exchanges>>

OnMessage(message) ==
    LET waiting == {f \in Flows : Flow(f, "waiting")} IN
    /\ message \in relayed
    /\ relayed' = relayed \ {message}
    /\ flows' = [f \in Flows |->
         IF f \in waiting
         THEN RelaySettled(f, IF message.error THEN "none" ELSE "callback", message.state)
         ELSE flows[f]]
    /\ popups' = Forgotten(waiting)
    /\ UNCHANGED <<retired, Stores, loginTime, exchanges>>

PollClosed(f) ==
    /\ Flow(f, "waiting") /\ ~popups[f].open
    /\ FlowEnds(f)
    /\ popups' = Forgotten({f})
    /\ UNCHANGED <<retired, Stores, relayed, loginTime, exchanges>>

RelayTimeout(f) ==
    /\ Flow(f, "waiting")
    /\ FlowEnds(f)
    /\ popups' = [popups EXCEPT ![f] = NoPopup]
    /\ UNCHANGED <<retired, Stores, relayed, loginTime, exchanges>>

-----------------------------------------------------------------------------
(* The callback.                                                           *)

Take_LeavesPending(f, s, call) ==
    /\ flows' = [flows EXCEPT ![f] = [call EXCEPT
         !.pc = IF pendingStates[s] = Nothing THEN "lookup" ELSE "taken",
         !.held = pendingStates[s], !.state = s]]
    /\ UNCHANGED pendingStates

(* take of the store reads and removes in one call.                        *)
Take(f, s, call) ==
    /\ flows' = [flows EXCEPT ![f] = [call EXCEPT
         !.pc = IF pendingStates[s] = Nothing THEN "lookup" ELSE "taken",
         !.held = pendingStates[s], !.state = s]]
    /\ pendingStates' = [pendingStates EXCEPT ![s] = Nothing]

CallbackFlow(c) == [pc |-> "callback", client |-> c, kind |-> "callback", state |-> NoState, held |-> Nothing]

handleCallback(f, c, s) ==
    /\ Flow(f, "none") /\ popups[f] = NoPopup
    /\ c \notin retired
    /\ Take(f, s, CallbackFlow(c))
    /\ UNCHANGED <<retired, consumedStates, Windows, loginTime, exchanges>>

(* popupLogin hands the relayed URL to handleCallback.                     *)
PopupCallback(f) ==
    /\ Flow(f, "callback")
    /\ Client(f) \notin retired
    /\ Take(f, flows[f].state, flows[f])
    /\ UNCHANGED <<retired, consumedStates, Windows, loginTime, exchanges>>

(* Unknown or duplicate: the callback fails, and a lapsed record of the    *)
(* consumption is cleared.                                                 *)
_loadConsumedState(f) ==
    LET s == flows[f].state IN
    /\ Flow(f, "lookup")
    /\ FlowEnds(f)
    /\ consumedStates' =
         IF loginTime > consumedStates[s].at + PendingTtl
         THEN [consumedStates EXCEPT ![s] = Nothing] ELSE consumedStates
    /\ UNCHANGED <<retired, pendingStates, Windows, loginTime, exchanges>>

(* A pending state that is too old fails the callback; it is gone.         *)
_takePendingState(f) ==
    /\ Flow(f, "taken")
    /\ IF loginTime > flows[f].held.at + PendingTtl
       THEN FlowEnds(f) /\ UNCHANGED consumedStates
       ELSE /\ Goes(f, "marked")
            /\ consumedStates' = [consumedStates EXCEPT ![flows[f].state] = [at |-> loginTime]]
    /\ UNCHANGED <<retired, pendingStates, Windows, loginTime, exchanges>>

OwnPending(f) ==
    /\ Flow(f, "marked")
    /\ IF flows[f].held.client # Client(f) \/ Client(f) \in retired THEN FlowEnds(f)
       ELSE Goes(f, "provider")
    /\ UNCHANGED <<retired, Stores, Windows, loginTime, exchanges>>

exchangeCode(f) ==
    LET s == flows[f].state IN
    /\ Flow(f, "provider")
    /\ exchanges' = [exchanges EXCEPT ![s] =
         [drawn |-> TRUE, times |-> @.times + 1,
          own |-> @.own /\ flows[f].held.client = Client(f)]]
    /\ Goes(f, "exchanging")
    /\ UNCHANGED <<retired, Stores, Windows, loginTime>>

(* Tokens without an id token skip the claims check.                       *)
ExchangeAnswers(f, idToken) ==
    /\ Flow(f, "exchanging")
    /\ IF Client(f) \in retired THEN FlowEnds(f) ELSE IF idToken THEN Goes(f, "checking") ELSE FlowEnds(f)
    /\ UNCHANGED <<retired, Stores, Windows, loginTime, exchanges>>

(* User info that cannot be had is done without; only a script rejects.    *)
_performClaimsCheck(f, accepted) ==
    /\ Flow(f, "checking")
    /\ accepted \/ Client(f) \in Scripted
    /\ FlowEnds(f)
    /\ UNCHANGED <<retired, Stores, Windows, loginTime, exchanges>>

-----------------------------------------------------------------------------
(* The provider cannot be had, a request fails, the window is blocked, the *)
(* client was disposed: the call throws.  Records it has saved remain.     *)
FlowFails(f) ==
    /\ flows[f].pc \in {"server", "opening", "callback", "provider", "exchanging"}
    /\ Flow(f, "callback") => Client(f) \in retired
    /\ FlowEnds(f)
    /\ UNCHANGED <<retired, Stores, Windows, loginTime, exchanges>>

LoginDispose(c) ==
    /\ c \notin retired
    /\ retired' = retired \cup {c}
    /\ UNCHANGED <<flows, Stores, Windows, loginTime, exchanges>>

(* The page is left or reloaded: only the session store remains.           *)
PageReload ==
    /\ flows' = [f \in Flows |-> NoFlow]
    /\ retired' = {}
    /\ popups' = [f \in Flows |-> NoPopup] /\ relayed' = {}
    /\ UNCHANGED <<Stores, loginTime, exchanges>>

LoginTick ==
    /\ loginTime < MaxLoginTime
    /\ loginTime' = loginTime + 1
    /\ UNCHANGED <<flows, retired, Stores, Windows, exchanges>>

LoginFlowStep(f) ==
    \/ \E s \in States : _buildAuthorizeUrl(f, s)
    \/ _savePendingState(f) \/ openPopupWindow(f)
    \/ PollClosed(f) \/ RelayTimeout(f)
    \/ PopupCallback(f)
    \/ _loadConsumedState(f) \/ _takePendingState(f) \/ OwnPending(f) \/ exchangeCode(f)
    \/ \E idToken \in BOOLEAN : ExchangeAnswers(f, idToken)
    \/ \E accepted \in BOOLEAN : _performClaimsCheck(f, accepted)
    \/ FlowFails(f)

LoginNext ==
    \/ \E f \in Flows :
         \/ \E c \in LoginClients :
              \/ \E kind \in {"redirect", "popup"} : StartFlow(f, c, kind)
              \/ \E s \in States : handleCallback(f, c, s)
         \/ LoginFlowStep(f)
         \/ \E error \in BOOLEAN : relayPopupCallback(f, error)
         \/ PopupCloses(f)
    \/ \E message \in relayed : OnMessage(message)
    \/ \E c \in LoginClients : LoginDispose(c)
    \/ PageReload
    \/ LoginTick

(* Requests end, timers fire: a call that can go on does.                  *)
LoginFairness == \A f \in Flows : WF_loginVars(LoginFlowStep(f))

LoginSpec == LoginInit /\ [][LoginNext]_loginVars /\ LoginFairness

-----------------------------------------------------------------------------
(* Properties                                                              *)

(* The code that comes with a state is exchanged at most once, by the      *)
(* client that asked for it: callbacks that run twice, reloads, popups and *)
(* a second client on the page do not change that.                         *)
OneExchangePerState ==
    \A s \in States : exchanges[s].times <= 1 /\ exchanges[s].own

(* Every call ends, a popup login included whose window is closed, never   *)
(* answers or relays an error.                                             *)
LoginsEnd == \A f \in Flows : ~Flow(f, "none") ~> Flow(f, "none")
=============================================================================
