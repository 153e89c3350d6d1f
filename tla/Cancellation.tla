---------------------------- MODULE Cancellation ----------------------------
(***************************************************************************)
(* Cancellation tokens, linked tokens, and the HTTP requests that follow   *)
(* them through an AbortSignal (cancellation-token.ts, linked-             *)
(* cancellation-token.ts, web/cancellation.ts, fetch-transport.ts).        *)
(*                                                                         *)
(* A cancellation is delivered synchronously, listener by listener, and a  *)
(* listener may cancel another token or remove other listeners, so the     *)
(* loops in progress are part of the state, innermost last.                *)
(***************************************************************************)
EXTENDS Integers, Sequences

CONSTANTS Sources,     \* token sources: the client's root, callers' tokens
          Requests     \* requests; the linked token of a request has its name

VARIABLES reason,      \* the reason each token was cancelled with, if it was
          sourceDisposed,
          listeners,   \* callbacks registered on each token
          loops,       \* cancellations being delivered
          request      \* each request: its sources, its token and its progress
cancelVars == <<reason, sourceDisposed, listeners, loops, request>>

Tokens == Sources \cup Requests
NoReason == "none"

ASSUME CancelAssumption == Sources \cap Requests = {} /\ NoReason \notin Sources
NotSent == [at |-> "idle", sources |-> {}, token |-> NoReason, aborted |-> NoReason,
            result |-> NoReason]

CancelInit ==
    /\ reason = [t \in Tokens |-> NoReason]
    /\ sourceDisposed = [s \in Sources |-> FALSE]
    /\ listeners = [t \in Tokens |-> {}]
    /\ loops = <<>>
    /\ request = [r \in Requests |-> NotSent]

Deliver(t, lp) == Append(lp, [of |-> t, called |-> {}])
Innermost == loops[Len(loops)]

isCancellationRequested(t) == reason[t] # NoReason

(* _cancel: the first reason stays; the listeners registered are called.   *)
_cancel_ClearsFirst(t, why) ==
    IF isCancellationRequested(t) THEN UNCHANGED <<reason, listeners, loops>>
    ELSE /\ reason' = [reason EXCEPT ![t] = why]
         /\ listeners' = [listeners EXCEPT ![t] = {}]
         /\ loops' = Deliver(t, loops)

_cancel(t, why) ==
    IF isCancellationRequested(t) THEN UNCHANGED <<reason, listeners, loops>>
    ELSE /\ reason' = [reason EXCEPT ![t] = why]
         /\ loops' = Deliver(t, loops)
         /\ UNCHANGED listeners

(* cancel and dispose of a token source by the program.                    *)
cancel(s, why) ==
    /\ loops = <<>>
    /\ ~sourceDisposed[s]
    /\ _cancel(s, why)
    /\ UNCHANGED <<sourceDisposed, request>>

disposeSource(s) ==
    /\ loops = <<>>
    /\ ~sourceDisposed[s]
    /\ sourceDisposed' = [sourceDisposed EXCEPT ![s] = TRUE]
    /\ _cancel(s, "disposed")
    /\ UNCHANGED request

(* createLinkedCancellationToken: no new token when one source is enough   *)
(* or when one is cancelled already.                                       *)
createLinkedCancellationToken(r, S) ==
    LET over == {s \in S : isCancellationRequested(s)} IN
    IF \E s \in S : S = {s} THEN S ELSE IF over # {} THEN over ELSE {r}

(* execute, up to the fetch: link the tokens, bridge the token to an       *)
(* AbortController.  A token that is cancelled already aborts it at once.  *)
fetchExecute(r, S) ==
    /\ loops = <<>> /\ request[r].at = "idle"
    /\ \E t \in createLinkedCancellationToken(r, S) :
          /\ request' = [request EXCEPT ![r] =
                [at |-> "fetching", sources |-> S, token |-> t,
                 aborted |-> reason[t], result |-> NoReason]]
          /\ listeners' = [u \in Tokens |->
                listeners[u]
                \cup (IF t = r /\ u \in S THEN {<<"link", r>>} ELSE {})
                \cup (IF t = r /\ u = r THEN {<<"unlink", r>>} ELSE {})
                \cup (IF u = t /\ ~isCancellationRequested(t) THEN {<<"abort", r>>} ELSE {})]
    /\ UNCHANGED <<reason, sourceDisposed, loops>>

(* The innermost loop calls one more of its listeners.                     *)
Waiting == listeners[Innermost.of] \ Innermost.called
Called(l) == [loops EXCEPT ![Len(loops)].called = @ \cup {l}]

\* A source's listener: cancel the linked token with the same reason.
NotifyLink(r) ==
    /\ loops # <<>> /\ <<"link", r>> \in Waiting
    /\ IF isCancellationRequested(r)
       THEN loops' = Called(<<"link", r>>) /\ UNCHANGED reason
       ELSE /\ reason' = [reason EXCEPT ![r] = reason[Innermost.of]]
            /\ loops' = Deliver(r, Called(<<"link", r>>))
    /\ UNCHANGED <<sourceDisposed, listeners, request>>

\* The linked token's own listener: leave every source.
NotifyUnlink(r) ==
    /\ loops # <<>> /\ <<"unlink", r>> \in Waiting
    /\ listeners' = [t \in Tokens |-> listeners[t] \ {<<"link", r>>}]
    /\ loops' = Called(<<"unlink", r>>)
    /\ UNCHANGED <<reason, sourceDisposed, request>>

\* createAbortSignalBridge's listener: abort the fetch.
NotifyAbort(r) ==
    /\ loops # <<>> /\ <<"abort", r>> \in Waiting
    /\ request' = [request EXCEPT ![r].aborted = reason[Innermost.of]]
    /\ loops' = Called(<<"abort", r>>)
    /\ UNCHANGED <<reason, sourceDisposed, listeners>>

\* The loop ends and the listeners are forgotten.
LoopEnds ==
    /\ loops # <<>> /\ Waiting = {}
    /\ listeners' = [listeners EXCEPT ![Innermost.of] = {}]
    /\ loops' = SubSeq(loops, 1, Len(loops) - 1)
    /\ UNCHANGED <<reason, sourceDisposed, request>>

(* normalizeAbortError: an error of an aborted or cancelled request is     *)
(* reported as the cancellation, with its reason.                          *)
normalizeAbortError(r, error) ==
    LET t == request[r].token IN
    IF error # "AbortError" /\ ~isCancellationRequested(t) THEN error ELSE reason[t]

(* The fetch settles: an aborted one is rejected by the platform, another  *)
(* one answers or fails.  The bridge is taken down in either case.         *)
FetchSettles(r) ==
    /\ loops = <<>> /\ request[r].at = "fetching"
    /\ \E outcome \in IF request[r].aborted # NoReason THEN {"AbortError"} ELSE {"response", "network"} :
          request' = [request EXCEPT ![r].at = "settled",
                        ![r].result = IF outcome = "response" THEN outcome
                                      ELSE normalizeAbortError(r, outcome)]
    /\ listeners' = [t \in Tokens |-> listeners[t] \ {<<"abort", r>>}]
    /\ UNCHANGED <<reason, sourceDisposed, loops>>

CancelNext ==
    \/ \E s \in Sources : cancel(s, s) \/ disposeSource(s)
    \/ \E r \in Requests :
          \/ \E S \in SUBSET Sources \ {{}} : fetchExecute(r, S)
          \/ NotifyLink(r) \/ NotifyUnlink(r) \/ NotifyAbort(r)
          \/ FetchSettles(r)
    \/ LoopEnds

CancelSpec == CancelInit /\ [][CancelNext]_cancelVars

-----------------------------------------------------------------------------
(* Once a cancellation has been delivered, a request in flight is aborted  *)
(* exactly when one of the tokens it was given is cancelled, with the      *)
(* reason of one of those; a request reports a cancellation only if there  *)
(* was one, and answers only if there was none before the answer.          *)
RequestsFollowTheirTokens ==
    loops = <<>> => \A r \in Requests :
        LET whys == {reason[s] : s \in request[r].sources} \ {NoReason} IN
        /\ request[r].at = "fetching" =>
              IF whys = {} THEN request[r].aborted = NoReason ELSE request[r].aborted \in whys
        /\ request[r].at = "settled" =>
              request[r].result \in {"response", "network"} \cup whys
=============================================================================
