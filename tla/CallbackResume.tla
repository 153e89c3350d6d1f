--------------------------- MODULE CallbackResume ---------------------------
(***************************************************************************)
(* The callback resume controller (TokenSetCallbackResumeController) on    *)
(* top of the registry: it finds the client that a callback URL belongs    *)
(* to, waits until that client is ready and lets it handle the callback.   *)
(* Callback URLs are the labels that stand for a callback path.            *)
(***************************************************************************)
EXTENDS AuthRegistry

CONSTANTS
    Urls,          \* callback URLs
    NoKey,         \* no client key
    MaxAttempts,   \* bound: calls of resume that start an attempt
    MaxResets      \* bound: resets of the controller

ASSUME ResumeAssumption ==
    /\ Urls \subseteq Labels
    /\ NoKey \notin Keys
    /\ MaxAttempts \in Nat
    /\ MaxResets \in Nat

VARIABLES
    attempts,   \* the attempts made: the promises that resume returns
    cache,      \* resumeCache: the attempt of a key and URL, or 0
    shown,      \* the state signal: client key and status
    closed,     \* disposed
    resets      \* resets so far

resumeVars == <<attempts, cache, shown, closed, resets>>

vars == <<regVars, resumeVars>>

\* reg is the registration that whenReady answered with, 0 if it rejected;
\* epoch counts the resets before the attempt.
Attempts ==
    [key : Keys, url : Urls, reg : 0..MaxRegs, epoch : 0..MaxResets,
     pc : {"waiting", "handling", "resolved", "failed"}]

ResumeTypeOK ==
    /\ TypeOK
    /\ attempts \in Seq(Attempts)
    /\ cache \in [Keys \X Urls -> 0..MaxAttempts]
    /\ shown \in [key : Keys \cup {NoKey}, status : {"idle", "pending", "resolved", "error"}]
    /\ closed \in BOOLEAN
    /\ resets \in 0..MaxResets

Shown(key, status) == [key |-> key, status |-> status]

ResumeInit ==
    /\ Init
    /\ attempts = <<>>
    /\ cache = [p \in Keys \X Urls |-> 0]
    /\ shown = Shown(NoKey, "idle")
    /\ closed = FALSE
    /\ resets = 0

-----------------------------------------------------------------------------
(* resume.                                                                 *)

\* No client claims the callback.
ResumeUnclaimed(u) ==
    /\ ~closed
    /\ Lookup(u) = {}
    /\ shown' = Shown(NoKey, "error")
    /\ UNCHANGED <<regVars, attempts, cache, closed, resets>>

\* whenReady(k) of this step rejects: there is no client, or its factory threw.
NewAttempt(k, u) ==
    [key |-> k, url |-> u, epoch |-> resets, pc |-> "waiting",
     reg |-> IF Answerable(k) /\ factory'[AnsweredBy(k)] # "none" THEN AnsweredBy(k) ELSE 0]

\* An attempt that is not remembered.
Resume_Uncached(u, k) ==
    /\ ~closed
    /\ Len(attempts) < MaxAttempts
    /\ IF Answerable(k) THEN Preload(k) ELSE UNCHANGED regVars
    /\ attempts' = Append(attempts, NewAttempt(k, u))
    /\ shown' = Shown(k, "pending")
    /\ UNCHANGED <<cache, closed, resets>>

\* The first resume of URL u for client k since the last reset, k being the
\* client that claims the callback or the one that the host names: whenReady
\* may start the client, and rejects when there is none.
Resume(u, k) ==
    /\ ~closed
    /\ Len(attempts) < MaxAttempts
    /\ cache[<<k, u>>] = 0
    /\ IF Answerable(k) THEN Preload(k) ELSE UNCHANGED regVars
    /\ attempts' = Append(attempts, NewAttempt(k, u))
    /\ cache' = [cache EXCEPT ![<<k, u>>] = Len(attempts) + 1]
    /\ shown' = Shown(k, "pending")
    /\ UNCHANGED <<closed, resets>>

\* whenReady is fulfilled: the client handles the callback.
ClientReady(i) ==
    /\ attempts[i].pc = "waiting"
    /\ attempts[i].reg # 0
    /\ factory[attempts[i].reg] = "done"
    /\ attempts' = [attempts EXCEPT ![i].pc = "handling"]
    /\ UNCHANGED <<regVars, cache, shown, closed, resets>>

\* handleCallback is fulfilled.
HandleCallbackDone(i) ==
    /\ attempts[i].pc = "handling"
    /\ attempts' = [attempts EXCEPT ![i].pc = "resolved"]
    /\ shown' = IF closed THEN shown ELSE Shown(attempts[i].key, "resolved")
    /\ UNCHANGED <<regVars, cache, closed, resets>>

\* whenReady has rejected.
Unanswered(i) == attempts[i].reg # 0 => factory[attempts[i].reg] = "failed"

\* A failure that is not shown.
AttemptFails_Silently(i) ==
    /\ \/ attempts[i].pc = "waiting" /\ Unanswered(i)
       \/ attempts[i].pc = "handling"
    /\ attempts' = [attempts EXCEPT ![i].pc = "failed"]
    /\ UNCHANGED <<regVars, cache, shown, closed, resets>>

\* A failure of handleCallback is caught, one of whenReady is not.
AttemptFails_OnlyHandling(i) ==
    /\ attempts[i].pc = "handling"
    /\ attempts' = [attempts EXCEPT ![i].pc = "failed"]
    /\ shown' = IF closed THEN shown ELSE Shown(attempts[i].key, "error")
    /\ UNCHANGED <<regVars, cache, closed, resets>>

\* whenReady or handleCallback rejects.
AttemptFails(i) ==
    /\ \/ attempts[i].pc = "waiting" /\ Unanswered(i)
       \/ attempts[i].pc = "handling"
    /\ attempts' = [attempts EXCEPT ![i].pc = "failed"]
    /\ shown' = IF closed THEN shown ELSE Shown(attempts[i].key, "error")
    /\ UNCHANGED <<regVars, cache, closed, resets>>

\* reset: the cached attempts are forgotten, not stopped.
ResetController ==
    /\ ~closed
    /\ resets < MaxResets
    /\ resets' = resets + 1
    /\ cache' = [p \in Keys \X Urls |-> 0]
    /\ shown' = Shown(NoKey, "idle")
    /\ UNCHANGED <<regVars, attempts, closed>>

DisposeController ==
    /\ ~closed
    /\ closed' = TRUE
    /\ cache' = [p \in Keys \X Urls |-> 0]
    /\ UNCHANGED <<regVars, attempts, shown, resets>>

ResumeNext ==
    \/ RegistryStep /\ UNCHANGED resumeVars
    \/ \E u \in Urls : ResumeUnclaimed(u) \/ \E k \in Keys : Resume(u, k)
    \/ \E i \in 1..Len(attempts) : ClientReady(i) \/ HandleCallbackDone(i) \/ AttemptFails(i)
    \/ ResetController
    \/ DisposeController

ResumeSpec == ResumeInit /\ [][ResumeNext]_vars

\* Promises of the host settle: factories and callbacks.
ResumeFairness ==
    /\ \A r \in Regs : WF_vars((FactoryResolves(r) \/ FactoryRejects(r)) /\ UNCHANGED resumeVars)
    /\ \A i \in 1..MaxAttempts :
           WF_vars(i <= Len(attempts)
                   /\ (ClientReady(i) \/ HandleCallbackDone(i) \/ AttemptFails(i)))

-----------------------------------------------------------------------------
(* Properties.                                                             *)

\* "dedupes the same callback URL until reset": a one-time authorization code is
\* handed to the client at most once, failures included, until the host resets.
OneAttemptPerCallback ==
    \A i, j \in 1..Len(attempts) :
        (/\ attempts[i].key = attempts[j].key
         /\ attempts[i].url = attempts[j].url
         /\ attempts[i].epoch = attempts[j].epoch) => i = j

\* A pending state is owned by an attempt of the same client that has not
\* settled and will replace it.
PendingIsOwned ==
    shown.status = "pending" /\ ~closed =>
        \E i \in 1..Len(attempts) :
            attempts[i].key = shown.key /\ attempts[i].pc \in {"waiting", "handling"}

\* Every callback has one attempt, and that attempt answers for the state that
\* the page shows.
CallbackAttemptsAreOwned == OneAttemptPerCallback /\ PendingIsOwned

\* A callback page does not stay pending: whatever is reset, disposed or
\* registered again meanwhile, the state leaves "pending" unless the controller
\* is disposed.
PendingEnds == shown.status = "pending" ~> shown.status # "pending" \/ closed

=============================================================================
