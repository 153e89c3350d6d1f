------------------------- MODULE RouteOrchestrator -------------------------
(***************************************************************************)
(* The route requirement orchestrator of the client SDK with the           *)
(* requirement planner it drives: the plan of the matched routes, the      *)
(* answers that survive a change of route, and the host's two callbacks.   *)
(*                                                                         *)
(* Everything is synchronous, so the only interleaving is re-entrance: a   *)
(* callback may call the orchestrator again before it returns.  The calls  *)
(* that wait for a callback are the frames of `stack`.                     *)
(***************************************************************************)
EXTENDS Naturals, Sequences

CONSTANTS
    Chains,      \* the matched route chains the host may activate
    Decisions,   \* the requirement ids for which the host records a choice
    NoRoute,     \* null
    MaxDepth     \* bound: calls that wait for callbacks

Statuses == {"fulfilled", "failed", "skipped"}

RequirementsOf(chain) ==
    UNION {{chain.nodes[n][i] : i \in DOMAIN chain.nodes[n]} : n \in DOMAIN chain.nodes}

(* A chain has the id of its leaf and, from the root on, the requirements  *)
(* of each node.                                                           *)
ASSUME ChainsAssumption ==
    /\ MaxDepth \in Nat
    /\ \A c \in Chains :
         /\ c.nodes \in Seq(Seq(RequirementsOf(c)))
         /\ \A r \in RequirementsOf(c) : r.id # NoRoute /\ r.kind # NoRoute

VARIABLES
    route,       \* activeRouteId
    plan,        \* the requirements of the planner, << >> without one
    answers,     \* its resolutions, and for which kind they were given
    decisions,   \* the requirements whose chooser decisions are kept
    stack,       \* the calls that wait for a callback to return
    told         \* history: the last callback

orchestratorVars == <<route, plan, answers, decisions, stack, told>>

Ids(requirements) == {requirements[i].id : i \in DOMAIN requirements}

(* The two loops of mergeChainRequirements.  An id that occurs twice keeps *)
(* its first definition, the parent's.                                     *)
PushUnseen(merged, r) == IF r.id \in Ids(merged) THEN merged ELSE Append(merged, r)

mergeNodeRequirements(merged, requirements) ==
    LET after[i \in 0..Len(requirements)] ==
            IF i = 0 THEN merged ELSE PushUnseen(after[i - 1], requirements[i])
    IN  after[Len(requirements)]

mergeChainRequirements(chain) ==
    LET after[n \in 0..Len(chain.nodes)] ==
            IF n = 0 THEN << >> ELSE mergeNodeRequirements(after[n - 1], chain.nodes[n])
    IN  after[Len(chain.nodes)]

sharedPrefixLength_IdsOnly(old, new) ==
    CHOOSE n \in 0..Len(old) :
        /\ n <= Len(new) /\ \A i \in 1..n : old[i].id = new[i].id
        /\ n < Len(old) /\ n < Len(new) => old[n + 1].id # new[n + 1].id

sharedPrefixLength(old, new) ==
    CHOOSE n \in 0..Len(old) :
        /\ n <= Len(new) /\ \A i \in 1..n : old[i] = new[i]
        /\ n < Len(old) /\ n < Len(new) => old[n + 1] # new[n + 1]

(* snapshot of the planner: answers are given in order.                    *)
Planned == plan # << >>
Settled == Planned /\ Len(answers) = Len(plan)
NextPending == plan[Len(answers) + 1]

OrchestratorInit ==
    /\ route = NoRoute
    /\ plan = << >> /\ answers = << >> /\ decisions = {}
    /\ stack = << >>
    /\ told = [callback |-> "none"]

(* A call may come from outside or from a callback.                        *)
MayEnter == Len(stack) < MaxDepth
Frames(n) == SubSeq(stack, 1, n)

(* onPendingRequirement and onSettled, on the state that is current after  *)
(* this step; the caller waits in `frame`.                                 *)
TellPending(frames, frame) ==
    /\ stack' = Append(frames, frame)
    /\ told' = [callback |-> "pending", requirement |-> NextPending']

TellSettled(frames, frame) ==
    /\ stack' = Append(frames, frame)
    /\ told' = [callback |-> "settled", route |-> route', answers |-> answers']

-----------------------------------------------------------------------------
(* activateMatchedRoutes without requirements.                             *)
ActivateNothing(chain) ==
    /\ MayEnter
    /\ mergeChainRequirements(chain) = << >>
    /\ route' = chain.route
    /\ plan' = << >> /\ answers' = << >> /\ decisions' = {}
    /\ UNCHANGED <<stack, told>>

ActivateMatchedRoutes_SilentWhenSettled(chain) ==
    LET merged == mergeChainRequirements(chain)
        shared == sharedPrefixLength(plan, merged)
    IN  /\ MayEnter
        /\ merged # << >>
        /\ route' = chain.route
        /\ plan' = merged
        /\ answers' = SubSeq(answers, 1, IF shared < Len(answers) THEN shared ELSE Len(answers))
        /\ decisions' = decisions \cap Ids(SubSeq(merged, 1, shared))
        /\ IF Settled' THEN UNCHANGED <<stack, told>> ELSE TellPending(stack, "activating")

(* The answers and decisions of the shared prefix are carried over.        *)
ActivateMatchedRoutes(chain) ==
    LET merged == mergeChainRequirements(chain)
        shared == sharedPrefixLength(plan, merged)
    IN  /\ MayEnter
        /\ merged # << >>
        /\ route' = chain.route
        /\ plan' = merged
        /\ answers' = SubSeq(answers, 1, IF shared < Len(answers) THEN shared ELSE Len(answers))
        /\ decisions' = decisions \cap Ids(SubSeq(merged, 1, shared))
        /\ IF Settled' THEN TellSettled(stack, "activated")
           ELSE TellPending(stack, "activating")

(* resolve for the requirement that is next; for any other, or without a   *)
(* route or a pending requirement, it throws and changes nothing.          *)
Resolve(id, status) ==
    /\ MayEnter
    /\ Planned /\ ~Settled /\ id = NextPending.id
    /\ answers' = Append(answers, [id |-> id, kind |-> NextPending.kind, status |-> status])
    /\ UNCHANGED <<route, plan, decisions>>
    /\ IF Settled' THEN TellSettled(stack, "resolving") ELSE TellPending(stack, "resolved")

ApplyChooserDecision(id) ==
    /\ decisions' = decisions \cup {id}
    /\ UNCHANGED <<route, plan, answers, stack, told>>

DeactivateRoute ==
    /\ route' = NoRoute
    /\ plan' = << >> /\ answers' = << >> /\ decisions' = {}
    /\ UNCHANGED <<stack, told>>

-----------------------------------------------------------------------------
(* A callback returns to the call that waits for it.                       *)

Returns(frame) == stack # << >> /\ stack[Len(stack)] = frame
Below == Frames(Len(stack) - 1)
Leave == stack' = Below /\ UNCHANGED told

(* activateWithChain goes on to report a plan that is settled by now.      *)
ReturnToActivating ==
    /\ Returns("activating")
    /\ UNCHANGED <<route, plan, answers, decisions>>
    /\ IF Settled THEN TellSettled(Below, "activated") ELSE Leave

(* resolve looks at the planner of this moment; when the callback has      *)
(* deactivated the route there is none, and the access throws.             *)
ReturnToResolving ==
    /\ Returns("resolving")
    /\ UNCHANGED <<route, plan, answers, decisions>>
    /\ CASE Planned /\ ~Settled -> TellPending(Below, "resolved")
         [] Settled -> Leave
         [] ~Planned -> UNCHANGED told /\ \E n \in 0..(Len(stack) - 1) : stack' = Frames(n)

ReturnToEnd ==
    /\ Returns("activated") \/ Returns("resolved")
    /\ UNCHANGED <<route, plan, answers, decisions>>
    /\ Leave

(* A callback throws, or lets the error of a refused call pass: the calls  *)
(* up to the code that catches it are left where they are.                 *)
CallbackThrows ==
    /\ \E n \in 0..(Len(stack) - 1) : stack' = Frames(n)
    /\ UNCHANGED <<route, plan, answers, decisions, told>>

OrchestratorNext ==
    \/ \E chain \in Chains : ActivateNothing(chain) \/ ActivateMatchedRoutes(chain)
    \/ \E status \in Statuses : Planned /\ ~Settled /\ Resolve(NextPending.id, status)
    \/ \E id \in Decisions : ApplyChooserDecision(id)
    \/ DeactivateRoute
    \/ ReturnToActivating \/ ReturnToResolving \/ ReturnToEnd
    \/ CallbackThrows

OrchestratorSpec == OrchestratorInit /\ [][OrchestratorNext]_orchestratorVars

-----------------------------------------------------------------------------
(* Properties                                                              *)

(* Every answer in the plan was given to the requirement it now stands     *)
(* for, id and kind, through all changes of route: a requirement is never  *)
(* taken for settled on the strength of an answer to another.              *)
AnswersBelong ==
    /\ Len(answers) <= Len(plan)
    /\ \A i \in DOMAIN answers :
         answers[i].id = plan[i].id /\ answers[i].kind = plan[i].kind

(* When all calls have returned, the last callback told the host how       *)
(* things stand: which requirement is next, or that the active route is    *)
(* settled and with which answers; also when callbacks resolve, activate   *)
(* or throw before they return.                                            *)
HostIsTold ==
    stack = << >> /\ Planned =>
        told = IF Settled
               THEN [callback |-> "settled", route |-> route, answers |-> answers]
               ELSE [callback |-> "pending", requirement |-> NextPending]

(* Across route changes and reentrant callbacks an answer stays with its   *)
(* own requirement, and the host knows which one it has to answer next.    *)
RequirementsAreSettledOnce == AnswersBelong /\ HostIsTold
=============================================================================
