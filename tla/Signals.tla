------------------------------ MODULE Signals ------------------------------
(***************************************************************************)
(* Signals and computed signals (signals/signal.ts, signals/computed.ts)   *)
(* and the listeners fromSignal puts on them (scheduling/helpers.ts).      *)
(*                                                                         *)
(* Notification is synchronous and re-entrant: a listener may set a signal *)
(* and so start an inner notification before the outer one goes on.  The   *)
(* call stack is therefore part of the state: a stack of loops over the    *)
(* listener sets, innermost last.  The order in which a JavaScript Set     *)
(* yields its members depends on the order of the subscriptions, which the *)
(* model leaves open; a listener that unsubscribes during the loop is      *)
(* not called any more and one that subscribes is.                         *)
(***************************************************************************)
EXTENDS Integers, Sequences

CONSTANTS Deps,        \* the signals the computed one depends on
          Listeners,   \* fromSignal callbacks of the program
          Writers,     \* the listeners that may set a signal when called
          MaxSets      \* calls of set

VARIABLES current,     \* value of each signal
          computedFrom, dirty,   \* what the computed one keeps: cached, dirty
          heard,       \* the signals each listener is subscribed to
          seen,        \* the value each listener's callback got last, {} for none
          loops,       \* loops over listeners in progress
          sets
signalVars == <<current, computedFrom, dirty, heard, seen, loops, sets>>

Computed == "computed"
MarkDirty == "markDirty"
Unheard == "none"

ASSUME SignalAssumption ==
    /\ Deps \cap {Computed, Unheard} = {} /\ MarkDirty \notin Listeners
    /\ Writers \subseteq Listeners

(* The computed value is the values of the signals it depends on.          *)
Compute == current

SignalsInit ==
    /\ current = [d \in Deps |-> 0]
    /\ computedFrom = [d \in Deps |-> 0] /\ dirty = TRUE
    /\ heard = [l \in Listeners |-> Unheard]
    /\ seen = [l \in Listeners |-> {}]
    /\ loops = <<>> /\ sets = 0

(* get of the computed signal: recompute when dirty.                       *)
ComputedGet ==
    /\ computedFrom' = IF dirty THEN Compute ELSE computedFrom
    /\ dirty' = FALSE

(* The callback of fromSignal reads the signal it is on.                   *)
Callback(l) ==
    IF heard[l] = Computed
    THEN ComputedGet /\ seen' = [seen EXCEPT ![l] = {computedFrom'}]
    ELSE UNCHANGED <<computedFrom, dirty>> /\ seen' = [seen EXCEPT ![l] = {current[heard[l]]}]

(* fromSignal with emitInitialValue: the callback gets the value, then the *)
(* listener is added.                                                      *)
fromSignal(l, s) ==
    /\ heard[l] = Unheard
    /\ heard' = [heard EXCEPT ![l] = s]
    /\ IF s = Computed
       THEN ComputedGet /\ seen' = [seen EXCEPT ![l] = {computedFrom'}]
       ELSE UNCHANGED <<computedFrom, dirty>> /\ seen' = [seen EXCEPT ![l] = {current[s]}]
    /\ UNCHANGED <<current, loops, sets>>

(* A program that never reads the computed signal: subscribe alone.        *)
subscribe(l, s) ==
    /\ heard[l] = Unheard
    /\ heard' = [heard EXCEPT ![l] = s]
    /\ UNCHANGED <<current, computedFrom, dirty, seen, loops, sets>>

unsubscribe(l) ==
    /\ heard[l] # Unheard
    /\ heard' = [heard EXCEPT ![l] = Unheard]
    /\ seen' = [seen EXCEPT ![l] = {}]
    /\ UNCHANGED <<current, computedFrom, dirty, loops, sets>>

(* The loop of set, and of markDirty, over the listeners of a signal.      *)
Loop(s, rest) == Append(rest, [of |-> s, called |-> {}])

Innermost == loops[Len(loops)]

ListenersOf(s) == {l \in Listeners : heard[l] = s} \cup (IF s \in Deps THEN {MarkDirty} ELSE {})

set(d, value) ==
    /\ sets < MaxSets
    /\ sets' = sets + 1
    /\ value # current[d]
    /\ current' = [current EXCEPT ![d] = value]
    /\ loops' = Loop(d, loops)

(* The program sets a signal outside any notification.                     *)
Set(d, value) ==
    /\ loops = <<>>
    /\ set(d, value)
    /\ UNCHANGED <<computedFrom, dirty, heard, seen>>

(* The innermost loop calls one more listener.  markDirty notifies only    *)
(* when the computed value was clean.                                      *)
Called(l) == [loops EXCEPT ![Len(loops)].called = @ \cup {l}]

markDirty_OnlyWhenHeard ==
    IF dirty \/ ListenersOf(Computed) = {}
    THEN /\ dirty' = dirty /\ loops' = Called(MarkDirty)
    ELSE /\ dirty' = TRUE  /\ loops' = Loop(Computed, Called(MarkDirty))

markDirty ==
    IF dirty
    THEN /\ dirty' = dirty /\ loops' = Called(MarkDirty)
    ELSE /\ dirty' = TRUE  /\ loops' = Loop(Computed, Called(MarkDirty))

NotifyMarkDirty ==
    /\ loops # <<>>
    /\ MarkDirty \in ListenersOf(Innermost.of) \ Innermost.called
    /\ markDirty
    /\ UNCHANGED <<current, computedFrom, heard, seen, sets>>

NotifyListener(l) ==
    /\ loops # <<>>
    /\ l \in ListenersOf(Innermost.of) \ Innermost.called
    /\ Callback(l)
    /\ loops' = Called(l)
    /\ UNCHANGED <<current, heard, sets>>

(* A listener that, having read its signal, sets another one.              *)
NotifyWriter(l, d, value) ==
    /\ loops # <<>> /\ sets < MaxSets
    /\ l \in ListenersOf(Innermost.of) \ Innermost.called
    /\ Callback(l)
    /\ value # current[d]
    /\ sets' = sets + 1
    /\ current' = [current EXCEPT ![d] = value]
    /\ loops' = Loop(d, Called(l))
    /\ UNCHANGED heard

LoopEnds ==
    /\ loops # <<>>
    /\ ListenersOf(Innermost.of) \subseteq Innermost.called
    /\ loops' = SubSeq(loops, 1, Len(loops) - 1)
    /\ UNCHANGED <<current, computedFrom, dirty, heard, seen, sets>>

SignalsNext ==
    \/ \E d \in Deps, value \in 0..1 : Set(d, value)
    \/ \E l \in Listeners, s \in Deps \cup {Computed} :
          \/ fromSignal(l, s)
          \/ subscribe(l, s)
    \/ \E l \in Listeners : unsubscribe(l) \/ NotifyListener(l)
    \/ \E l \in Writers, d \in Deps, value \in 0..1 : NotifyWriter(l, d, value)
    \/ NotifyMarkDirty
    \/ LoopEnds

SignalsSpec == SignalsInit /\ [][SignalsNext]_signalVars

-----------------------------------------------------------------------------
(* When set has returned to the program, whatever the listeners set in the *)
(* meantime, every fromSignal callback that has run has got the present    *)
(* value of its signal, and a computed value that is not dirty is the one  *)
(* its dependencies give now.                                              *)
SettledSignalsAreCurrent ==
    loops = <<>> =>
        /\ ~dirty => computedFrom = Compute
        /\ \A l \in Listeners : seen[l] # {} =>
              seen[l] = {IF heard[l] = Computed THEN Compute ELSE current[heard[l]]}
=============================================================================
