----------------------- MODULE OidcModeClientProofs -----------------------
(***************************************************************************)
(* Proofs about OidcModeClient.                                            *)
(*                                                                         *)
(* The inductive invariant has four parts: the types of the variables; the *)
(* tasks, whose snapshots fit their steps and which are named once in the  *)
(* store queue while they wait for the store; the timer; and the           *)
(* agreement, by which the youngest pending store operation carries the    *)
(* current material, so that the signal has it once the queue is empty.    *)
(*                                                                         *)
(* A step is of one of three kinds: it leaves the queue alone, it calls    *)
(* the store, or a store promise settles.  What each kind does to the      *)
(* tasks and to the agreement is proved once; each action has one lemma    *)
(* that says of which kind it is.                                          *)
(***************************************************************************)
EXTENDS OidcModeClient, TLAPS

RestorePcs == {"loading", "loaded", "discarding"}

\* What record r of task t looks like at each step.
Shaped(t, r) ==
    /\ r \in TaskRecords
    /\ r.pc \in {"request", "metadata", "saving", "returned", "loaded"} => r.snap \in Snapshots
    /\ r.pc = "request" => r.snap.refresh # None
    /\ r.pc = "resumed" => r.snap \in {None} \cup Snapshots
    /\ r.pc = "clearing" => r.snap = None
    /\ t = Barrier => r.pc \notin RestorePcs \cup {"waiting", "resumed", "exchange"}
    /\ t \in Calls => r.pc \notin {"returned", "nothing", "threw"}

\* Exactly the tasks in io wait for the store, each once.
QueueNames ==
    /\ \A t \in Tasks : task[t].pc \in IoPcs => \E i \in 1..Len(io) : io[i] = t
    /\ \A i \in 1..Len(io) : task[io[i]].pc \in IoPcs
    /\ \A i, j \in 1..Len(io) : io[i] = io[j] => i = j

TasksInv ==
    /\ task \in [Tasks -> TaskRecords]
    /\ io \in Seq(Tasks)
    /\ \A t \in Tasks : Shaped(t, task[t])
    /\ QueueNames

VarsOK ==
    /\ material \in {None} \cup Snapshots
    /\ signal \in {None} \cup Snapshots
    /\ disk \in {None, Corrupt} \cup Snapshots
    /\ timer \in {None} \cup Timers
    /\ disposed \in BOOLEAN
    /\ now \in Nat
    /\ grants \in Nat

\* The assumption under which the agreement is proved: the host restores
\* before it does anything else, and the store does not fail.
Disciplined == ~HostOverlaps /\ ~StoreFails

\* A restore runs alone.
RestoreAlone ==
    \A c \in Calls : task[c].pc \in RestorePcs =>
        /\ \A t \in Tasks : t # c => task[t].pc = "idle"
        /\ signal = None
        /\ timer = None
        /\ task[c].pc = "loaded" => io = <<>>
        /\ task[c].pc # "loaded" => io = <<c>> /\ material = None

\* The youngest pending write carries the material.
Agreement ==
    /\ \A t \in Tasks : task[t].ok
    /\ ~Restoring /\ io # <<>> => material = task[io[Len(io)]].snap
    /\ ~Restoring /\ io = <<>> => material = signal

AgreementInv == Disciplined /\ ~disposed => RestoreAlone /\ Agreement

IInv == VarsOK /\ TasksInv /\ TimerNeedsMaterial /\ AgreementInv

-----------------------------------------------------------------------------
(* Sequences.                                                              *)

\* The empty queue.
LEMMA EmptyQueue ==
    ASSUME NEW S
    PROVE  <<>> \in Seq(S) /\ Len(<<>>) = 0
    OBVIOUS

\* What Append does to a queue.
LEMMA AppendFacts ==
    ASSUME NEW S, NEW q \in Seq(S), NEW e \in S
    PROVE  /\ Append(q, e) \in Seq(S)
           /\ Len(q) \in Nat
           /\ Len(Append(q, e)) = Len(q) + 1
           /\ \A i \in 1..Len(q) : Append(q, e)[i] = q[i]
           /\ Append(q, e)[Len(q) + 1] = e
           /\ Append(q, e) # <<>>
<1>1. /\ Append(q, e) \in Seq(S)
      /\ Len(q) \in Nat
      /\ Len(Append(q, e)) = Len(q) + 1
      /\ \A i \in 1..Len(q) : Append(q, e)[i] = q[i]
      /\ Append(q, e)[Len(q) + 1] = e
  OBVIOUS
<1>2. Len(<<>>) = 0
  BY Zenon, EmptyQueue
<1> QED BY <1>1, <1>2

\* What Tail does to a queue that is not empty.
LEMMA TailFacts ==
    ASSUME NEW S, NEW q \in Seq(S), q # <<>>
    PROVE  /\ Tail(q) \in Seq(S)
           /\ Len(q) \in Nat \ {0}
           /\ Len(Tail(q)) = Len(q) - 1
           /\ \A i \in 1..Len(Tail(q)) : Tail(q)[i] = q[i + 1]
           /\ Head(q) = q[1]
           /\ Head(q) \in S
           /\ q[Len(q)] \in S
    OBVIOUS

\* What a new head does to a queue.
LEMMA ConsFacts ==
    ASSUME NEW S, NEW q \in Seq(S), NEW e \in S
    PROVE  /\ <<e>> \o q \in Seq(S)
           /\ Len(q) \in Nat
           /\ Len(<<e>> \o q) = Len(q) + 1
           /\ \A i \in 1..Len(q) : (<<e>> \o q)[i + 1] = q[i]
           /\ (<<e>> \o q)[1] = e
    OBVIOUS

-----------------------------------------------------------------------------
(* The three kinds of steps, and what they do to the tasks.                *)

\* Record r of task t has no business with the store or a restore.
Harmless(t, r) ==
    /\ Shaped(t, r)
    /\ r.pc \notin IoPcs \cup RestorePcs
    /\ r.ok

\* Task t may become r without a store call.
MayBecome(t, r) == r = task[t] \/ (task[t].pc \notin IoPcs /\ Harmless(t, r))

Quiet(t) == MayBecome(t, task'[t])

\* No store call is made and none settles.
QuietStep ==
    /\ io' = io
    /\ task' \in [Tasks -> TaskRecords]
    /\ \A t \in Tasks : Quiet(t)

\* Task t calls the store.
CallsStore(t) ==
    /\ task' \in [Tasks -> TaskRecords]
    /\ task[t].pc \notin IoPcs
    /\ task'[t].pc \in IoPcs
    /\ Shaped(t, task'[t])
    /\ \A u \in Tasks \ {t} : Quiet(u)

\* The store promise of task t settles.
Settles(t) ==
    /\ io # <<>>
    /\ Head(io) = t
    /\ io' = Tail(io)
    /\ task' \in [Tasks -> TaskRecords]
    /\ task'[t].pc \notin IoPcs
    /\ Shaped(t, task'[t])
    /\ \A u \in Tasks \ {t} : Quiet(u)

\* A quiet step keeps the tasks and the queue right.
LEMMA QuietTasks ==
    ASSUME TasksInv, QuietStep
    PROVE  TasksInv'
<1>1. \A t \in Tasks : Shaped(t, task'[t])
  BY Zenon DEF TasksInv, QuietStep, Quiet, MayBecome, Harmless
<1>2. \A t \in Tasks : task'[t].pc \in IoPcs <=> task[t].pc \in IoPcs
  BY Zenon DEF QuietStep, Quiet, MayBecome, Harmless
<1>3. QueueNames'
  BY <1>2 DEF TasksInv, QuietStep, QueueNames
<1> QED BY Zenon, <1>1, <1>3 DEF TasksInv, QuietStep

\* A task that calls the store joins the queue at its end.
LEMMA PushTasks ==
    ASSUME TasksInv, NEW t \in Tasks, CallsStore(t), io' = Append(io, t)
    PROVE  TasksInv'
<1>1. \A u \in Tasks : Shaped(u, task'[u])
  BY Zenon DEF TasksInv, CallsStore, Quiet, MayBecome, Harmless
<1>2. \A u \in Tasks \ {t} : task'[u].pc \in IoPcs <=> task[u].pc \in IoPcs
  BY Zenon DEF CallsStore, Quiet, MayBecome, Harmless
<1>3. /\ io' \in Seq(Tasks) /\ Len(io) \in Nat
      /\ Len(io') = Len(io) + 1
      /\ \A i \in 1..Len(io) : io'[i] = io[i]
      /\ io'[Len(io) + 1] = t
  BY AppendFacts DEF TasksInv
<1>4. \A i \in 1..Len(io) : io[i] \in Tasks \ {t}
  BY DEF TasksInv, CallsStore, QueueNames
<1>5. \A u \in Tasks : task'[u].pc \in IoPcs => \E i \in 1..Len(io') : io'[i] = u
  BY <1>2, <1>3 DEF TasksInv, QueueNames
<1>6. \A i \in 1..Len(io') : task'[io'[i]].pc \in IoPcs
  BY <1>2, <1>3, <1>4 DEF TasksInv, QueueNames, CallsStore
<1>7. \A i, j \in 1..Len(io') : io'[i] = io'[j] => i = j
  BY <1>3, <1>4 DEF TasksInv, QueueNames
<1> QED BY Zenon, <1>1, <1>3, <1>5, <1>6, <1>7 DEF TasksInv, QueueNames, CallsStore

\* A call that does not wait for the pending ones joins the queue at its head.
LEMMA JumpTasks ==
    ASSUME TasksInv, NEW t \in Tasks, CallsStore(t), io' = <<t>> \o io
    PROVE  TasksInv'
<1>1. \A u \in Tasks : Shaped(u, task'[u])
  BY Zenon DEF TasksInv, CallsStore, Quiet, MayBecome, Harmless
<1>2. \A u \in Tasks \ {t} : task'[u].pc \in IoPcs <=> task[u].pc \in IoPcs
  BY Zenon DEF CallsStore, Quiet, MayBecome, Harmless
<1>3. /\ io' \in Seq(Tasks) /\ Len(io) \in Nat
      /\ Len(io') = Len(io) + 1
      /\ \A i \in 1..Len(io) : io'[i + 1] = io[i]
      /\ io'[1] = t
  BY ConsFacts DEF TasksInv
<1>4. \A i \in 1..Len(io) : io[i] \in Tasks \ {t}
  BY DEF TasksInv, CallsStore, QueueNames
<1>5. \A i \in 1..Len(io') : i = 1 \/ (i - 1 \in 1..Len(io) /\ io'[i] = io[i - 1])
  <2> SUFFICES ASSUME NEW i \in 1..Len(io'), i # 1
               PROVE  i - 1 \in 1..Len(io) /\ io'[i] = io[i - 1]
    BY Zenon
  <2>1. i - 1 \in 1..Len(io) /\ (i - 1) + 1 = i
    BY <1>3
  <2> QED BY Zenon, <1>3, <2>1
<1>6. \A u \in Tasks : task'[u].pc \in IoPcs => \E i \in 1..Len(io') : io'[i] = u
  <2> SUFFICES ASSUME NEW u \in Tasks, task'[u].pc \in IoPcs
               PROVE  \E i \in 1..Len(io') : io'[i] = u
    BY Zenon
  <2>1. CASE u = t
    BY <1>3, <2>1
  <2>2. CASE u # t
    <3>1. PICK k \in 1..Len(io) : io[k] = u
      BY Zenon, <1>2, <2>2 DEF TasksInv, QueueNames
    <3>2. k + 1 \in 1..Len(io') /\ io'[k + 1] = u
      BY <1>3, <3>1
    <3> QED BY Zenon, <3>2
  <2> QED BY Zenon, <2>1, <2>2
<1>7. \A i \in 1..Len(io') : task'[io'[i]].pc \in IoPcs
  <2> SUFFICES ASSUME NEW i \in 1..Len(io') PROVE task'[io'[i]].pc \in IoPcs
    BY Zenon
  <2>1. CASE i = 1
    BY Zenon, <1>3, <2>1 DEF CallsStore
  <2>2. CASE i # 1
    <3>1. PICK k \in 1..Len(io) : io'[i] = io[k]
      BY Zenon, <1>5, <2>2
    <3>2. task[io[k]].pc \in IoPcs
      BY Zenon DEF TasksInv, QueueNames
    <3> QED BY Zenon, <1>2, <1>4, <3>1, <3>2
  <2> QED BY Zenon, <2>1, <2>2
<1>8. \A i, j \in 1..Len(io') : io'[i] = io'[j] => i = j
  <2> SUFFICES ASSUME NEW i \in 1..Len(io'), NEW j \in 1..Len(io'), io'[i] = io'[j]
               PROVE  i = j
    BY Zenon
  <2>1. CASE i = 1 \/ j = 1
    BY <1>3, <1>4, <1>5, <2>1
  <2>2. CASE i # 1 /\ j # 1
    <3>1. /\ i - 1 \in 1..Len(io) /\ j - 1 \in 1..Len(io)
          /\ io[i - 1] = io[j - 1]
      BY Zenon, <1>5, <2>2
    <3>2. i - 1 = j - 1
      BY <3>1, Zenon DEF TasksInv, QueueNames
    <3> QED BY <1>3, <3>2
  <2> QED BY Zenon, <2>1, <2>2
<1> QED BY <1>1, <1>3, <1>6, <1>7, <1>8, Zenon DEF TasksInv, QueueNames, CallsStore

\* A task whose store promise settles leaves the queue.
LEMMA PopTasks ==
    ASSUME TasksInv, NEW t \in Tasks, Settles(t)
    PROVE  TasksInv'
<1>1. \A u \in Tasks : Shaped(u, task'[u])
  BY Zenon DEF TasksInv, Settles, Quiet, MayBecome, Harmless
<1>2. \A u \in Tasks \ {t} : task'[u].pc \in IoPcs <=> task[u].pc \in IoPcs
  BY Zenon DEF Settles, Quiet, MayBecome, Harmless
<1>3. /\ io' \in Seq(Tasks) /\ Len(io) \in Nat \ {0}
      /\ Len(io') = Len(io) - 1
      /\ \A i \in 1..Len(io') : io'[i] = io[i + 1]
      /\ io[1] = t
  BY Zenon, TailFacts DEF TasksInv, Settles
<1>4. \A i \in 2..Len(io) : io[i] \in Tasks \ {t}
  BY <1>3 DEF TasksInv, QueueNames
<1>5. \A u \in Tasks : task'[u].pc \in IoPcs => \E i \in 1..Len(io') : io'[i] = u
  <2> SUFFICES ASSUME NEW u \in Tasks, task'[u].pc \in IoPcs
               PROVE  \E i \in 1..Len(io') : io'[i] = u
    BY Zenon
  <2>1. u # t /\ task[u].pc \in IoPcs
    BY Zenon, <1>2 DEF Settles
  <2>2. PICK k \in 1..Len(io) : io[k] = u
    BY Zenon, <2>1 DEF TasksInv, QueueNames
  <2>3. k - 1 \in 1..Len(io') /\ (k - 1) + 1 = k
    BY <1>3, <2>1, <2>2
  <2> QED BY <1>3, <2>2, <2>3, Zenon
<1>6. \A i \in 1..Len(io') : i + 1 \in 2..Len(io)
  BY <1>3
<1>7. \A i \in 1..Len(io') : task'[io'[i]].pc \in IoPcs
  <2> SUFFICES ASSUME NEW i \in 1..Len(io') PROVE task'[io'[i]].pc \in IoPcs
    BY Zenon
  <2>1. io'[i] = io[i + 1] /\ io[i + 1] \in Tasks \ {t}
    BY Zenon, <1>3, <1>4, <1>6
  <2>2. task[io[i + 1]].pc \in IoPcs
    BY <1>3, <1>6 DEF TasksInv, QueueNames
  <2> QED BY Zenon, <1>2, <2>1, <2>2
<1>8. \A i, j \in 1..Len(io') : io'[i] = io'[j] => i = j
  <2> SUFFICES ASSUME NEW i \in 1..Len(io'), NEW j \in 1..Len(io'), io'[i] = io'[j]
               PROVE  i = j
    BY Zenon
  <2>1. i + 1 \in 1..Len(io) /\ j + 1 \in 1..Len(io) /\ io[i + 1] = io[j + 1]
    BY <1>3
  <2> QED BY <2>1 DEF TasksInv, QueueNames
<1> QED BY Zenon, <1>1, <1>3, <1>5, <1>7, <1>8 DEF TasksInv, QueueNames, Settles

\* A position that is not the last one.
LEMMA BeforeLast ==
    \A n \in Nat \ {0} : \A i \in 1..n :
        i # n => i \in 1..(n - 1) /\ i + 1 \in 2..n /\ i + 1 \in 1..n
    OBVIOUS

\* The store promise of task t settles and t calls the store again.
CallsAgain(t) ==
    /\ io # <<>>
    /\ Head(io) = t
    /\ io' = Append(Tail(io), t)
    /\ task' \in [Tasks -> TaskRecords]
    /\ task'[t].pc \in IoPcs
    /\ Shaped(t, task'[t])
    /\ \A u \in Tasks \ {t} : task'[u] = task[u]

\* A task that calls the store again goes to the end of the queue.
LEMMA RotateTasks ==
    ASSUME TasksInv, NEW t \in Tasks, CallsAgain(t)
    PROVE  TasksInv'
<1>1. \A u \in Tasks : Shaped(u, task'[u])
  BY Zenon DEF TasksInv, CallsAgain
<1>2. /\ Tail(io) \in Seq(Tasks) /\ Len(io) \in Nat \ {0}
      /\ Len(Tail(io)) = Len(io) - 1
      /\ \A i \in 1..Len(Tail(io)) : Tail(io)[i] = io[i + 1]
      /\ io[1] = t
  BY Zenon, TailFacts DEF TasksInv, CallsAgain
<1>3. /\ io' \in Seq(Tasks)
      /\ Len(io') = Len(Tail(io)) + 1
      /\ \A i \in 1..Len(Tail(io)) : io'[i] = Tail(io)[i]
      /\ io'[Len(Tail(io)) + 1] = t
  BY <1>2, AppendFacts DEF CallsAgain
<1>4. /\ Len(io') = Len(io)
      /\ Len(io) \in 1..Len(io')
      /\ io'[Len(io)] = t
  BY <1>2, <1>3
<1>9. \A i \in 1..Len(io') : i # Len(io) =>
          i + 1 \in 2..Len(io) /\ i + 1 \in 1..Len(io) /\ io'[i] = io[i + 1]
  <2> SUFFICES ASSUME NEW i \in 1..Len(io'), i # Len(io)
               PROVE  i + 1 \in 2..Len(io) /\ i + 1 \in 1..Len(io) /\ io'[i] = io[i + 1]
    BY Zenon
  <2>2. Len(io) \in Nat \ {0} /\ Len(Tail(io)) = Len(io) - 1 /\ Len(io') = Len(io)
    BY <1>2, <1>4, ZenonT(30)
  <2>3. i \in 1..Len(io)
    BY <2>2, ZenonT(30)
  <2>1. i \in 1..(Len(io) - 1) /\ i + 1 \in 2..Len(io) /\ i + 1 \in 1..Len(io)
    BY <2>2, <2>3, BeforeLast, Zenon
  <2> QED BY <1>2, <1>3, <2>1, <2>2, Zenon
<1>5. \A i \in 2..Len(io) : io[i] \in Tasks \ {t}
  BY <1>2 DEF TasksInv, QueueNames
<1>6. \A u \in Tasks : task'[u].pc \in IoPcs => \E i \in 1..Len(io') : io'[i] = u
  <2> SUFFICES ASSUME NEW u \in Tasks, task'[u].pc \in IoPcs
               PROVE  \E i \in 1..Len(io') : io'[i] = u
    BY Zenon
  <2>1. CASE u = t
    BY Zenon, <1>4, <2>1
  <2>2. CASE u # t
    <3>1. task[u].pc \in IoPcs
      BY Zenon, <2>2 DEF CallsAgain
    <3>2. PICK k \in 1..Len(io) : io[k] = u
      BY Zenon, <3>1 DEF TasksInv, QueueNames
    <3>3. k - 1 \in 1..Len(io') /\ k - 1 # Len(io) /\ (k - 1) + 1 = k
      BY <1>2, <1>4, <2>2, <3>2
    <3> QED BY <1>9, <3>2, <3>3, Zenon
  <2> QED BY Zenon, <2>1, <2>2
<1>7. \A i \in 1..Len(io') : task'[io'[i]].pc \in IoPcs
  <2> SUFFICES ASSUME NEW i \in 1..Len(io') PROVE task'[io'[i]].pc \in IoPcs
    BY Zenon
  <2>1. CASE i = Len(io)
    BY Zenon, <1>4, <2>1 DEF CallsAgain
  <2>2. CASE i # Len(io)
    <3>1. io'[i] = io[i + 1] /\ io[i + 1] \in Tasks \ {t}
      BY Zenon, <1>5, <1>9, <2>2
    <3>2. task[io[i + 1]].pc \in IoPcs
      BY Zenon, <1>9, <2>2 DEF TasksInv, QueueNames
    <3> QED BY Zenon, <3>1, <3>2 DEF CallsAgain
  <2> QED BY Zenon, <2>1, <2>2
<1>8. \A i, j \in 1..Len(io') : io'[i] = io'[j] => i = j
  <2> SUFFICES ASSUME NEW i \in 1..Len(io'), NEW j \in 1..Len(io'), io'[i] = io'[j]
               PROVE  i = j
    BY Zenon
  <2>3. \A k \in 1..Len(io') : k # Len(io) => io'[k] # t
    BY Zenon, <1>5, <1>9
  <2>1. CASE i = Len(io) \/ j = Len(io)
    BY Zenon, <1>4, <2>1, <2>3
  <2>2. CASE i # Len(io) /\ j # Len(io)
    <3>1. /\ i + 1 \in 1..Len(io) /\ j + 1 \in 1..Len(io)
          /\ io[i + 1] = io[j + 1]
      BY Zenon, <1>9, <2>2
    <3> QED BY <3>1 DEF TasksInv, QueueNames
  <2> QED BY Zenon, <2>1, <2>2
<1> QED BY <1>1, <1>3, <1>6, <1>7, <1>8, Zenon DEF TasksInv, QueueNames, CallsAgain

-----------------------------------------------------------------------------
(* The values that the client computes.                                    *)

\* Merged and dated snapshots are snapshots, and none is None or Corrupt.
LEMMA SnapshotFacts ==
    ASSUME VarsOK, NEW s \in Snapshots, NEW d \in Snapshots
    PROVE  /\ mergeTokenDelta(s, d) \in Snapshots
           /\ TokenSnapshot(s) \in Snapshots
           /\ s # None /\ s # Corrupt
<1>1. mergeTokenDelta(s, d) \in Snapshots
  BY Zenon DEF Snapshots, mergeTokenDelta, Present
<1>2. TokenSnapshot(s) \in Snapshots
  BY Zenon DEF VarsOK, Snapshots, Dates, TokenSnapshot
<1>3. s # None /\ s # Corrupt
  BY Zenon, ClientAssumption
<1> QED BY Zenon, <1>1, <1>2, <1>3

\* Every answer of a token endpoint is a snapshot.
LEMMA GrantedFacts ==
    ASSUME VarsOK, NEW login \in Nat, NEW refresh \in {None} \cup Nat, NEW e \in ExpiryDates
    PROVE  Granted(login, refresh, e) \in Snapshots
<1>1. e \in Dates
  BY ClientAssumption DEF ExpiryDates, Dates, Finite, VarsOK
<1> QED BY <1>1 DEF Granted, Snapshots, Dates, VarsOK

\* The timer that a scheduling leaves is a timer, and only for a material.
LEMMA ScheduledTimerType ==
    ASSUME VarsOK, NEW s \in {None} \cup Snapshots
    PROVE  /\ ScheduledTimer(s) \in {None} \cup Timers
           /\ ScheduledTimer(s) # None => s # None /\ ~disposed
<1>1. CASE ScheduledTimer(s) = None
  BY Zenon, <1>1
<1>2. CASE ScheduledTimer(s) # None
  <2>1. Refreshable(s) /\ ~DueNow(s) /\ ~disposed
    BY Zenon, <1>2 DEF ScheduledTimer
  <2>2. s \in Snapshots /\ Finite(s.expiresAt)
    BY Zenon, <2>1 DEF Refreshable, DueNow
  <2>3. RefreshAt(s) \in Int
    BY <2>2, FreshnessAssumption
    DEF RefreshAt, UsableUntil, ShortTokenCap, Least, Finite, Snapshots, Dates
  <2>4. Least(RefreshAt(s), now + MaxSliceMs) \in Int
    BY <2>3, ClientAssumption DEF Least, VarsOK
  <2> QED BY Zenon, <2>1, <2>2, <2>3, <2>4, ClientAssumption DEF ScheduledTimer, Timers, Refreshable
<1> QED BY Zenon, <1>1, <1>2

\* The records of tasks that neither call the store nor restore.
LEMMA HarmlessRecords ==
    /\ \A t \in Tasks : Harmless(t, Idle) /\ Harmless(t, Throw(t))
    /\ \A t \in Tasks, s \in Snapshots :
           Harmless(t, Return(t, s)) /\ Harmless(t, Task("metadata", "refresh", s))
    /\ \A c \in Calls, s \in Snapshots : Harmless(c, Task("metadata", "callback", s))
    /\ \A s \in {None} \cup Snapshots : Harmless(Barrier, RefreshCall(s))
    /\ \A c \in Calls, s \in {None} \cup Snapshots :
           RefreshCall(s).pc = "request" => Harmless(c, RefreshCall(s))
    /\ \A c \in Calls, op \in Ops, s \in {None} \cup Snapshots :
           Harmless(c, Task("resumed", op, s)) /\ Harmless(c, Task("waiting", op, None))
    /\ \A c \in Calls : Harmless(c, Task("exchange", "callback", None))
<1>1. \A t \in Tasks : Harmless(t, Idle) /\ Harmless(t, Throw(t))
  BY Zenon, ClientAssumption
  DEF Harmless, Shaped, Idle, Task, Throw, TaskRecords, Pcs, Ops, IoPcs, RestorePcs
<1>2. \A t \in Tasks, s \in Snapshots : Harmless(t, Return(t, s))
  BY ClientAssumption
  DEF Harmless, Shaped, Return, Idle, Task, TaskRecords, Pcs, Ops, IoPcs, RestorePcs, Tasks
<1>3. \A t \in Tasks, s \in Snapshots : Harmless(t, Task("metadata", "refresh", s))
  BY Zenon DEF Harmless, Shaped, Task, TaskRecords, Pcs, Ops, IoPcs, RestorePcs
<1>4. \A c \in Calls, s \in Snapshots : Harmless(c, Task("metadata", "callback", s))
  BY Zenon DEF Harmless, Shaped, Task, TaskRecords, Pcs, Ops, IoPcs, RestorePcs
<1>5. \A s \in {None} \cup Snapshots : Harmless(Barrier, RefreshCall(s))
  BY Zenon, ClientAssumption
  DEF Harmless, Shaped, RefreshCall, Task, TaskRecords, Pcs, Ops, IoPcs, RestorePcs
<1>6. \A c \in Calls, s \in {None} \cup Snapshots :
          RefreshCall(s).pc = "request" => Harmless(c, RefreshCall(s))
  BY ClientAssumption
  DEF Harmless, Shaped, RefreshCall, Task, TaskRecords, Pcs, Ops, IoPcs, RestorePcs
<1>7. \A c \in Calls, op \in Ops, s \in {None} \cup Snapshots :
          Harmless(c, Task("resumed", op, s)) /\ Harmless(c, Task("waiting", op, None))
  BY ClientAssumption DEF Harmless, Shaped, Task, TaskRecords, Pcs, IoPcs, RestorePcs
<1>8. \A c \in Calls : Harmless(c, Task("exchange", "callback", None))
  BY Zenon, ClientAssumption DEF Harmless, Shaped, Task, TaskRecords, Pcs, Ops, IoPcs, RestorePcs
<1> QED BY Zenon, <1>1, <1>2, <1>3, <1>4, <1>5, <1>6, <1>7, <1>8

\* The records of tasks that call the store.
LEMMA StoreRecords ==
    ASSUME NEW t \in Tasks, NEW op \in Ops, NEW ok \in BOOLEAN
    PROVE  /\ Shaped(t, StoreTask("clearing", op, None, ok))
           /\ \A s \in Snapshots : Shaped(t, StoreTask("saving", op, s, ok))
           /\ StoreTask("clearing", op, None, ok).pc \in IoPcs
           /\ \A s : StoreTask("saving", op, s, ok).pc \in IoPcs
<1>1. Shaped(t, StoreTask("clearing", op, None, ok))
  BY Zenon DEF Shaped, StoreTask, TaskRecords, Pcs, IoPcs, RestorePcs
<1>2. \A s \in Snapshots : Shaped(t, StoreTask("saving", op, s, ok))
  BY Zenon DEF Shaped, StoreTask, TaskRecords, Pcs, IoPcs, RestorePcs
<1>3. StoreTask("clearing", op, None, ok).pc \in IoPcs
  BY Zenon DEF StoreTask, IoPcs
<1>4. \A s : StoreTask("saving", op, s, ok).pc \in IoPcs
  BY Zenon DEF StoreTask, IoPcs
<1> QED BY Zenon, <1>1, <1>2, <1>3, <1>4

\* The records of a restore.
LEMMA RestoreRecords ==
    ASSUME NEW c \in Calls
    PROVE  /\ \A s \in {None, Corrupt} \cup Snapshots : Shaped(c, Task("loading", "restore", s))
           /\ Shaped(c, Task("discarding", "restore", None))
           /\ \A s \in Snapshots : Shaped(c, Task("loaded", "restore", s))
<1>1. \A s \in {None, Corrupt} \cup Snapshots : Shaped(c, Task("loading", "restore", s))
  BY Zenon, ClientAssumption DEF Shaped, Task, TaskRecords, Pcs, Ops, IoPcs
<1>2. Shaped(c, Task("discarding", "restore", None))
  BY Zenon, ClientAssumption DEF Shaped, Task, TaskRecords, Pcs, Ops, IoPcs
<1>3. \A s \in Snapshots : Shaped(c, Task("loaded", "restore", s))
  BY Zenon, ClientAssumption DEF Shaped, Task, TaskRecords, Pcs, Ops, IoPcs
<1> QED BY Zenon, <1>1, <1>2, <1>3

\* Joining or starting the shared refresh does nothing to the store.
LEMMA BarrierMayBecome ==
    ASSUME NEW s \in {None} \cup Snapshots
    PROVE  /\ MayBecome(Barrier, RefreshThroughBarrier(task[Barrier], s))
           /\ MayBecome(Barrier, ScheduledBarrier(task[Barrier], s))
<1>1. Harmless(Barrier, RefreshCall(s))
  BY Zenon, HarmlessRecords
<1>2. MayBecome(Barrier, RefreshThroughBarrier(task[Barrier], s))
  BY Zenon, <1>1 DEF MayBecome, RefreshThroughBarrier, IoPcs
<1>3. MayBecome(Barrier, ScheduledBarrier(task[Barrier], s))
  BY Zenon, <1>2 DEF MayBecome, ScheduledBarrier
<1> QED BY Zenon, <1>2, <1>3

-----------------------------------------------------------------------------
(* Recognising the kind of a step from its update of task.                 *)

\* One task moves.
LEMMA OneMoves ==
    ASSUME TasksInv, NEW t \in Tasks, NEW r, MayBecome(t, r),
           task' = [task EXCEPT ![t] = r], io' = io
    PROVE  QuietStep
<1>1. r \in TaskRecords
  BY Zenon DEF MayBecome, Harmless, Shaped, TasksInv
<1>2. task' \in [Tasks -> TaskRecords]
  BY Zenon, <1>1 DEF TasksInv
<1>3. task'[t] = r /\ \A u \in Tasks \ {t} : task'[u] = task[u]
  BY Zenon DEF TasksInv
<1>4. \A u \in Tasks : Quiet(u)
  BY Zenon, <1>3 DEF Quiet, MayBecome
<1> QED BY Zenon, <1>2, <1>4 DEF QuietStep

\* A call moves, and so does the barrier.
LEMMA TwoMove ==
    ASSUME TasksInv, NEW c \in Calls, NEW r, MayBecome(c, r), NEW b, MayBecome(Barrier, b),
           task' = [task EXCEPT ![c] = r, ![Barrier] = b], io' = io
    PROVE  QuietStep
<1>1. r \in TaskRecords /\ b \in TaskRecords /\ c \in Tasks /\ Barrier \in Tasks /\ c # Barrier
  BY Zenon, ClientAssumption DEF MayBecome, Harmless, Shaped, TasksInv, Tasks
<1>2. task' \in [Tasks -> TaskRecords]
  BY Zenon, <1>1 DEF TasksInv
<1>3. /\ task'[c] = r /\ task'[Barrier] = b
      /\ \A u \in Tasks \ {c, Barrier} : task'[u] = task[u]
  BY Zenon, <1>1 DEF TasksInv
<1>4. \A u \in Tasks : Quiet(u)
  BY <1>3, Zenon DEF Quiet, MayBecome
<1> QED BY Zenon, <1>2, <1>4 DEF QuietStep

\* The promise of the barrier settles: the joiners go on.
LEMMA BarrierSettles ==
    ASSUME TasksInv, NEW s \in {None} \cup Snapshots, SettleBarrier(s)
    PROVE  /\ task' \in [Tasks -> TaskRecords]
           /\ task'[Barrier] = Idle
           /\ \A u \in Tasks \ {Barrier} : Quiet(u)
<1>1. Barrier \in Tasks
  BY Zenon DEF Tasks
<1>2. \A u \in Tasks : task[u] \in TaskRecords /\ task[u].op \in Ops
  BY Zenon DEF TasksInv, TaskRecords
<1>3. \A c \in Calls, op \in Ops : Harmless(c, Task("resumed", op, s))
  BY Zenon, HarmlessRecords
<1>4. Harmless(Barrier, Idle)
  BY Zenon, <1>1, HarmlessRecords
<1>5. task'[Barrier] = Idle
  BY Zenon, <1>1 DEF SettleBarrier
<1>6. \A u \in Tasks \ {Barrier} :
          \/ task'[u] = task[u]
          \/ task[u].pc = "waiting" /\ task'[u] = Task("resumed", task[u].op, s)
  BY Zenon DEF SettleBarrier
<1>7. \A u \in Tasks \ {Barrier} : Quiet(u)
  BY Zenon, <1>2, <1>3, <1>6 DEF Quiet, MayBecome, IoPcs, Tasks
<1>8. \A u \in Tasks : task'[u] \in TaskRecords
  BY Zenon, <1>2, <1>4, <1>5, <1>7 DEF Quiet, MayBecome, Harmless, Shaped
<1>9. task' \in [Tasks -> TaskRecords]
  BY Zenon, <1>8 DEF SettleBarrier
<1> QED BY Zenon, <1>5, <1>7, <1>9

\* One task calls the store.
LEMMA OneCallsStore ==
    ASSUME TasksInv, NEW t \in Tasks, NEW r, Shaped(t, r), r.pc \in IoPcs,
           task[t].pc \notin IoPcs, task' = [task EXCEPT ![t] = r]
    PROVE  CallsStore(t) /\ task'[t] = r
<1>1. r \in TaskRecords
  BY Zenon DEF Shaped
<1>2. task' \in [Tasks -> TaskRecords]
  BY Zenon, <1>1 DEF TasksInv
<1>3. task'[t] = r /\ \A u \in Tasks \ {t} : task'[u] = task[u]
  BY Zenon DEF TasksInv
<1> QED BY Zenon, <1>2, <1>3 DEF CallsStore, Quiet, MayBecome

\* The store promise of one task settles.
LEMMA OneSettles ==
    ASSUME TasksInv, NEW t \in Tasks, NEW r, Shaped(t, r), r.pc \notin IoPcs,
           io # <<>>, Head(io) = t, io' = Tail(io), task' = [task EXCEPT ![t] = r]
    PROVE  Settles(t) /\ task'[t] = r
<1>1. r \in TaskRecords
  BY Zenon DEF Shaped
<1>2. task' \in [Tasks -> TaskRecords]
  BY Zenon, <1>1 DEF TasksInv
<1>3. task'[t] = r /\ \A u \in Tasks \ {t} : task'[u] = task[u]
  BY Zenon DEF TasksInv
<1> QED BY Zenon, <1>2, <1>3 DEF Settles, Quiet, MayBecome

-----------------------------------------------------------------------------
(* What the kinds of steps do to the agreement.                            *)

\* If the host is disciplined, no restore is under way.
Unrestoring ==
    Disciplined /\ ~disposed => \A c \in Calls : task[c].pc \notin RestorePcs

\* Some task is busy with something else than a restore, so none is under way.
LEMMA BusyUnrestoring ==
    ASSUME IInv, NEW t \in Tasks, task[t].pc \notin RestorePcs \cup {"idle"}
    PROVE  Unrestoring
    BY Zenon DEF IInv, AgreementInv, RestoreAlone, Unrestoring

\* A disciplined host starts no call during a restore.
LEMMA MayCallUnrestoring ==
    ASSUME NEW c \in Calls, MayCall(c)
    PROVE  Unrestoring /\ task[c].pc \notin IoPcs /\ ~disposed /\ c \in Tasks
    BY Zenon DEF MayCall, Restoring, Unrestoring, Disciplined, RestorePcs, IoPcs, Tasks

\* A quiet step that leaves material and signal alone keeps the invariant.
LEMMA QuietKeeps ==
    ASSUME IInv, QuietStep, Unrestoring,
           material' = material, signal' = signal, disk' = disk, disposed' = disposed,
           now' = now, grants' \in Nat, timer' \in {None} \cup Timers,
           timer' # None => material # None /\ ~disposed
    PROVE  IInv'
<1>1. TasksInv'
  BY Zenon, QuietTasks DEF IInv
<1>2. VarsOK' /\ TimerNeedsMaterial'
  BY Zenon DEF IInv, VarsOK, TimerNeedsMaterial
<1>3. AgreementInv'
  <2> SUFFICES ASSUME Disciplined, ~disposed PROVE (RestoreAlone /\ Agreement)'
    BY Zenon DEF AgreementInv, Disciplined
  <2>1. Agreement /\ TasksInv
    BY Zenon DEF IInv, AgreementInv
  <2>2. \A c \in Calls : task[c].pc \notin RestorePcs /\ task'[c].pc \notin RestorePcs
    BY Zenon DEF Unrestoring, QuietStep, Quiet, MayBecome, Harmless, Tasks
  <2>3. ~Restoring /\ ~Restoring'
    BY Zenon, <2>2 DEF Restoring, RestorePcs
  <2>4. \A t \in Tasks : task'[t].ok
    BY Zenon, <2>1 DEF Agreement, QuietStep, Quiet, MayBecome, Harmless
  <2>5. CASE io = <<>>
    BY Zenon, <2>1, <2>2, <2>3, <2>4, <2>5 DEF Agreement, RestoreAlone, QuietStep
  <2>6. CASE io # <<>>
    <3>1. Len(io) \in 1..Len(io) /\ io[Len(io)] \in Tasks
      BY <2>1, <2>6, TailFacts DEF TasksInv
    <3>2. task[io[Len(io)]].pc \in IoPcs
      BY Zenon, <2>1, <3>1 DEF TasksInv, QueueNames
    <3>3. task'[io[Len(io)]] = task[io[Len(io)]]
      BY Zenon, <3>1, <3>2 DEF QuietStep, Quiet, MayBecome
    <3> QED BY Zenon, <2>1, <2>2, <2>3, <2>4, <2>6, <3>3 DEF Agreement, RestoreAlone, QuietStep
  <2> QED BY Zenon, <2>5, <2>6
<1> QED BY Zenon, <1>1, <1>2, <1>3 DEF IInv

\* A step that publishes the material while no store call is pending.
LEMMA PublishKeeps ==
    ASSUME IInv, QuietStep, Disciplined /\ ~disposed => io = <<>>,
           Disciplined /\ ~disposed => \A c \in Calls : task'[c].pc \notin RestorePcs,
           material' = signal', disposed' = disposed, VarsOK', TimerNeedsMaterial'
    PROVE  IInv'
<1>1. TasksInv'
  BY Zenon, QuietTasks DEF IInv
<1>2. AgreementInv'
  <2> SUFFICES ASSUME Disciplined, ~disposed PROVE (RestoreAlone /\ Agreement)'
    BY Zenon DEF AgreementInv, Disciplined
  <2>1. Agreement /\ io' = <<>>
    BY Zenon DEF IInv, AgreementInv, QuietStep
  <2>2. \A t \in Tasks : task'[t].ok
    BY Zenon, <2>1 DEF Agreement, QuietStep, Quiet, MayBecome, Harmless
  <2> QED BY Zenon, <2>1, <2>2 DEF Agreement, RestoreAlone
<1> QED BY Zenon, <1>1, <1>2 DEF IInv

\* A write that calls the store: the store operation carries the new material.
LEMMA WriteKeeps ==
    ASSUME IInv, NEW t \in Tasks, CallsStore(t), io' = Append(io, t),
           \A c \in Calls : task'[c].pc \in RestorePcs => ~Disciplined \/ disposed,
           material' = task'[t].snap, ~StoreFails => task'[t].ok,
           disposed' = disposed, VarsOK', TimerNeedsMaterial'
    PROVE  IInv'
<1>1. TasksInv'
  BY Zenon, PushTasks DEF IInv
<1>2. AgreementInv'
  <2> SUFFICES ASSUME Disciplined, ~disposed PROVE (RestoreAlone /\ Agreement)'
    BY Zenon DEF AgreementInv, Disciplined
  <2>1. Agreement /\ \A c \in Calls : task'[c].pc \notin RestorePcs
    BY Zenon DEF IInv, AgreementInv
  <2>2. \A u \in Tasks : task'[u].ok
    BY Zenon, <2>1 DEF Agreement, CallsStore, Quiet, MayBecome, Harmless, Disciplined
  <2>3. io' # <<>> /\ io'[Len(io')] = t
    BY AppendFacts DEF IInv, TasksInv
  <2> QED BY Zenon, <2>1, <2>2, <2>3 DEF Agreement, RestoreAlone
<1> QED BY Zenon, <1>1, <1>2 DEF IInv

\* A settled write publishes what it carried.
LEMMA SettleKeeps ==
    ASSUME IInv, NEW t \in Tasks, Settles(t), Unrestoring, Harmless(t, task'[t]),
           material' = material, Disciplined /\ ~disposed => signal' = task[t].snap,
           disposed' = disposed, VarsOK', TimerNeedsMaterial'
    PROVE  IInv'
<1>1. TasksInv'
  BY Zenon, PopTasks DEF IInv
<1>2. AgreementInv'
  <2> SUFFICES ASSUME Disciplined, ~disposed PROVE (RestoreAlone /\ Agreement)'
    BY Zenon DEF AgreementInv, Disciplined
  <2>1. Agreement /\ TasksInv
    BY Zenon DEF IInv, AgreementInv
  <2>2. \A c \in Calls : task[c].pc \notin RestorePcs /\ task'[c].pc \notin RestorePcs
    BY Zenon DEF Unrestoring, Settles, Quiet, MayBecome, Harmless, Tasks
  <2>3. ~Restoring /\ ~Restoring'
    BY Zenon, <2>2 DEF Restoring, RestorePcs
  <2>4. \A u \in Tasks : task'[u].ok
    BY Zenon, <2>1 DEF Agreement, Settles, Quiet, MayBecome, Harmless
  <2>5. /\ io # <<>>
        /\ io[1] = t
        /\ io' = Tail(io)
        /\ Len(io) \in Nat \ {0}
        /\ Len(io') = Len(io) - 1
        /\ \A i \in 1..Len(io') : io'[i] = io[i + 1]
        /\ io[Len(io)] \in Tasks
    BY Zenon, <2>1, TailFacts DEF Settles, TasksInv
  <2>6. material = task[io[Len(io)]].snap
    BY Zenon, <2>1, <2>3, <2>5 DEF Agreement
  <2>7. CASE io' = <<>>
    <3>1. Len(io) = 1
      BY <2>5, <2>7, EmptyQueue, SMTT(30)
    <3> QED BY <2>2, <2>3, <2>4, <2>5, <2>6, <2>7, <3>1, Zenon DEF Agreement, RestoreAlone
  <2>8. CASE io' # <<>>
    <3>1. io' \in Seq(Tasks) /\ Len(io') \in Nat \ {0}
      BY Zenon, <1>1, <2>8, TailFacts DEF TasksInv
    <3>2. io'[Len(io')] = io[Len(io)] /\ Len(io) # 1 /\ Len(io) \in 1..Len(io)
      BY <2>5, <3>1
    <3>3. io[Len(io)] # t /\ task[io[Len(io)]].pc \in IoPcs
      BY <2>1, <2>5, <3>2 DEF TasksInv, QueueNames
    <3>4. task'[io[Len(io)]] = task[io[Len(io)]]
      BY Zenon, <2>5, <3>3 DEF Settles, Quiet, MayBecome
    <3> QED BY <2>2, <2>3, <2>4, <2>6, <2>8, <3>2, <3>4, Zenon DEF Agreement, RestoreAlone
  <2> QED BY Zenon, <2>7, <2>8
<1> QED BY Zenon, <1>1, <1>2 DEF IInv

-----------------------------------------------------------------------------
(* Every action keeps the invariant.  First the quiet ones.                *)

\* A failed request ends its flow and touches nothing else.
LEMMA RequestFailedKeeps ==
    ASSUME IInv, NEW t \in Tasks, RequestFailed(t)
    PROVE  IInv'
<1>1. MayBecome(t, Throw(t))
  BY Zenon, HarmlessRecords DEF RequestFailed, MayBecome, IoPcs
<1>2. QuietStep
  BY <1>1, OneMoves, Zenon DEF IInv, RequestFailed
<1>3. Unrestoring
  BY Zenon, BusyUnrestoring DEF RequestFailed, RestorePcs
<1> QED BY Zenon, <1>2, <1>3, QuietKeeps DEF IInv, VarsOK, TimerNeedsMaterial, RequestFailed

\* The answer to a refresh waits in its task for the metadata.
LEMMA RefreshAnsweredKeeps ==
    ASSUME IInv, NEW t \in Tasks, RefreshAnswered(t)
    PROVE  IInv'
<1>1. task[t].snap \in Snapshots /\ task[t].snap.refresh # None
  BY Zenon DEF IInv, TasksInv, Shaped, RefreshAnswered
<1>2. task[t].snap.refresh \in Nat
  BY Zenon, <1>1 DEF Snapshots
<1>3. PICK rotated \in BOOLEAN, e \in ExpiryDates :
          task' = [task EXCEPT ![t] =
              IF disposed THEN Throw(t)
              ELSE Task("metadata", "refresh",
                        Granted(task[t].snap.refresh,
                                IF rotated \/ Mode = "frontend"
                                THEN task[t].snap.refresh ELSE None, e))]
  BY Zenon DEF RefreshAnswered
<1> DEFINE d == Granted(task[t].snap.refresh,
                        IF rotated \/ Mode = "frontend" THEN task[t].snap.refresh ELSE None, e)
           r == IF disposed THEN Throw(t) ELSE Task("metadata", "refresh", d)
<1>4. d \in Snapshots
  BY Zenon, <1>2, GrantedFacts DEF IInv
<1>5. task' = [task EXCEPT ![t] = r]
  BY Zenon, <1>3
<1> HIDE DEF d
<1>6. Harmless(t, r)
  BY Zenon, <1>4, HarmlessRecords
<1>7. MayBecome(t, r)
  BY Zenon, <1>6 DEF RefreshAnswered, MayBecome, IoPcs
<1> HIDE DEF r
<1>8. QuietStep
  BY <1>5, <1>7, OneMoves, Zenon DEF IInv, RefreshAnswered
<1>9. Unrestoring
  BY Zenon, BusyUnrestoring DEF RefreshAnswered, RestorePcs
<1> QED BY <1>8, <1>9, QuietKeeps DEF IInv, VarsOK, TimerNeedsMaterial, RefreshAnswered

\* The tokens of a callback wait in its task for the metadata.
LEMMA ExchangeAnsweredKeeps ==
    ASSUME IInv, NEW c \in Calls, ExchangeAnswered(c)
    PROVE  IInv'
<1>1. c \in Tasks /\ grants + 1 \in Nat
  BY DEF Tasks, IInv, VarsOK
<1>2. PICK f \in {None, grants + 1}, e \in ExpiryDates :
          task' = [task EXCEPT ![c] =
              IF disposed THEN Throw(c)
              ELSE Task("metadata", "callback", Granted(grants + 1, f, e))]
  BY Zenon DEF ExchangeAnswered
<1> DEFINE d == Granted(grants + 1, f, e)
           r == IF disposed THEN Throw(c) ELSE Task("metadata", "callback", d)
<1>3. d \in Snapshots
  BY Zenon, <1>1, GrantedFacts DEF IInv
<1>4. task' = [task EXCEPT ![c] = r]
  BY Zenon, <1>2
<1> HIDE DEF d
<1>5. Harmless(c, r)
  BY Zenon, <1>1, <1>3, HarmlessRecords
<1>6. MayBecome(c, r)
  BY Zenon, <1>5 DEF ExchangeAnswered, MayBecome, IoPcs
<1> HIDE DEF r
<1>7. QuietStep
  BY <1>1, <1>4, <1>6, OneMoves, Zenon DEF IInv, ExchangeAnswered
<1>8. Unrestoring
  BY Zenon, <1>1, BusyUnrestoring DEF ExchangeAnswered, RestorePcs
<1> QED BY <1>1, <1>7, <1>8, QuietKeeps, Zenon DEF IInv, VarsOK, TimerNeedsMaterial, ExchangeAnswered

\* A callback starts with its exchange.
LEMMA HandleCallbackKeeps ==
    ASSUME IInv, NEW c \in Calls, HandleCallback(c)
    PROVE  IInv'
<1>1. Unrestoring /\ task[c].pc \notin IoPcs /\ c \in Tasks
  BY Zenon, MayCallUnrestoring DEF HandleCallback
<1>2. MayBecome(c, Task("exchange", "callback", None))
  BY Zenon, <1>1, HarmlessRecords DEF MayBecome
<1>3. QuietStep
  BY <1>1, <1>2, OneMoves, Zenon DEF IInv, HandleCallback
<1> QED BY Zenon, <1>1, <1>3, QuietKeeps DEF IInv, VarsOK, TimerNeedsMaterial, HandleCallback

\* A refresh of the host starts with its request.
LEMMA RefreshKeeps ==
    ASSUME IInv, NEW c \in Calls, Refresh(c)
    PROVE  IInv'
<1>1. Unrestoring /\ task[c].pc \notin IoPcs /\ c \in Tasks
  BY Zenon, MayCallUnrestoring DEF Refresh
<1>2. Harmless(c, RefreshCall(material))
  BY Zenon, HarmlessRecords DEF Refresh, IInv, VarsOK
<1>3. MayBecome(c, RefreshCall(material))
  BY Zenon, <1>1, <1>2 DEF MayBecome
<1>4. QuietStep
  BY <1>1, <1>3, OneMoves, Zenon DEF IInv, Refresh
<1> QED BY Zenon, <1>1, <1>4, QuietKeeps DEF IInv, VarsOK, TimerNeedsMaterial, Refresh

\* The barrier returned a snapshot: its joiners go on.
LEMMA BarrierReturnsKeeps ==
    ASSUME IInv, BarrierReturns
    PROVE  IInv'
<1>1. Barrier \in Tasks
  BY Zenon DEF Tasks
<1>2. task[Barrier].snap \in Snapshots
  BY <1>1, Zenon DEF IInv, TasksInv, Shaped, BarrierReturns
<1>3. /\ task' \in [Tasks -> TaskRecords]
      /\ task'[Barrier] = Idle
      /\ \A u \in Tasks \ {Barrier} : Quiet(u)
  BY Zenon, <1>2, BarrierSettles DEF IInv, BarrierReturns
<1>4. Quiet(Barrier)
  BY Zenon, <1>1, <1>3, HarmlessRecords DEF Quiet, MayBecome, BarrierReturns, IoPcs
<1>5. QuietStep
  BY Zenon, <1>3, <1>4 DEF QuietStep, BarrierReturns
<1>6. Unrestoring
  BY Zenon, <1>1, BusyUnrestoring DEF BarrierReturns, RestorePcs
<1> QED BY Zenon, <1>5, <1>6, QuietKeeps DEF IInv, VarsOK, TimerNeedsMaterial, BarrierReturns

\* A joiner goes on; a restore schedules its snapshot.
LEMMA ResumeKeeps ==
    ASSUME IInv, NEW c \in Calls, Resume(c)
    PROVE  IInv'
<1>1. c \in Tasks /\ MayBecome(c, Idle)
  BY Zenon, HarmlessRecords DEF Resume, MayBecome, IoPcs, Tasks
<1>2. MayBecome(Barrier, ScheduledBarrier(task[Barrier], material))
  BY Zenon, BarrierMayBecome DEF IInv, VarsOK
<1>3. QuietStep
  <2>1. CASE task[c].op = "restore" /\ task[c].snap # None
    BY Zenon, <1>1, <1>2, <2>1, TwoMove DEF IInv, Resume
  <2>2. CASE ~(task[c].op = "restore" /\ task[c].snap # None)
    BY Zenon, <1>1, <2>2, OneMoves DEF IInv, Resume
  <2> QED BY Zenon, <2>1, <2>2
<1>4. Unrestoring
  BY Zenon, <1>1, BusyUnrestoring DEF Resume, RestorePcs
<1>5. timer' = timer \/ timer' = ScheduledTimer(material)
  BY Zenon DEF Resume
<1>6. timer' \in {None} \cup Timers /\ (timer' # None => material # None /\ ~disposed)
  BY Zenon, <1>5, ScheduledTimerType DEF IInv, VarsOK, TimerNeedsMaterial
<1> QED BY <1>3, <1>4, <1>6, QuietKeeps, Zenon DEF IInv, VarsOK, Resume

\* A background refresh only starts or joins the barrier.
LEMMA EnsureInBackgroundKeeps ==
    ASSUME IInv, NEW c \in Calls, EnsureInBackground(c)
    PROVE  IInv'
<1>1. MayBecome(Barrier, RefreshThroughBarrier(task[Barrier], material)) /\ Barrier \in Tasks
  BY Zenon, BarrierMayBecome DEF IInv, VarsOK, Tasks
<1>2. QuietStep
  BY <1>1, OneMoves, Zenon DEF IInv, EnsureInBackground
<1>3. Unrestoring
  BY Zenon, MayCallUnrestoring DEF EnsureInBackground
<1> QED BY Zenon, <1>2, <1>3, QuietKeeps DEF IInv, VarsOK, TimerNeedsMaterial, EnsureInBackground

\* An ensure that waits for the barrier.
LEMMA EnsureByRefreshKeeps ==
    ASSUME IInv, NEW c \in Calls, EnsureByRefresh(c)
    PROVE  IInv'
<1>1. MayBecome(Barrier, RefreshThroughBarrier(task[Barrier], material))
  BY Zenon, BarrierMayBecome DEF IInv, VarsOK
<1>2. Unrestoring /\ task[c].pc \notin IoPcs
  BY Zenon, MayCallUnrestoring DEF EnsureByRefresh
<1>3. MayBecome(c, Task("waiting", "ensure", None))
  BY Zenon, <1>2, HarmlessRecords DEF MayBecome, Ops
<1>4. QuietStep
  BY <1>1, <1>3, TwoMove, ZenonT(30) DEF IInv, EnsureByRefresh
<1> QED BY Zenon, <1>2, <1>4, QuietKeeps DEF IInv, VarsOK, TimerNeedsMaterial, EnsureByRefresh

\* The timer starts or joins the barrier, or is set again.
LEMMA TimerFiresKeeps ==
    ASSUME IInv, TimerFires
    PROVE  IInv'
<1>1. /\ MayBecome(Barrier, RefreshThroughBarrier(task[Barrier], material))
      /\ MayBecome(Barrier, ScheduledBarrier(task[Barrier], material))
      /\ Barrier \in Tasks
  BY Zenon, BarrierMayBecome DEF IInv, VarsOK, Tasks
<1>2. QuietStep
  BY Zenon, <1>1, OneMoves DEF IInv, TimerFires
<1>3. Unrestoring
  BY Zenon DEF IInv, AgreementInv, RestoreAlone, Unrestoring, TimerFires
<1>4. timer' = None \/ timer' = ScheduledTimer(material)
  BY Zenon DEF TimerFires
<1>5. timer' \in {None} \cup Timers /\ (timer' # None => material # None /\ ~disposed)
  BY Zenon, <1>4, ScheduledTimerType DEF IInv, VarsOK
<1> QED BY Zenon, <1>2, <1>3, <1>5, QuietKeeps DEF IInv, VarsOK, TimerFires

-----------------------------------------------------------------------------
(* The writes.                                                             *)

\* A task applies a snapshot and awaits the save.
LEMMA ApplySnapshotKeeps ==
    ASSUME IInv, NEW t \in Tasks, NEW s \in Snapshots, NEW op \in Ops, ApplySnapshot(t, s, op),
           task[t].pc \notin IoPcs, Unrestoring,
           signal' = signal, timer' = timer, disposed' = disposed, now' = now, grants' = grants
    PROVE  IInv'
<1>1. PICK ok \in StoreResults :
          /\ material' = s
          /\ disk' = IF ok THEN s ELSE disk
          /\ io' = Append(io, t)
          /\ task' = [task EXCEPT ![t] = StoreTask("saving", op, s, ok)]
  BY Zenon DEF ApplySnapshot
<1>2. ok \in BOOLEAN /\ (~StoreFails => ok)
  BY ZenonT(30) DEF StoreResults
<1> DEFINE r == StoreTask("saving", op, s, ok)
<1>3. Shaped(t, r) /\ r.pc \in IoPcs
  BY Zenon, <1>2, StoreRecords
<1>4. r.snap = s /\ r.ok = ok /\ r.pc \notin RestorePcs
  BY Zenon DEF StoreTask, RestorePcs
<1>5. task' = [task EXCEPT ![t] = r]
  BY Zenon, <1>1
<1> HIDE DEF r
<1>6. CallsStore(t) /\ task'[t] = r
  BY <1>3, <1>5, OneCallsStore, Zenon DEF IInv
<1>7. \A c \in Calls : task'[c].pc \in RestorePcs => ~Disciplined \/ disposed
  BY Zenon, <1>4, <1>6 DEF CallsStore, Quiet, MayBecome, Harmless, Unrestoring, Tasks
<1>8. disk' \in {None, Corrupt} \cup Snapshots
  BY Zenon, <1>1 DEF IInv, VarsOK
<1>9. VarsOK'
  BY Zenon, <1>1, <1>8 DEF IInv, VarsOK
<1>10. TimerNeedsMaterial'
  BY Zenon, <1>1, ClientAssumption DEF IInv, TimerNeedsMaterial
<1> QED BY <1>1, <1>2, <1>4, <1>6, <1>7, <1>9, <1>10, WriteKeeps, Zenon

\* A task clears the material and awaits the store.
LEMMA BeginClearKeeps ==
    ASSUME IInv, NEW t \in Tasks, NEW op \in Ops, BeginClear(t, op),
           task[t].pc \notin IoPcs,
           \A c \in Calls \ {t} : task[c].pc \in RestorePcs => ~Disciplined \/ disposed,
           signal' \in {None} \cup Snapshots,
           disposed' = disposed, now' = now, grants' = grants
    PROVE  IInv'
<1>1. PICK ok \in StoreResults :
          /\ material' = None
          /\ disk' = IF ok THEN None ELSE disk
          /\ io' = Append(io, t)
          /\ task' = [task EXCEPT ![t] = StoreTask("clearing", op, None, ok)]
          /\ timer' = None
  BY Zenon DEF BeginClear
<1>2. ok \in BOOLEAN /\ (~StoreFails => ok)
  BY ZenonT(30) DEF StoreResults
<1> DEFINE r == StoreTask("clearing", op, None, ok)
<1>3. Shaped(t, r) /\ r.pc \in IoPcs
  BY <1>2, StoreRecords, ZenonT(30)
<1>4. r.snap = None /\ r.ok = ok /\ r.pc \notin RestorePcs
  BY Zenon DEF StoreTask, RestorePcs
<1>5. task' = [task EXCEPT ![t] = r]
  BY Zenon, <1>1
<1> HIDE DEF r
<1>6. CallsStore(t) /\ task'[t] = r
  BY <1>3, <1>5, OneCallsStore, Zenon DEF IInv
<1>7. \A c \in Calls : task'[c].pc \in RestorePcs => ~Disciplined \/ disposed
  BY Zenon, <1>4, <1>6 DEF CallsStore, Quiet, MayBecome, Harmless, Tasks
<1>8. disk' \in {None, Corrupt} \cup Snapshots
  BY Zenon, <1>1 DEF IInv, VarsOK
<1>9. VarsOK' /\ TimerNeedsMaterial'
  BY Zenon, <1>1, <1>8 DEF IInv, VarsOK, TimerNeedsMaterial
<1> QED BY <1>1, <1>2, <1>4, <1>6, <1>7, <1>9, WriteKeeps, Zenon

\* A refresh is merged into the material, or replaces it, and is saved.
LEMMA RefreshAppliesKeeps ==
    ASSUME IInv, NEW t \in Tasks, RefreshApplies(t)
    PROVE  IInv'
<1>1. task[t].snap \in Snapshots /\ task[t].pc \notin IoPcs
  BY Zenon DEF IInv, TasksInv, Shaped, RefreshApplies, IoPcs
<1> DEFINE s == IF Mode = "backend" THEN mergeTokenDelta(material, task[t].snap)
                ELSE TokenSnapshot(task[t].snap)
<1>2. s \in Snapshots
  <2>1. CASE Mode = "backend"
    <3>1. material \in Snapshots
      BY Zenon, <2>1 DEF IInv, VarsOK, RefreshApplies
    <3> QED BY <1>1, <2>1, <3>1, SnapshotFacts, Zenon DEF IInv
  <2>2. CASE Mode # "backend"
    BY Zenon, <1>1, <2>2, SnapshotFacts DEF IInv
  <2> QED BY Zenon, <2>1, <2>2
<1>3. ApplySnapshot(t, s, "refresh")
  BY Zenon DEF RefreshApplies
<1> HIDE DEF s
<1>4. Unrestoring
  BY Zenon, BusyUnrestoring DEF RefreshApplies, RestorePcs
<1> QED BY Zenon, <1>1, <1>2, <1>3, <1>4, ApplySnapshotKeeps DEF RefreshApplies, Ops

\* The snapshot of a callback becomes the material and is saved.
LEMMA CallbackAppliesKeeps ==
    ASSUME IInv, NEW c \in Calls, CallbackApplies(c)
    PROVE  IInv'
<1>1. c \in Tasks /\ task[c].pc \notin IoPcs
  BY Zenon DEF CallbackApplies, IoPcs, Tasks
<1>2. task[c].snap \in Snapshots
  BY Zenon, <1>1 DEF IInv, TasksInv, Shaped, CallbackApplies
<1>3. TokenSnapshot(task[c].snap) \in Snapshots
  BY Zenon, <1>2, SnapshotFacts DEF IInv
<1>4. Unrestoring
  BY Zenon, <1>1, BusyUnrestoring DEF CallbackApplies, RestorePcs
<1> QED BY Zenon, <1>1, <1>3, <1>4, ApplySnapshotKeeps DEF CallbackApplies, Ops

\* clearState clears the material and awaits the store.
LEMMA ClearStateKeeps ==
    ASSUME IInv, NEW c \in Calls, ClearState(c)
    PROVE  IInv'
<1>1. Unrestoring /\ task[c].pc \notin IoPcs /\ c \in Tasks
  BY Zenon, MayCallUnrestoring DEF ClearState
<1>2. \A d \in Calls \ {c} : task[d].pc \in RestorePcs => ~Disciplined \/ disposed
  BY Zenon, <1>1 DEF Unrestoring
<1> QED BY <1>1, <1>2, BeginClearKeeps, Zenon DEF ClearState, Ops, IInv, VarsOK

\* A stale token that cannot be refreshed is cleared.
LEMMA EnsureWithoutRefreshKeeps ==
    ASSUME IInv, NEW c \in Calls, EnsureWithoutRefresh(c)
    PROVE  IInv'
<1>1. Unrestoring /\ task[c].pc \notin IoPcs /\ c \in Tasks
  BY Zenon, MayCallUnrestoring DEF EnsureWithoutRefresh
<1>2. \A d \in Calls \ {c} : task[d].pc \in RestorePcs => ~Disciplined \/ disposed
  BY Zenon, <1>1 DEF Unrestoring
<1> QED BY <1>1, <1>2, BeginClearKeeps, Zenon DEF EnsureWithoutRefresh, Ops, IInv, VarsOK

\* A barrier that failed clears the material, or gives up after dispose.
LEMMA BarrierFailsKeeps ==
    ASSUME IInv, BarrierFails
    PROVE  IInv'
<1>1. Barrier \in Tasks /\ task[Barrier].pc \notin IoPcs
  BY Zenon DEF Tasks, BarrierFails, IoPcs
<1>2. Unrestoring
  BY Zenon, <1>1, BusyUnrestoring DEF BarrierFails, RestorePcs
<1>3. CASE disposed
  <2>1. /\ task' \in [Tasks -> TaskRecords]
        /\ task'[Barrier] = Idle
        /\ \A u \in Tasks \ {Barrier} : Quiet(u)
    <3>1. SettleBarrier(None)
      BY <1>3, Zenon DEF BarrierFails
    <3> QED BY Zenon, <3>1, BarrierSettles DEF IInv
  <2>2. Quiet(Barrier)
    BY Zenon, <1>1, <2>1, HarmlessRecords DEF Quiet, MayBecome
  <2>3. QuietStep
    BY Zenon, <1>3, <2>1, <2>2 DEF QuietStep, BarrierFails
  <2> QED BY <1>2, <1>3, <2>3, QuietKeeps, Zenon DEF IInv, VarsOK, TimerNeedsMaterial, BarrierFails
<1>4. CASE ~disposed
  <2>1. PICK op \in Ops : BeginClear(Barrier, op)
    BY Zenon, <1>4 DEF BarrierFails, Ops
  <2>2. \A d \in Calls \ {Barrier} : task[d].pc \in RestorePcs => ~Disciplined \/ disposed
    BY Zenon, <1>2 DEF Unrestoring
  <2> QED BY <1>1, <2>1, <2>2, BeginClearKeeps, Zenon DEF BarrierFails, IInv, VarsOK
<1> QED BY Zenon, <1>3, <1>4

\* clearState of the memory alone: a disciplined host calls it with no store
\* operation pending, so its place in the queue is the last as well.
LEMMA ClearMemoryKeeps ==
    ASSUME IInv, NEW c \in Calls, ClearMemory(c)
    PROVE  IInv'
<1>1. Unrestoring /\ task[c].pc \notin IoPcs /\ c \in Tasks
  BY Zenon, MayCallUnrestoring DEF ClearMemory
<1> DEFINE r == StoreTask("clearing", "clear", None, TRUE)
<1>2. Shaped(c, r) /\ r.pc \in IoPcs
  BY <1>1, StoreRecords, Zenon DEF Ops
<1>3. r.snap = None /\ r.ok /\ r.pc \notin RestorePcs
  BY Zenon DEF StoreTask, RestorePcs
<1>4. task' = [task EXCEPT ![c] = r]
  BY Zenon DEF ClearMemory
<1> HIDE DEF r
<1>5. CallsStore(c) /\ task'[c] = r
  BY <1>1, <1>2, <1>4, OneCallsStore, Zenon DEF IInv
<1>6. TasksInv'
  BY Zenon, <1>1, <1>5, JumpTasks DEF IInv, ClearMemory
<1>7. VarsOK' /\ TimerNeedsMaterial'
  BY Zenon DEF IInv, VarsOK, TimerNeedsMaterial, ClearMemory
<1>8. AgreementInv'
  <2> SUFFICES ASSUME Disciplined, ~disposed PROVE (RestoreAlone /\ Agreement)'
    BY Zenon DEF AgreementInv, Disciplined, ClearMemory
  <2>1. Agreement
    BY Zenon DEF IInv, AgreementInv
  <2>6. io = <<>> /\ io' = <<c>> \o io
    BY Zenon DEF ClearMemory, Disciplined
  <2>2. \A u \in Tasks : task'[u].ok
    BY Zenon, <1>3, <1>5, <2>1 DEF Agreement, CallsStore, Quiet, MayBecome, Harmless
  <2>3. \A d \in Calls : task'[d].pc \notin RestorePcs
    BY Zenon, <1>1, <1>3, <1>5 DEF CallsStore, Quiet, MayBecome, Harmless, Unrestoring, Tasks
  <2>7. /\ Len(io) = 0
        /\ io' \in Seq(Tasks)
        /\ Len(io') = 0 + 1
        /\ io'[1] = c
    BY <1>1, <2>6, ConsFacts, EmptyQueue DEF IInv, TasksInv
  <2>4. io' # <<>> /\ io'[Len(io')] = c
    BY <2>7, EmptyQueue
  <2>5. material' = None
    BY Zenon DEF ClearMemory
  <2> QED BY Zenon, <1>3, <1>5, <2>2, <2>3, <2>4, <2>5 DEF Agreement, RestoreAlone
<1> QED BY Zenon, <1>6, <1>7, <1>8 DEF IInv

-----------------------------------------------------------------------------
(* The settled writes.                                                     *)

\* A settled save publishes its snapshot and schedules the current material.
LEMMA SaveDoneKeeps ==
    ASSUME IInv, NEW t \in Tasks, SaveDone(t)
    PROVE  IInv'
<1>1. task[t].snap \in Snapshots
  BY Zenon DEF IInv, TasksInv, Shaped, SaveDone
<1>2. Unrestoring
  BY Zenon, BusyUnrestoring DEF SaveDone, RestorePcs
<1>3. CASE task[t].ok
  <2>1. Harmless(t, Return(t, task[t].snap))
    BY Zenon, <1>1, HarmlessRecords
  <2>2. MayBecome(Barrier, ScheduledBarrier(task[Barrier], material))
    BY Zenon, BarrierMayBecome DEF IInv, VarsOK
  <2>3. /\ task'[t] = Return(t, task[t].snap)
        /\ \A u \in Tasks \ {t} :
               \/ task'[u] = task[u]
               \/ u = Barrier /\ task'[u] = ScheduledBarrier(task[Barrier], material)
    BY Zenon, <1>3 DEF SaveDone
  <2>4. \A u \in Tasks \ {t} : Quiet(u)
    BY Zenon, <2>2, <2>3 DEF Quiet, MayBecome
  <2>5. \A u \in Tasks : task'[u] \in TaskRecords
    BY <2>1, <2>3, <2>4, ZenonT(30) DEF IInv, TasksInv, Quiet, MayBecome, Harmless, Shaped
  <2>6. task' \in [Tasks -> TaskRecords]
    BY Zenon, <1>3, <2>5 DEF SaveDone
  <2>7. Settles(t)
    BY <2>1, <2>3, <2>4, <2>6, ZenonT(30) DEF Settles, Harmless, SaveDone
  <2>8. timer' \in {None} \cup Timers /\ (timer' # None => material # None /\ ~disposed)
    BY Zenon, <1>3, ScheduledTimerType DEF IInv, VarsOK, SaveDone
  <2>9. VarsOK' /\ TimerNeedsMaterial'
    BY Zenon, <1>1, <1>3, <2>8 DEF IInv, VarsOK, TimerNeedsMaterial, SaveDone
  <2> QED BY <1>2, <1>3, <2>1, <2>3, <2>7, <2>9, SettleKeeps, Zenon DEF SaveDone
<1>4. CASE ~task[t].ok
  <2>1. Harmless(t, Throw(t))
    BY Zenon, HarmlessRecords
  <2>2. Settles(t) /\ task'[t] = Throw(t)
    BY <1>4, <2>1, OneSettles, Zenon DEF IInv, SaveDone, Harmless
  <2>3. ~Disciplined \/ disposed
    BY Zenon, <1>4 DEF IInv, AgreementInv, Agreement
  <2>4. VarsOK' /\ TimerNeedsMaterial'
    BY Zenon, <1>4 DEF IInv, VarsOK, TimerNeedsMaterial, SaveDone
  <2> QED BY <1>2, <2>1, <2>2, <2>3, <2>4, SettleKeeps, Zenon DEF SaveDone
<1> QED BY Zenon, <1>3, <1>4

\* A settled clear publishes the absence of a material.
LEMMA ClearDoneKeeps ==
    ASSUME IInv, NEW t \in Tasks, ClearDone(t)
    PROVE  IInv'
<1>1. task[t].snap = None
  BY Zenon DEF IInv, TasksInv, Shaped, ClearDone
<1>2. Unrestoring
  BY Zenon, BusyUnrestoring DEF ClearDone, RestorePcs
<1>3. Harmless(t, Idle) /\ Harmless(t, Throw(t))
  BY Zenon, HarmlessRecords
<1>4. Settles(t) /\ task'[t] \in {Idle, Throw(t)}
  <2>1. CASE task' = [task EXCEPT ![t] = Idle]
    BY <1>3, <2>1, OneSettles, Zenon DEF IInv, ClearDone, Harmless
  <2>2. CASE task' = [task EXCEPT ![t] = Throw(t)]
    BY <1>3, <2>2, OneSettles, ZenonT(30) DEF IInv, ClearDone, Harmless
  <2>3. CASE t = Barrier /\ SettleBarrier(None)
    <3>1. /\ task' \in [Tasks -> TaskRecords]
          /\ task'[Barrier] = Idle
          /\ \A u \in Tasks \ {Barrier} : Quiet(u)
      BY Zenon, <2>3, BarrierSettles DEF IInv
    <3> QED BY Zenon, <1>3, <2>3, <3>1 DEF Settles, Harmless, ClearDone
  <2> QED BY Zenon, <2>1, <2>2, <2>3 DEF ClearDone
<1>5. Harmless(t, task'[t])
  BY Zenon, <1>3, <1>4
<1>6. Disciplined /\ ~disposed => signal' = task[t].snap
  BY Zenon, <1>1 DEF ClearDone, IInv, AgreementInv, Agreement
<1>7. VarsOK' /\ TimerNeedsMaterial'
  BY Zenon DEF IInv, VarsOK, TimerNeedsMaterial, ClearDone
<1> QED BY <1>2, <1>4, <1>5, <1>6, <1>7, SettleKeeps, Zenon DEF ClearDone

-----------------------------------------------------------------------------
(* Restoring.                                                              *)

\* restorePersistedState reads the record; a disciplined host does it alone.
LEMMA RestorePersistedStateKeeps ==
    ASSUME IInv, NEW c \in Calls, RestorePersistedState(c)
    PROVE  IInv'
<1>1. task[c].pc \notin IoPcs /\ c \in Tasks
  BY Zenon, MayCallUnrestoring DEF RestorePersistedState
<1>2. PICK s \in {None, Corrupt} \cup Snapshots :
          task' = [task EXCEPT ![c] = Task("loading", "restore", s)]
  BY Zenon DEF RestorePersistedState, IInv, VarsOK
<1> DEFINE r == Task("loading", "restore", s)
<1>3. Shaped(c, r) /\ r.pc \in IoPcs
  BY Zenon, RestoreRecords DEF Task, IoPcs
<1>4. r.pc = "loading" /\ r.ok
  BY Zenon DEF Task
<1>5. task' = [task EXCEPT ![c] = r]
  BY Zenon, <1>2
<1> HIDE DEF r
<1>6. CallsStore(c) /\ task'[c] = r
  BY <1>1, <1>3, <1>5, OneCallsStore, Zenon DEF IInv
<1>7. TasksInv'
  BY Zenon, <1>1, <1>6, PushTasks DEF IInv, RestorePersistedState
<1>8. VarsOK' /\ TimerNeedsMaterial'
  BY Zenon DEF IInv, VarsOK, TimerNeedsMaterial, RestorePersistedState
<1>9. AgreementInv'
  <2> SUFFICES ASSUME Disciplined, ~disposed PROVE (RestoreAlone /\ Agreement)'
    BY Zenon DEF AgreementInv, Disciplined, RestorePersistedState
  <2>1. /\ io = <<>> /\ material = None /\ signal = None /\ timer = None
        /\ \A u \in Tasks : task[u].pc = "idle"
    BY Zenon DEF RestorePersistedState, Disciplined
  <2>2. /\ material' = None /\ signal' = None /\ timer' = None
        /\ io' = Append(io, c)
    BY Zenon, <2>1 DEF RestorePersistedState
  <2>3. io' = <<c>>
    BY <2>1, <2>2
  <2>4. \A u \in Tasks \ {c} : task'[u] = task[u]
    BY Zenon, <1>5 DEF IInv, TasksInv
  <2>5. \A u \in Tasks \ {c} : task'[u].pc = "idle"
    BY Zenon, <2>1, <2>4
  <2>6. \A u \in Tasks : task'[u].ok
    BY Zenon, <1>4, <1>6, <2>4 DEF IInv, AgreementInv, Agreement
  <2>7. Restoring'
    BY Zenon, <1>4, <1>6 DEF Restoring
  <2>8. Agreement'
    BY Zenon, <2>6, <2>7 DEF Agreement
  <2>9. RestoreAlone'
    BY <1>4, <1>6, <2>2, <2>3, <2>5 DEF RestoreAlone, RestorePcs, Tasks
  <2> QED BY Zenon, <2>8, <2>9
<1> QED BY Zenon, <1>7, <1>8, <1>9 DEF IInv

\* The record has been read: there is none, it is discarded, or it is stored.
LEMMA LoadDoneKeeps ==
    ASSUME IInv, NEW c \in Calls, LoadDone(c)
    PROVE  IInv'
<1>1. c \in Tasks /\ task[c] \in TaskRecords
  BY Zenon DEF Tasks, IInv, TasksInv
<1>2. task[c].snap \in {None, Corrupt} \cup Snapshots
  BY Zenon, <1>1 DEF TaskRecords
<1>3. PICK r :
          /\ task' = [task EXCEPT ![c] = r]
          /\ Shaped(c, r)
          /\ r.ok
          /\ \/ r = Idle /\ io' = Tail(io) /\ UNCHANGED <<material, disk>>
             \/ /\ r.pc = "discarding"
                /\ io' = Append(Tail(io), c)
                /\ disk' \in {None, disk}
                /\ UNCHANGED material
             \/ /\ r.pc = "loaded"
                /\ io' = Tail(io)
                /\ material' \in Snapshots
                /\ UNCHANGED disk
  <2>1. CASE task[c].snap = None
    <3>1. Shaped(c, Idle) /\ Idle.ok
      BY Zenon, <1>1, HarmlessRecords DEF Harmless
    <3> QED BY Zenon, <2>1, <3>1, ClientAssumption DEF LoadDone
  <2>2. CASE task[c].snap = Corrupt
    <3>1. /\ Shaped(c, Task("discarding", "restore", None))
          /\ Task("discarding", "restore", None).ok
          /\ Task("discarding", "restore", None).pc = "discarding"
      BY RestoreRecords, Zenon DEF Task
    <3>2. /\ task' = [task EXCEPT ![c] = Task("discarding", "restore", None)]
          /\ io' = Append(Tail(io), c)
          /\ disk' \in {None, disk}
          /\ UNCHANGED material
      BY Zenon, <2>2, ClientAssumption DEF LoadDone
    <3> QED BY <3>1, <3>2, Zenon
  <2>3. CASE task[c].snap \notin {None, Corrupt}
    <3>1. task[c].snap \in Snapshots
      BY Zenon, <1>2, <2>3
    <3>2. /\ Shaped(c, Task("loaded", "restore", task[c].snap))
          /\ Task("loaded", "restore", task[c].snap).ok
          /\ Task("loaded", "restore", task[c].snap).pc = "loaded"
      BY Zenon, <3>1, RestoreRecords DEF Task
    <3>3. /\ task' = [task EXCEPT ![c] = Task("loaded", "restore", task[c].snap)]
          /\ io' = Tail(io)
          /\ material' \in Snapshots
          /\ UNCHANGED disk
      BY Zenon, <2>3, <3>1 DEF LoadDone
    <3> QED BY <3>2, <3>3, ZenonT(30)
  <2> QED BY <2>1, <2>2, <2>3, Zenon
<1>4. /\ r \in TaskRecords
      /\ task' \in [Tasks -> TaskRecords]
      /\ task'[c] = r
      /\ \A u \in Tasks \ {c} : task'[u] = task[u]
  BY <1>1, <1>3, ZenonT(30) DEF IInv, TasksInv, Shaped
<1>5. io # <<>> /\ Head(io) = c /\ task[c].pc = "loading"
  BY Zenon DEF LoadDone
<1>6. Idle.pc = "idle"
  BY Zenon DEF Idle, Task
<1>7. TasksInv'
  <2>1. CASE io' = Tail(io) /\ r.pc \in {"idle", "loaded"}
    <3>1. r.pc \notin IoPcs
      BY Zenon, <2>1 DEF IoPcs
    <3> QED BY <1>1, <1>3, <1>5, <2>1, <3>1, OneSettles, PopTasks, Zenon DEF IInv
  <2>2. CASE io' = Append(Tail(io), c) /\ r.pc = "discarding"
    <3>1. CallsAgain(c)
      BY Zenon, <1>3, <1>4, <1>5, <2>2 DEF CallsAgain, IoPcs
    <3> QED BY Zenon, <1>1, <3>1, RotateTasks DEF IInv
  <2> QED BY Zenon, <1>3, <1>6, <2>1, <2>2
<1>8. disk' \in {None, disk} /\ (material' = material \/ material' \in Snapshots)
  BY Zenon, <1>3
<1>9. VarsOK' /\ TimerNeedsMaterial'
  BY <1>8, ClientAssumption, Zenon DEF IInv, VarsOK, TimerNeedsMaterial, LoadDone
<1>10. AgreementInv'
  <2> SUFFICES ASSUME Disciplined, ~disposed PROVE (RestoreAlone /\ Agreement)'
    BY Zenon DEF AgreementInv, Disciplined, LoadDone
  <2>1. /\ \A u \in Tasks \ {c} : task[u].pc = "idle"
        /\ signal = None /\ timer = None /\ io = <<c>> /\ material = None
    BY Zenon, <1>5 DEF IInv, AgreementInv, RestoreAlone, RestorePcs
  <2>2. signal' = None /\ timer' = None
    BY Zenon, <2>1 DEF LoadDone
  <2>3. Tail(io) = <<>>
    BY <2>1
  <2>4. \A u \in Tasks : task'[u].ok
    BY Zenon, <1>3, <1>4 DEF IInv, AgreementInv, Agreement
  <2>5. \A u \in Tasks \ {c} : task'[u].pc = "idle"
    BY Zenon, <1>4, <2>1
  <2>6. CASE r = Idle
    <3>1. io' = <<>> /\ material' = None
      BY Zenon, <1>3, <1>6, <2>1, <2>3, <2>6
    <3>2. \A d \in Calls : task'[d].pc \notin RestorePcs
      BY Zenon, <1>4, <1>6, <2>5, <2>6 DEF RestorePcs, Tasks
    <3> QED BY Zenon, <2>2, <2>4, <3>1, <3>2 DEF Agreement, RestoreAlone
  <2>7. CASE r.pc = "discarding"
    <3>1. io' = Append(<<>>, c) /\ material' = None
      BY Zenon, <1>3, <1>6, <2>1, <2>3, <2>7
    <3>2. io' = <<c>>
      BY <3>1
    <3>3. Restoring'
      BY Zenon, <1>4, <2>7 DEF Restoring
    <3>4. RestoreAlone'
      BY <1>4, <2>2, <2>5, <2>7, <3>1, <3>2 DEF RestoreAlone, RestorePcs, Tasks
    <3> QED BY Zenon, <2>4, <3>3, <3>4 DEF Agreement
  <2>8. CASE r.pc = "loaded"
    <3>1. io' = <<>>
      BY <1>3, <1>6, <2>3, <2>8, ZenonT(30)
    <3>2. Restoring'
      BY Zenon, <1>4, <2>8 DEF Restoring
    <3>3. RestoreAlone'
      BY <1>4, <2>2, <2>5, <2>8, <3>1 DEF RestoreAlone, RestorePcs, Tasks
    <3> QED BY Zenon, <2>4, <3>2, <3>3 DEF Agreement
  <2> QED BY Zenon, <1>3, <2>6, <2>7, <2>8
<1> QED BY Zenon, <1>7, <1>9, <1>10 DEF IInv

\* A discarded record leaves the client as it was before the restore.
LEMMA DiscardDoneKeeps ==
    ASSUME IInv, NEW c \in Calls, DiscardDone(c)
    PROVE  IInv'
<1>1. c \in Tasks /\ Harmless(c, Idle) /\ Idle.pc = "idle"
  BY HarmlessRecords, Zenon DEF Tasks, Idle, Task
<1>2. Settles(c) /\ task'[c] = Idle
  BY <1>1, OneSettles, Zenon DEF IInv, DiscardDone, Harmless
<1>3. TasksInv'
  BY Zenon, <1>1, <1>2, PopTasks DEF IInv
<1>4. VarsOK' /\ TimerNeedsMaterial'
  BY Zenon DEF IInv, VarsOK, TimerNeedsMaterial, DiscardDone
<1>5. AgreementInv'
  <2> SUFFICES ASSUME Disciplined, ~disposed PROVE (RestoreAlone /\ Agreement)'
    BY Zenon DEF AgreementInv, Disciplined, DiscardDone
  <2>1. /\ \A u \in Tasks \ {c} : task[u].pc = "idle"
        /\ signal = None /\ io = <<c>> /\ material = None
    BY Zenon DEF IInv, AgreementInv, RestoreAlone, RestorePcs, DiscardDone
  <2>2. signal' = None /\ material' = None /\ io' = Tail(io)
    BY Zenon, <2>1 DEF DiscardDone
  <2>3. io' = <<>>
    BY <2>1, <2>2
  <2>4. \A u \in Tasks \ {c} : task'[u] = task[u]
    BY Zenon DEF IInv, TasksInv, DiscardDone
  <2>5. \A u \in Tasks : task'[u].ok
    BY Zenon, <1>1, <1>2, <2>4 DEF IInv, AgreementInv, Agreement, Harmless
  <2>6. \A d \in Calls : task'[d].pc \notin RestorePcs
    BY Zenon, <1>1, <1>2, <2>1, <2>4 DEF RestorePcs, Tasks
  <2> QED BY Zenon, <2>2, <2>3, <2>5, <2>6 DEF Agreement, RestoreAlone
<1> QED BY Zenon, <1>3, <1>4, <1>5 DEF IInv

\* The restored snapshot is injected and published.
LEMMA RestoreInjectsKeeps ==
    ASSUME IInv, NEW c \in Calls, RestoreInjects(c)
    PROVE  IInv'
<1>1. c \in Tasks /\ task[c].pc = "loaded" /\ task[c].pc \notin IoPcs /\ task[c].pc \in RestorePcs
  BY ZenonT(30) DEF RestoreInjects, IoPcs, RestorePcs, Tasks
<1> DEFINE s == task[c].snap
<1>2. s \in Snapshots
  BY Zenon, <1>1 DEF IInv, TasksInv, Shaped
<1>3. signal' = s /\ disposed' = disposed /\ now' = now /\ grants' = grants
  BY Zenon DEF RestoreInjects
<1>4. Disciplined /\ ~disposed =>
          io = <<>> /\ \A u \in Tasks \ {c} : task[u].pc = "idle"
  BY Zenon, <1>1 DEF IInv, AgreementInv, RestoreAlone
<1>5. CASE BeginClear(c, "restore")
  <2>1. \A d \in Calls \ {c} : task[d].pc \in RestorePcs => ~Disciplined \/ disposed
    BY Zenon, <1>4 DEF RestorePcs, Tasks
  <2>2. signal' \in {None} \cup Snapshots
    BY Zenon, <1>2, <1>3
  <2> QED BY <1>1, <1>3, <1>5, <2>1, <2>2, BeginClearKeeps, Zenon DEF Ops
<1>6. ASSUME NEW r, Harmless(c, r), material' = s, disk' = disk, timer' = timer, QuietStep,
             task'[c] = r
      PROVE  IInv'
  <2>1. Disciplined /\ ~disposed => \A d \in Calls : task'[d].pc \notin RestorePcs
    BY Zenon, <1>4, <1>6 DEF QuietStep, Quiet, MayBecome, Harmless, RestorePcs, Tasks
  <2>2. VarsOK'
    BY Zenon, <1>2, <1>3, <1>6 DEF IInv, VarsOK
  <2>3. TimerNeedsMaterial'
    BY Zenon, <1>2, <1>3, <1>6, ClientAssumption DEF IInv, TimerNeedsMaterial
  <2> QED BY Zenon, <1>3, <1>4, <1>6, <2>1, <2>2, <2>3, PublishKeeps
<1>7. CASE /\ material' = s
           /\ task' = [task EXCEPT ![c] = Task("resumed", "restore", s)]
           /\ UNCHANGED <<disk, timer, io>>
  <2>1. Harmless(c, Task("resumed", "restore", s))
    BY Zenon, <1>2, HarmlessRecords DEF Ops
  <2>2. QuietStep
    BY <1>1, <1>7, <2>1, OneMoves, Zenon DEF IInv, MayBecome
  <2>3. task'[c] = Task("resumed", "restore", s)
    BY Zenon, <1>1, <1>7 DEF IInv, TasksInv
  <2> QED BY Zenon, <1>6, <1>7, <2>1, <2>2, <2>3
<1>8. CASE /\ material' = s
           /\ task' = [task EXCEPT ![c] = Task("waiting", "restore", None),
                                   ![Barrier] = RefreshThroughBarrier(task[Barrier], s)]
           /\ UNCHANGED <<disk, timer, io>>
  <2>1. Harmless(c, Task("waiting", "restore", None))
    BY Zenon, HarmlessRecords DEF Ops
  <2>2. MayBecome(c, Task("waiting", "restore", None))
    BY Zenon, <1>1, <2>1 DEF MayBecome
  <2>3. MayBecome(Barrier, RefreshThroughBarrier(task[Barrier], s))
    BY Zenon, <1>2, BarrierMayBecome
  <2>4. QuietStep
    BY <1>8, <2>2, <2>3, TwoMove, ZenonT(60) DEF IInv
  <2>5. task'[c] = Task("waiting", "restore", None)
    BY Zenon, <1>1, <1>8, ClientAssumption DEF IInv, TasksInv
  <2> QED BY Zenon, <1>6, <1>8, <2>1, <2>4, <2>5
<1> QED BY <1>5, <1>7, <1>8, ZenonT(30) DEF RestoreInjects

\* A restore that finds the client disposed throws.
LEMMA RestoreThrowsKeeps ==
    ASSUME IInv, NEW c \in Calls, RestoreThrows(c)
    PROVE  IInv'
<1>1. c \in Tasks /\ MayBecome(c, Idle)
  BY Zenon, HarmlessRecords DEF RestoreThrows, MayBecome, IoPcs, Tasks
<1>2. QuietStep
  BY <1>1, OneMoves, Zenon DEF IInv, RestoreThrows
<1>3. Unrestoring
  BY Zenon DEF Unrestoring, RestoreThrows
<1> QED BY <1>2, <1>3, QuietKeeps, Zenon DEF IInv, VarsOK, TimerNeedsMaterial, RestoreThrows

\* restoreState injects and publishes the snapshot of the host.
LEMMA RestoreStateKeeps ==
    ASSUME IInv, RestoreState
    PROVE  IInv'
<1>1. grants + 1 \in Nat /\ Barrier \in Tasks
  BY DEF IInv, VarsOK, Tasks
<1>2. PICK s \in Snapshots :
          /\ material' = s
          /\ signal' = s
          /\ timer' = ScheduledTimer(s)
          /\ task' = [task EXCEPT ![Barrier] = ScheduledBarrier(task[Barrier], s)]
  <2>1. PICK f \in {None, grants + 1}, e \in ExpiryDates :
            /\ material' = Granted(grants + 1, f, e)
            /\ signal' = Granted(grants + 1, f, e)
            /\ timer' = ScheduledTimer(Granted(grants + 1, f, e))
            /\ task' = [task EXCEPT ![Barrier] =
                           ScheduledBarrier(task[Barrier], Granted(grants + 1, f, e))]
    BY Zenon DEF RestoreState
  <2>2. Granted(grants + 1, f, e) \in Snapshots
    BY <1>1, GrantedFacts, Zenon DEF IInv
  <2> QED BY <2>1, <2>2, Zenon
<1>3. MayBecome(Barrier, ScheduledBarrier(task[Barrier], s))
  BY Zenon, BarrierMayBecome
<1>4. QuietStep
  BY <1>1, <1>2, <1>3, OneMoves, Zenon DEF IInv, RestoreState
<1>5. Disciplined /\ ~disposed => io = <<>> /\ ~Restoring
  BY Zenon DEF RestoreState, Disciplined
<1>6. \A c \in Calls : task'[c] = task[c]
  BY Zenon, <1>2, ClientAssumption DEF IInv, TasksInv, Tasks
<1>7. Disciplined /\ ~disposed => \A c \in Calls : task'[c].pc \notin RestorePcs
  BY Zenon, <1>5, <1>6 DEF Restoring, RestorePcs
<1>8. timer' \in {None} \cup Timers
  BY Zenon, <1>2, ScheduledTimerType DEF IInv
<1>9. VarsOK'
  BY <1>1, <1>2, <1>8, Zenon DEF IInv, VarsOK, RestoreState
<1>10. TimerNeedsMaterial'
  BY Zenon, <1>2, ClientAssumption DEF TimerNeedsMaterial, RestoreState
<1> QED BY <1>2, <1>4, <1>5, <1>7, <1>9, <1>10, PublishKeeps, Zenon DEF RestoreState

-----------------------------------------------------------------------------
(* The life of the client, and the theorems.                               *)

\* A client is constructed empty, whatever the record holds.
LEMMA FreshClient ==
    ASSUME material = None, signal = None, timer = None, disposed = FALSE,
           task = [t \in Tasks |-> Idle], io = <<>>,
           disk \in {None, Corrupt} \cup Snapshots, now \in Nat, grants \in Nat
    PROVE  IInv
<1>1. \A t \in Tasks : Harmless(t, Idle) /\ task[t] = Idle
  BY Zenon, HarmlessRecords
<1>2. Idle.pc = "idle"
  BY Zenon DEF Idle, Task
<1>3. io \in Seq(Tasks) /\ Len(io) = 0
  BY Zenon, EmptyQueue
<1>4. \A t \in Tasks : task[t].pc \notin IoPcs \cup RestorePcs
  BY Zenon, <1>1 DEF Harmless
<1>5. QueueNames
  BY <1>3, <1>4, SMTT(30) DEF QueueNames
<1>6. TasksInv
  BY Zenon, <1>1, <1>3, <1>5 DEF TasksInv, Harmless, Shaped
<1>7. VarsOK /\ TimerNeedsMaterial
  BY Zenon DEF VarsOK, TimerNeedsMaterial
<1>8. AgreementInv
  BY Zenon, <1>1, <1>4 DEF AgreementInv, Agreement, RestoreAlone, Harmless, Tasks
<1> QED BY Zenon, <1>6, <1>7, <1>8 DEF IInv

\* A closed page and the client of the next one.
LEMMA ConstructKeeps ==
    ASSUME IInv, Construct
    PROVE  IInv'
<1>1. \A t \in Tasks : Harmless(t, Idle) /\ task'[t] = Idle
  BY Zenon, HarmlessRecords DEF Construct
<1>2. io' \in Seq(Tasks) /\ io' = <<>> /\ Len(io') = 0
  BY Zenon, EmptyQueue DEF Construct
<1>3. \A t \in Tasks : task'[t].pc \notin IoPcs \cup RestorePcs
  BY Zenon, <1>1 DEF Harmless
<1>4. QueueNames'
  BY <1>2, <1>3, SMTT(30) DEF QueueNames
<1>5. task' \in [Tasks -> TaskRecords]
  BY Zenon, <1>1 DEF Construct, Harmless, Shaped
<1>6. TasksInv'
  BY Zenon, <1>1, <1>2, <1>4, <1>5 DEF TasksInv, Harmless
<1>7. VarsOK' /\ TimerNeedsMaterial'
  BY Zenon DEF IInv, VarsOK, TimerNeedsMaterial, Construct
<1>8. AgreementInv'
  BY Zenon, <1>1, <1>2, <1>3 DEF AgreementInv, Agreement, RestoreAlone, Harmless, Tasks, Construct
<1> QED BY Zenon, <1>6, <1>7, <1>8 DEF IInv

\* Steps that leave the tasks and the queue alone: clearPersistedState, dispose
\* and the clock, and stuttering.
LEMMA AsideKeeps ==
    ASSUME IInv, ClearPersistedState \/ Dispose \/ Tick \/ UNCHANGED vars
    PROVE  IInv'
<1>1. task' = task /\ io' = io
  BY Zenon DEF ClearPersistedState, Dispose, Tick, vars
<1>2. TasksInv'
  BY Zenon, <1>1 DEF IInv, TasksInv, QueueNames
<1>3. VarsOK'
  <2>1. CASE ClearPersistedState
    BY Zenon, <2>1 DEF IInv, VarsOK, ClearPersistedState
  <2>2. CASE Dispose
    BY Zenon, <2>2 DEF IInv, VarsOK, Dispose
  <2>3. CASE Tick
    BY <2>3, SMTT(30) DEF IInv, VarsOK, Tick
  <2>4. CASE UNCHANGED vars
    BY Zenon, <2>4 DEF IInv, VarsOK, vars
  <2> QED BY Zenon, <2>1, <2>2, <2>3, <2>4
<1>4. TimerNeedsMaterial'
  BY Zenon DEF IInv, TimerNeedsMaterial, ClearPersistedState, Dispose, Tick, vars
<1>5. disposed' \/ (material' = material /\ signal' = signal /\ timer' = timer /\ disposed' = disposed)
  BY Zenon DEF ClearPersistedState, Dispose, Tick, vars
<1>6. AgreementInv'
  BY <1>1, <1>5, Zenon DEF IInv, AgreementInv, RestoreAlone, Agreement, Restoring
<1> QED BY Zenon, <1>2, <1>3, <1>4, <1>6 DEF IInv

\* Every step keeps the invariant.
LEMMA NextKeeps ==
    ASSUME IInv, [Next]_vars
    PROVE  IInv'
<1>1. ASSUME NEW t \in Tasks, FlowStep(t) PROVE IInv'
  BY Zenon, <1>1, RequestFailedKeeps, RefreshAnsweredKeeps, RefreshAppliesKeeps, SaveDoneKeeps,
     ClearDoneKeeps DEF FlowStep
<1>2. ASSUME NEW c \in Calls, CallStep(c) PROVE IInv'
  BY Zenon, <1>2, ExchangeAnsweredKeeps, CallbackAppliesKeeps, ResumeKeeps, LoadDoneKeeps,
     DiscardDoneKeeps, RestoreInjectsKeeps, RestoreThrowsKeeps DEF CallStep
<1>3. ASSUME NEW c \in Calls, NewCall(c) PROVE IInv'
  BY Zenon, <1>3, HandleCallbackKeeps, RefreshKeeps, ClearStateKeeps, ClearMemoryKeeps,
     EnsureInBackgroundKeeps, EnsureWithoutRefreshKeeps, EnsureByRefreshKeeps,
     RestorePersistedStateKeeps DEF NewCall
<1>4. CASE BarrierReturns \/ BarrierFails \/ TimerFires \/ RestoreState \/ Construct
  BY Zenon, <1>4, BarrierReturnsKeeps, BarrierFailsKeeps, TimerFiresKeeps, RestoreStateKeeps,
     ConstructKeeps
<1>5. CASE ClearPersistedState \/ Dispose \/ Tick \/ UNCHANGED vars
  BY Zenon, <1>5, AsideKeeps
<1> QED BY Zenon, <1>1, <1>2, <1>3, <1>4, <1>5 DEF Next

\* The invariant holds in every reachable state.
LEMMA Invariance == Spec => []IInv
<1>1. ASSUME Init PROVE IInv
  <2>1. /\ material = None /\ signal = None /\ timer = None /\ disposed = FALSE
        /\ task = [t \in Tasks |-> Idle] /\ io = <<>>
    BY Zenon, <1>1 DEF Init
  <2>2. disk \in {None, Corrupt} \cup Snapshots /\ now \in Nat /\ grants \in Nat
    BY Zenon, <1>1 DEF Init
  <2> QED BY <2>1, <2>2, FreshClient, Zenon
<1>2. IInv /\ [Next]_vars => IInv'
  BY Zenon, NextKeeps
<1> QED BY <1>1, <1>2, PTL DEF Spec

\* Whatever calls overlap, fail or are cut off by a closed page, every variable
\* of the client has its type, and the refresh timer of _scheduleRefresh never
\* outlives the auth material or the client.
THEOREM CoreCorrect == Spec => [](TypeOK /\ TimerNeedsMaterial)
<1>1. IInv => TypeOK /\ TimerNeedsMaterial
  BY Zenon DEF IInv, VarsOK, TasksInv, TypeOK
<1> QED BY <1>1, Invariance, PTL

\* With a host that restores first and a store that does not fail, the state
\* signal shows exactly the auth material whenever no store operation of the
\* controller is pending: no overlap of callbacks, refreshes, clears and
\* ensures leaves the signal behind.
THEOREM SignalCorrect == Spec => [](Disciplined => SignalExposesMaterial)
<1>1. IInv => (Disciplined => SignalExposesMaterial)
  BY Zenon DEF IInv, AgreementInv, Agreement, SignalExposesMaterial, AtRest
<1> QED BY <1>1, Invariance, PTL

-----------------------------------------------------------------------------
(* The timer.  A material that the timer does not track yet has a task that *)
(* will schedule it: one that saves, has loaded a record or returns from a *)
(* restore.                                                                *)

\* Timer tm is the one that snapshot s needs at time n.
Tracked(tm, s, n) ==
    Refreshable(s) /\ getTokenFreshness(s, n) = "fresh" =>
        tm # None /\ tm.refreshAt = RefreshAt(s)

\* A task with record r is going to schedule the material.
Owes(r) ==
    \/ r.pc = "saving" /\ r.ok
    \/ r.pc = "loaded"
    \/ r.pc = "resumed" /\ r.op = "restore" /\ r.snap # None

TimerInv ==
    ~StoreFails /\ ~disposed =>
        Tracked(timer, material, now) \/ \E t \in Tasks : Owes(task[t])

\* A fresh token has a refresh time that lies ahead, and was fresh before.
LEMMA FreshFacts ==
    ASSUME NEW s \in Snapshots, NEW n \in Nat
    PROVE  /\ Finite(s.expiresAt) => UsableUntil(s) \in Int /\ RefreshAt(s) \in Int
           /\ getTokenFreshness(s, n) = "fresh" => Finite(s.expiresAt) /\ RefreshAt(s) > n
           /\ getTokenFreshness(s, n + 1) = "fresh" => getTokenFreshness(s, n) = "fresh"
<1>1. s.expiresAt \in Dates /\ s.issuedAt \in Dates
  BY Zenon DEF Snapshots
<1>2. Finite(s.expiresAt) => UsableUntil(s) \in Int /\ RefreshAt(s) \in Int
  BY <1>1, FreshnessAssumption
  DEF RefreshAt, UsableUntil, ShortTokenCap, Least, Finite, Dates
<1>3. CASE Finite(s.expiresAt)
  <2>1. s.expiresAt # None /\ s.expiresAt # Invalid
    BY <1>3, FreshnessAssumption DEF Finite
  <2>2. \A m \in Nat : getTokenFreshness(s, m) = "fresh" <=> UsableUntil(s) > m /\ RefreshAt(s) > m
    BY <1>2, <1>3, <2>1 DEF getTokenFreshness
  <2> QED BY <1>2, <1>3, <2>2
<1>4. CASE ~Finite(s.expiresAt)
  <2>1. s.expiresAt = None \/ s.expiresAt = Invalid
    BY Zenon, <1>1, <1>4 DEF Dates, Finite
  <2>2. \A m \in Nat : getTokenFreshness(s, m) # "fresh"
    BY Zenon, <1>4, <2>1, FreshnessAssumption DEF getTokenFreshness
  <2> QED BY <1>4, <2>2
<1> QED BY Zenon, <1>3, <1>4

\* _scheduleRefresh leaves the timer that the snapshot needs.
LEMMA Schedules ==
    ASSUME VarsOK, NEW s \in {None} \cup Snapshots, ~disposed
    PROVE  Tracked(ScheduledTimer(s), s, now)
<1> SUFFICES ASSUME Refreshable(s), getTokenFreshness(s, now) = "fresh"
             PROVE  ScheduledTimer(s) # None /\ ScheduledTimer(s).refreshAt = RefreshAt(s)
  BY Zenon DEF Tracked
<1>1. s \in Snapshots /\ now \in Nat
  BY Zenon DEF Refreshable, VarsOK
<1>2. Finite(s.expiresAt) /\ RefreshAt(s) > now /\ RefreshAt(s) \in Int
  BY Zenon, <1>1, FreshFacts
<1>3. ~DueNow(s)
  BY <1>1, <1>2 DEF DueNow
<1>4. Least(RefreshAt(s), now + MaxSliceMs) \in Int
  BY <1>1, <1>2, ClientAssumption DEF Least
<1>5. ScheduledTimer(s) = [fireAt |-> Least(RefreshAt(s), now + MaxSliceMs),
                           refreshAt |-> RefreshAt(s)]
  BY Zenon, <1>3 DEF ScheduledTimer
<1>6. ScheduledTimer(s) \in Timers
  BY <1>2, <1>4, <1>5, SMTT(30) DEF Timers
<1> QED BY <1>5, <1>6, ClientAssumption

\* A step that leaves the timer, the material and the tasks that owe a
\* scheduling alone.
LEMMA TimerStands ==
    ASSUME TimerInv, timer' = timer, material' = material, disposed' = disposed, now' = now,
           \A t \in Tasks : Owes(task[t]) => Owes(task'[t])
    PROVE  TimerInv'
<1> SUFFICES ASSUME ~StoreFails, ~disposed
             PROVE  Tracked(timer, material, now) \/ \E t \in Tasks : Owes(task'[t])
  BY Zenon DEF TimerInv
<1> QED BY Zenon DEF TimerInv

\* A task that owes nothing moves, and so may the barrier.
LEMMA DebtsStand ==
    ASSUME TasksInv, NEW t \in Tasks, ~Owes(task[t]), NEW r, NEW b,
           Owes(task[Barrier]) => Owes(b),
           \/ task' = [task EXCEPT ![t] = r]
           \/ task' = [task EXCEPT ![Barrier] = b]
           \/ task' = [task EXCEPT ![t] = r, ![Barrier] = b]
    PROVE  \A u \in Tasks : Owes(task[u]) => Owes(task'[u])
<1>1. Barrier \in Tasks
  BY Zenon DEF Tasks
<1>2. \A u \in Tasks : u # t /\ u # Barrier => task'[u] = task[u]
  BY Zenon DEF TasksInv
<1>3. t # Barrier => task'[Barrier] = task[Barrier] \/ task'[Barrier] = b
  BY Zenon, <1>1 DEF TasksInv
<1> QED BY Zenon, <1>2, <1>3

\* Joining or starting the shared refresh takes no debt away.
LEMMA BarrierDebts ==
    ASSUME NEW s
    PROVE  /\ Owes(task[Barrier]) => Owes(RefreshThroughBarrier(task[Barrier], s))
           /\ Owes(task[Barrier]) => Owes(ScheduledBarrier(task[Barrier], s))
<1>1. task[Barrier].pc = "idle" => ~Owes(task[Barrier])
  BY Zenon DEF Owes
<1>2. Owes(task[Barrier]) => Owes(RefreshThroughBarrier(task[Barrier], s))
  BY Zenon, <1>1 DEF RefreshThroughBarrier
<1> QED BY Zenon, <1>2 DEF ScheduledBarrier

\* The promise of the barrier settles: its joiners owe at most more than before.
LEMMA SettleDebts ==
    ASSUME NEW s, SettleBarrier(s), ~Owes(task[Barrier])
    PROVE  \A u \in Tasks : Owes(task[u]) => Owes(task'[u])
<1>1. \A u \in Tasks : task[u].pc = "waiting" => ~Owes(task[u])
  BY Zenon DEF Owes
<1>2. \A u \in Tasks : u = Barrier \/ task[u].pc = "waiting" \/ task'[u] = task[u]
  BY Zenon DEF SettleBarrier
<1> QED BY Zenon, <1>1, <1>2

\* The steps of calls and flows that touch neither the timer nor the material.
LEMMA FlowsKeepTimer ==
    ASSUME IInv, TimerInv, NEW t \in Tasks,
           \/ RequestFailed(t) \/ RefreshAnswered(t) \/ ExchangeAnswered(t)
           \/ HandleCallback(t) \/ Refresh(t) \/ DiscardDone(t) \/ RestorePersistedState(t)
    PROVE  TimerInv'
<1>1. /\ task[t].pc \in {"exchange", "request", "metadata", "idle", "discarding"}
      /\ timer' = timer /\ material' = material /\ disposed' = disposed /\ now' = now
  BY Zenon DEF RequestFailed, RefreshAnswered, ExchangeAnswered, HandleCallback, Refresh,
         DiscardDone, RestorePersistedState, MayCall
<1>2. ~Owes(task[t])
  BY Zenon, <1>1 DEF Owes
<1>3. \E r : task' = [task EXCEPT ![t] = r]
  BY Zenon DEF RequestFailed, RefreshAnswered, ExchangeAnswered, HandleCallback, Refresh,
         DiscardDone, RestorePersistedState
<1>4. PICK r : task' = [task EXCEPT ![t] = r]
  BY <1>3, Zenon
<1>5. \A u \in Tasks : Owes(task[u]) => Owes(task'[u])
  BY <1>2, <1>4, DebtsStand, Zenon DEF IInv
<1> QED BY Zenon, <1>1, <1>5, TimerStands

\* ensureAuthForResource only starts or joins the shared refresh.
LEMMA EnsuresKeepTimer ==
    ASSUME IInv, TimerInv, NEW c \in Calls, EnsureInBackground(c) \/ EnsureByRefresh(c)
    PROVE  TimerInv'
<1>1. /\ task[c].pc = "idle" /\ c \in Tasks
      /\ timer' = timer /\ material' = material /\ disposed' = disposed /\ now' = now
  BY Zenon DEF EnsureInBackground, EnsureByRefresh, MayCall, Tasks
<1>2. ~Owes(task[c])
  BY Zenon, <1>1 DEF Owes
<1> DEFINE b == RefreshThroughBarrier(task[Barrier], material)
           r == Task("waiting", "ensure", None)
<1>3. Owes(task[Barrier]) => Owes(b)
  BY Zenon, BarrierDebts
<1>4. task' = [task EXCEPT ![Barrier] = b] \/ task' = [task EXCEPT ![c] = r, ![Barrier] = b]
  BY Zenon DEF EnsureInBackground, EnsureByRefresh
<1> HIDE DEF b, r
<1>5. \A u \in Tasks : Owes(task[u]) => Owes(task'[u])
  BY <1>1, <1>2, <1>3, <1>4, DebtsStand, Zenon DEF IInv
<1> QED BY Zenon, <1>1, <1>5, TimerStands

\* A settled clear leaves the debts of the others.
LEMMA ClearDoneKeepsTimer ==
    ASSUME IInv, TimerInv, NEW t \in Tasks, ClearDone(t)
    PROVE  TimerInv'
<1>1. ~Owes(task[t])
  BY Zenon DEF ClearDone, Owes
<1>2. \/ \E r : task' = [task EXCEPT ![t] = r]
      \/ t = Barrier /\ SettleBarrier(None)
  BY Zenon DEF ClearDone
<1>3. \A u \in Tasks : Owes(task[u]) => Owes(task'[u])
  <2>1. CASE \E r : task' = [task EXCEPT ![t] = r]
    <3>1. PICK r : task' = [task EXCEPT ![t] = r]
      BY <2>1, Zenon
    <3> QED BY <1>1, <3>1, DebtsStand, Zenon DEF IInv
  <2>2. CASE t = Barrier /\ SettleBarrier(None)
    BY Zenon, <1>1, <2>2, SettleDebts
  <2> QED BY Zenon, <1>2, <2>1, <2>2
<1> QED BY Zenon, <1>3, TimerStands DEF ClearDone

\* The barrier returns its result to its joiners.
LEMMA BarrierReturnsKeepsTimer ==
    ASSUME IInv, TimerInv, BarrierReturns
    PROVE  TimerInv'
<1>1. ~Owes(task[Barrier])
  BY Zenon DEF BarrierReturns, Owes
<1>2. \A u \in Tasks : Owes(task[u]) => Owes(task'[u])
  BY Zenon, <1>1, SettleDebts DEF BarrierReturns
<1> QED BY Zenon, <1>2, TimerStands DEF BarrierReturns

\* A cleared material needs no timer.
LEMMA ClearedNeedsNone ==
    ASSUME material' = None PROVE TimerInv'
    BY Zenon DEF TimerInv, Tracked, Refreshable

\* A scheduled material has its timer.
LEMMA ScheduledIsTracked ==
    ASSUME VarsOK, material \in {None} \cup Snapshots, timer' = ScheduledTimer(material),
           material' = material, disposed' = disposed, now' = now
    PROVE  TimerInv'
<1>1. ~disposed => Tracked(timer', material', now')
  BY Zenon, Schedules
<1> QED BY Zenon, <1>1 DEF TimerInv

\* A settled save schedules the current material.
LEMMA SaveDoneKeepsTimer ==
    ASSUME IInv, TimerInv, NEW t \in Tasks, SaveDone(t)
    PROVE  TimerInv'
<1>1. CASE task[t].ok
  BY <1>1, ScheduledIsTracked, Zenon DEF SaveDone, IInv, VarsOK
<1>2. CASE ~task[t].ok
  <2>1. ~Owes(task[t])
    BY <1>2, Zenon DEF SaveDone, Owes
  <2>2. task' = [task EXCEPT ![t] = Throw(t)]
    BY Zenon, <1>2 DEF SaveDone
  <2>3. \A u \in Tasks : Owes(task[u]) => Owes(task'[u])
    BY <2>1, <2>2, DebtsStand, ZenonT(60) DEF IInv
  <2> QED BY Zenon, <1>2, <2>3, TimerStands DEF SaveDone
<1> QED BY Zenon, <1>1, <1>2

\* A task that applies a snapshot owes its scheduling until the save settles.
LEMMA AppliedIsOwed ==
    ASSUME IInv, NEW t \in Tasks, NEW s, NEW op, ApplySnapshot(t, s, op)
    PROVE  TimerInv'
<1> SUFFICES ASSUME ~StoreFails PROVE \E u \in Tasks : Owes(task'[u])
  BY Zenon DEF TimerInv
<1>1. PICK ok \in StoreResults : task' = [task EXCEPT ![t] = StoreTask("saving", op, s, ok)]
  BY Zenon DEF ApplySnapshot
<1>2. ok = TRUE
  BY Zenon DEF StoreResults
<1>3. task'[t] = StoreTask("saving", op, s, TRUE)
  BY Zenon, <1>1, <1>2 DEF IInv, TasksInv
<1> QED BY <1>3 DEF Owes, StoreTask

\* The steps that clear the material, or apply a callback or a refresh.
LEMMA WritesKeepTimer ==
    ASSUME IInv, NEW t \in Tasks,
           \/ RefreshApplies(t) \/ CallbackApplies(t)
           \/ ClearState(t) \/ ClearMemory(t) \/ EnsureWithoutRefresh(t)
    PROVE  TimerInv'
<1>1. CASE RefreshApplies(t) \/ CallbackApplies(t)
  BY <1>1, AppliedIsOwed, Zenon DEF RefreshApplies, CallbackApplies
<1>2. CASE ClearState(t) \/ ClearMemory(t) \/ EnsureWithoutRefresh(t)
  <2>1. material' = None
    BY <1>2, Zenon DEF ClearState, ClearMemory, EnsureWithoutRefresh, BeginClear
  <2> QED BY Zenon, <2>1, ClearedNeedsNone
<1> QED BY Zenon, <1>1, <1>2

\* The barrier fails: the material is cleared, unless the client is disposed.
LEMMA BarrierFailsKeepsTimer ==
    ASSUME BarrierFails PROVE TimerInv'
<1>1. CASE disposed
  BY Zenon, <1>1 DEF BarrierFails, TimerInv
<1>2. CASE ~disposed
  BY Zenon, <1>2, ClearedNeedsNone DEF BarrierFails, BeginClear
<1> QED BY Zenon, <1>1, <1>2

\* A restore that returns schedules the material; any other joiner owes nothing.
LEMMA ResumeKeepsTimer ==
    ASSUME IInv, TimerInv, NEW c \in Calls, Resume(c)
    PROVE  TimerInv'
<1>1. c \in Tasks
  BY Zenon DEF Tasks
<1>2. CASE task[c].op = "restore" /\ task[c].snap # None
  BY <1>2, ScheduledIsTracked, Zenon DEF Resume, IInv, VarsOK
<1>3. CASE ~(task[c].op = "restore" /\ task[c].snap # None)
  <2>1. ~Owes(task[c])
    BY Zenon, <1>3 DEF Owes, Resume
  <2>2. task' = [task EXCEPT ![c] = Idle]
    BY Zenon, <1>3 DEF Resume
  <2>3. \A u \in Tasks : Owes(task[u]) => Owes(task'[u])
    BY <1>1, <2>1, <2>2, DebtsStand, Zenon DEF IInv
  <2> QED BY Zenon, <1>3, <2>3, TimerStands DEF Resume
<1> QED BY Zenon, <1>2, <1>3

\* A record that was read and stored is owed its scheduling.
LEMMA LoadDoneKeepsTimer ==
    ASSUME IInv, TimerInv, NEW c \in Calls, LoadDone(c)
    PROVE  TimerInv'
<1>1. c \in Tasks /\ timer' = timer /\ disposed' = disposed /\ now' = now
  BY Zenon DEF Tasks, LoadDone
<1>2. CASE task[c].snap \in {None, Corrupt}
  <2>1. material' = material
    BY Zenon, <1>2 DEF LoadDone
  <2>2. ~Owes(task[c])
    BY Zenon DEF LoadDone, Owes
  <2>3. \E r : task' = [task EXCEPT ![c] = r]
    BY Zenon DEF LoadDone
  <2>4. PICK r : task' = [task EXCEPT ![c] = r]
    BY <2>3, Zenon
  <2>5. \A u \in Tasks : Owes(task[u]) => Owes(task'[u])
    BY <1>1, <2>2, <2>4, DebtsStand, Zenon DEF IInv
  <2> QED BY Zenon, <1>1, <2>1, <2>5, TimerStands
<1>3. CASE task[c].snap \notin {None, Corrupt}
  <2>1. task'[c] = Task("loaded", "restore", task[c].snap)
    BY <1>1, <1>3, Zenon DEF LoadDone, IInv, TasksInv
  <2>2. Owes(task'[c])
    BY <2>1 DEF Owes, Task
  <2> QED BY Zenon, <1>1, <2>2 DEF TimerInv
<1> QED BY Zenon, <1>2, <1>3

\* A restored snapshot is scheduled when the restore returns, is not fresh and
\* left to the shared refresh, or is cleared.
LEMMA RestoreInjectsKeepsTimer ==
    ASSUME IInv, NEW c \in Calls, RestoreInjects(c)
    PROVE  TimerInv'
<1>1. c \in Tasks /\ task[c].snap \in Snapshots /\ task[c].snap # None
  BY ClientAssumption, SMTT(30) DEF Tasks, IInv, TasksInv, Shaped, RestoreInjects
<1> DEFINE s == task[c].snap
<1>2. CASE ~Stale(s)
  <2>1. task' = [task EXCEPT ![c] = Task("resumed", "restore", s)]
    BY Zenon, <1>2 DEF RestoreInjects
  <2>2. task'[c] = Task("resumed", "restore", s)
    BY Zenon, <1>1, <2>1 DEF IInv, TasksInv
  <2>3. Owes(task'[c])
    BY <1>1, <2>2, SMTT(30) DEF Owes, Task
  <2> QED BY <1>1, <2>3, Zenon DEF TimerInv
<1>3. CASE Stale(s) /\ s.refresh = None
  BY Zenon, <1>3, ClearedNeedsNone DEF RestoreInjects, BeginClear
<1>4. CASE Stale(s) /\ s.refresh # None
  <2>1. material' = s /\ now' = now
    BY <1>4, Zenon DEF RestoreInjects
  <2>2. getTokenFreshness(s, now) # "fresh"
    BY Zenon, <1>4 DEF Stale
  <2> QED BY Zenon, <2>1, <2>2 DEF TimerInv, Tracked
<1> QED BY Zenon, <1>2, <1>3, <1>4

\* A timer that fires is set again, or its material is due and fresh no more.
LEMMA TimerFiresKeepsTimer ==
    ASSUME IInv, TimerInv, TimerFires
    PROVE  TimerInv'
<1>1. material \in {None} \cup Snapshots /\ now \in Nat
  BY Zenon DEF IInv, VarsOK
<1>2. /\ material' = material /\ disposed' = disposed /\ now' = now /\ timer # None
  BY Zenon DEF TimerFires
<1>3. CASE timer.refreshAt > now
  BY Zenon, <1>1, <1>2, <1>3, ScheduledIsTracked DEF TimerFires, IInv
<1>4. CASE ~(timer.refreshAt > now)
  <2>1. Tracked(timer, material, now) => Tracked(timer', material, now)
    <3> SUFFICES ASSUME Tracked(timer, material, now), Refreshable(material),
                        getTokenFreshness(material, now) = "fresh"
                 PROVE  FALSE
      BY Zenon DEF Tracked
    <3>1. material \in Snapshots
      BY Zenon, <1>1 DEF Refreshable
    <3>2. RefreshAt(material) > now
      BY Zenon, <1>1, <3>1, FreshFacts
    <3> QED BY Zenon, <1>4, <3>2 DEF Tracked
  <2>2. \A u \in Tasks : Owes(task[u]) => Owes(task'[u])
    <3>1. task' = [task EXCEPT ![Barrier] = RefreshThroughBarrier(task[Barrier], material)]
      BY Zenon, <1>4 DEF TimerFires
    <3>2. Owes(task[Barrier]) => Owes(RefreshThroughBarrier(task[Barrier], material))
      BY Zenon, BarrierDebts
    <3>3. Barrier \in Tasks
      BY Zenon DEF Tasks
    <3>4. /\ task'[Barrier] = RefreshThroughBarrier(task[Barrier], material)
          /\ \A u \in Tasks : u # Barrier => task'[u] = task[u]
      BY Zenon, <3>1, <3>3 DEF IInv, TasksInv
    <3> QED BY Zenon, <3>2, <3>4
  <2> QED BY Zenon, <1>2, <2>1, <2>2 DEF TimerInv
<1> QED BY Zenon, <1>3, <1>4

\* restoreState schedules the snapshot that the host supplies.
LEMMA RestoreStateKeepsTimer ==
    ASSUME IInv, RestoreState
    PROVE  TimerInv'
<1>1. PICK refresh \in {None, grants + 1}, e \in ExpiryDates :
          /\ material' = Granted(grants + 1, refresh, e)
          /\ timer' = ScheduledTimer(Granted(grants + 1, refresh, e))
  BY Zenon DEF RestoreState
<1>2. VarsOK /\ grants + 1 \in Nat /\ refresh \in {None} \cup Nat
  BY DEF IInv, VarsOK
<1>3. Granted(grants + 1, refresh, e) \in Snapshots
  BY Zenon, <1>2, GrantedFacts
<1>4. ~disposed /\ disposed' = disposed /\ now' = now
  BY Zenon DEF RestoreState
<1>5. Tracked(timer', material', now)
  BY Zenon, <1>1, <1>2, <1>3, <1>4, Schedules
<1> QED BY Zenon, <1>4, <1>5 DEF TimerInv

\* A new client, a disposed one, the clock and the record.
LEMMA AsideKeepsTimer ==
    ASSUME IInv, TimerInv,
           \/ Construct \/ Dispose \/ ClearPersistedState \/ Tick \/ UNCHANGED vars
           \/ \E c \in Calls : RestoreThrows(c)
    PROVE  TimerInv'
<1>1. CASE Construct
  BY Zenon, <1>1, ClearedNeedsNone DEF Construct
<1>2. CASE Dispose \/ \E c \in Calls : RestoreThrows(c)
  BY <1>2 DEF Dispose, RestoreThrows, TimerInv
<1>3. CASE ClearPersistedState \/ UNCHANGED vars
  <2>1. /\ timer' = timer /\ material' = material /\ disposed' = disposed /\ now' = now
        /\ task' = task
    BY Zenon, <1>3 DEF ClearPersistedState, vars
  <2> QED BY Zenon, <2>1, TimerStands
<1>4. CASE Tick
  <2>1. /\ timer' = timer /\ material' = material /\ disposed' = disposed /\ task' = task
        /\ now' = now + 1 /\ now \in Nat /\ material \in {None} \cup Snapshots
    BY Zenon, <1>4 DEF Tick, IInv, VarsOK
  <2>2. Tracked(timer, material, now) => Tracked(timer, material, now + 1)
    BY Zenon, <2>1, FreshFacts DEF Tracked, Refreshable
  <2> QED BY Zenon, <2>1, <2>2 DEF TimerInv
<1> QED BY Zenon, <1>1, <1>2, <1>3, <1>4

\* Every step keeps the timer aimed, or its scheduling owed.
LEMMA TimerKept ==
    ASSUME IInv, TimerInv, [Next]_vars
    PROVE  TimerInv'
<1>1. ASSUME NEW t \in Tasks, FlowStep(t) PROVE TimerInv'
  BY Zenon, <1>1, FlowsKeepTimer, WritesKeepTimer, SaveDoneKeepsTimer, ClearDoneKeepsTimer DEF FlowStep
<1>2. ASSUME NEW c \in Calls, CallStep(c) PROVE TimerInv'
  <2>1. c \in Tasks
    BY Zenon DEF Tasks
  <2> QED BY Zenon, <1>2, <2>1, FlowsKeepTimer, WritesKeepTimer, ResumeKeepsTimer, LoadDoneKeepsTimer,
             RestoreInjectsKeepsTimer, AsideKeepsTimer DEF CallStep
<1>3. ASSUME NEW c \in Calls, NewCall(c) PROVE TimerInv'
  <2>1. c \in Tasks
    BY Zenon DEF Tasks
  <2> QED BY Zenon, <1>3, <2>1, FlowsKeepTimer, WritesKeepTimer, EnsuresKeepTimer DEF NewCall
<1>4. CASE BarrierReturns \/ BarrierFails \/ TimerFires \/ RestoreState
  BY Zenon, <1>4, BarrierReturnsKeepsTimer, BarrierFailsKeepsTimer, TimerFiresKeepsTimer,
     RestoreStateKeepsTimer
<1>5. CASE ClearPersistedState \/ Dispose \/ Tick \/ Construct \/ UNCHANGED vars
  BY Zenon, <1>5, AsideKeepsTimer
<1> QED BY Zenon, <1>1, <1>2, <1>3, <1>4, <1>5 DEF Next

\* With a store that does not fail, and whatever calls of the client overlap, a
\* fresh token that can be refreshed has a timer aimed at its own refresh time
\* once no store operation and no restore is pending: the scheduling that
\* follows each write always reads the material of that moment.
THEOREM TimerCorrect ==
    ASSUME ~StoreFails
    PROVE  Spec => []TimerTracksMaterial
<1>1. Init => TimerInv
  BY Zenon DEF Init, TimerInv, Tracked, Refreshable
<1>2. IInv /\ TimerInv /\ [Next]_vars => TimerInv'
  BY Zenon, TimerKept
<1>3. ASSUME IInv, TimerInv PROVE TimerTracksMaterial
  <2> SUFFICES ASSUME AtRest, ~disposed, ~RestoreReturning, Refreshable(material),
                      getTokenFreshness(material, now) = "fresh"
               PROVE  timer # None /\ timer.refreshAt = RefreshAt(material)
    BY Zenon, <1>3 DEF TimerTracksMaterial, IInv
  <2>1. Len(io) = 0
    BY Zenon, EmptyQueue DEF AtRest
  <2>2. \A t \in Tasks : task[t].pc # "saving"
    BY <1>3, <2>1, SMTT(30) DEF IInv, TasksInv, QueueNames, IoPcs
  <2>3. \A t \in Tasks : task[t].pc # "loaded"
    BY <1>3, Zenon DEF IInv, TasksInv, Shaped, RestorePcs, AtRest, Restoring, Tasks
  <2>4. \A t \in Tasks : ~(task[t].pc = "resumed" /\ task[t].op = "restore" /\ task[t].snap # None)
    BY <1>3, Zenon DEF IInv, TasksInv, Shaped, RestoreReturning, Tasks
  <2> QED BY <1>3, <2>2, <2>3, <2>4, Zenon DEF TimerInv, Owes, Tracked
<1> QED BY <1>1, <1>2, <1>3, Invariance, PTL DEF Spec

-----------------------------------------------------------------------------
(* The logins that tokens descend from, in the frontend mode.              *)

\* The refresh token of s, if any, descends from the login of its access token.
OneLogin(s) == s \in Snapshots => s.refresh = None \/ s.refresh = s.login

LoginInv ==
    /\ OneLogin(material) /\ OneLogin(disk)
    /\ \A t \in Tasks : OneLogin(task[t].snap)

\* The records that a step gives to a task carry a snapshot with one login if
\* what they are made of has one.
LEMMA OneLoginRecords ==
    /\ OneLogin(None) /\ OneLogin(Corrupt) /\ OneLogin(Idle.snap)
    /\ \A t : OneLogin(Throw(t).snap)
    /\ \A pc, op, s : OneLogin(s) => OneLogin(Task(pc, op, s).snap)
    /\ \A pc, op, s, ok : OneLogin(s) => OneLogin(StoreTask(pc, op, s, ok).snap)
    /\ \A t, s : OneLogin(s) => OneLogin(Return(t, s).snap)
    /\ \A s : OneLogin(s) => OneLogin(RefreshCall(s).snap)
<1>1. OneLogin(None) /\ OneLogin(Corrupt)
  BY Zenon, ClientAssumption DEF OneLogin
<1>2. OneLogin(Idle.snap) /\ \A t : OneLogin(Throw(t).snap)
  BY Zenon, <1>1 DEF Idle, Throw, Task
<1>3. \A pc, op, s : Task(pc, op, s).snap = s
  BY Zenon DEF Task
<1>4. \A pc, op, s, ok : StoreTask(pc, op, s, ok).snap = s
  BY Zenon DEF StoreTask
<1>5. \A t, s : OneLogin(s) => OneLogin(Return(t, s).snap)
  BY Zenon, <1>2, <1>3 DEF Return
<1>6. \A s : OneLogin(s) => OneLogin(RefreshCall(s).snap)
  BY <1>1, <1>3, SMTT(30) DEF RefreshCall
<1> QED BY <1>1, <1>2, <1>3, <1>4, <1>5, <1>6, SMTT(30)

\* Joining or starting the shared refresh.
LEMMA OneLoginBarrier ==
    ASSUME LoginInv, NEW s, OneLogin(s)
    PROVE  /\ OneLogin(RefreshThroughBarrier(task[Barrier], s).snap)
           /\ OneLogin(ScheduledBarrier(task[Barrier], s).snap)
<1>1. OneLogin(task[Barrier].snap)
  BY Zenon DEF LoginInv, Tasks
<1>2. OneLogin(RefreshThroughBarrier(task[Barrier], s).snap)
  BY <1>1, OneLoginRecords, Zenon DEF RefreshThroughBarrier
<1> QED BY Zenon, <1>1, <1>2 DEF ScheduledBarrier

\* A task moves, and so may the barrier.
LEMMA OneLoginMoves ==
    ASSUME TasksInv, LoginInv, OneLogin(material'), OneLogin(disk'),
           NEW t \in Tasks, NEW r, OneLogin(r.snap), NEW b, OneLogin(b.snap),
           \/ task' = task
           \/ task' = [task EXCEPT ![t] = r]
           \/ task' = [task EXCEPT ![Barrier] = b]
           \/ task' = [task EXCEPT ![t] = r, ![Barrier] = b]
    PROVE  LoginInv'
<1>1. Barrier \in Tasks
  BY Zenon DEF Tasks
<1>2. \A u \in Tasks : task'[u] = task[u] \/ task'[u] = r \/ task'[u] = b
  BY Zenon, <1>1 DEF TasksInv
<1> QED BY Zenon, <1>2 DEF LoginInv

\* The answers of the token endpoint, and the snapshots made of them.
LEMMA OneLoginAnswers ==
    ASSUME VarsOK, Mode = "frontend"
    PROVE  /\ \A login, e : \A refresh \in {None, login} : OneLogin(Granted(login, refresh, e))
           /\ \A s \in Snapshots : OneLogin(s) => OneLogin(TokenSnapshot(s))
<1>1. \A login, e : \A refresh \in {None, login} : OneLogin(Granted(login, refresh, e))
  BY Zenon DEF OneLogin, Granted
<1>2. \A s \in Snapshots : OneLogin(s) => OneLogin(TokenSnapshot(s))
  <2> SUFFICES ASSUME NEW s \in Snapshots, OneLogin(s) PROVE OneLogin(TokenSnapshot(s))
    BY Zenon
  <2>1. TokenSnapshot(s).refresh = s.refresh /\ TokenSnapshot(s).login = s.login
    BY Zenon DEF TokenSnapshot, Snapshots
  <2> QED BY Zenon, <2>1 DEF OneLogin
<1> QED BY Zenon, <1>1, <1>2

\* The steps of flows.
LEMMA FlowsKeepLogin ==
    ASSUME IInv, LoginInv, Mode = "frontend", NEW t \in Tasks,
           \/ RequestFailed(t) \/ RefreshAnswered(t) \/ ExchangeAnswered(t)
    PROVE  LoginInv'
<1>1. OneLogin(material') /\ OneLogin(disk')
  BY Zenon DEF LoginInv, RequestFailed, RefreshAnswered, ExchangeAnswered
<1>2. PICK r : task' = [task EXCEPT ![t] = r] /\ OneLogin(r.snap)
  <2>1. CASE RequestFailed(t)
    BY <2>1, OneLoginRecords, Zenon DEF RequestFailed
  <2>2. CASE RefreshAnswered(t)
    <3>1. PICK rotated \in BOOLEAN, e \in ExpiryDates :
              task' = [task EXCEPT ![t] =
                  IF disposed THEN Throw(t)
                  ELSE Task("metadata", "refresh",
                            Granted(task[t].snap.refresh,
                                    IF rotated \/ Mode = "frontend" THEN task[t].snap.refresh ELSE None,
                                    e))]
      BY <2>2, Zenon DEF RefreshAnswered
    <3>2. task' = [task EXCEPT ![t] =
                  IF disposed THEN Throw(t)
                  ELSE Task("metadata", "refresh",
                            Granted(task[t].snap.refresh, task[t].snap.refresh, e))]
      BY Zenon, <3>1
    <3>3. OneLogin(Granted(task[t].snap.refresh, task[t].snap.refresh, e))
      BY Zenon, OneLoginAnswers DEF IInv
    <3>4. OneLogin((IF disposed THEN Throw(t)
                    ELSE Task("metadata", "refresh",
                              Granted(task[t].snap.refresh, task[t].snap.refresh, e))).snap)
      BY <3>3, OneLoginRecords, Zenon
    <3> QED BY <3>2, <3>4, Zenon
  <2>3. CASE ExchangeAnswered(t)
    <3>1. PICK refresh \in {None, grants + 1}, e \in ExpiryDates :
              task' = [task EXCEPT ![t] =
                  IF disposed THEN Throw(t)
                  ELSE Task("metadata", "callback", Granted(grants + 1, refresh, e))]
      BY <2>3, Zenon DEF ExchangeAnswered
    <3>2. OneLogin(Granted(grants + 1, refresh, e))
      BY Zenon, OneLoginAnswers DEF IInv
    <3>3. OneLogin((IF disposed THEN Throw(t)
                    ELSE Task("metadata", "callback", Granted(grants + 1, refresh, e))).snap)
      BY Zenon, <3>2, OneLoginRecords
    <3> QED BY <3>1, <3>3, Zenon
  <2> QED BY Zenon, <2>1, <2>2, <2>3
<1> QED BY <1>1, <1>2, OneLoginMoves, ZenonT(60) DEF IInv

\* The calls of the host, the continuations of restores and the timer.
LEMMA CallsKeepLogin ==
    ASSUME IInv, LoginInv, NEW c \in Tasks,
           \/ HandleCallback(c) \/ Refresh(c) \/ EnsureInBackground(c) \/ EnsureByRefresh(c)
           \/ Resume(c) \/ DiscardDone(c) \/ RestoreThrows(c) \/ TimerFires
    PROVE  LoginInv'
<1>1. OneLogin(material') /\ OneLogin(disk')
  BY ZenonT(60) DEF LoginInv, HandleCallback, Refresh, EnsureInBackground, EnsureByRefresh, Resume,
         DiscardDone, RestoreThrows, TimerFires
<1> DEFINE b1 == RefreshThroughBarrier(task[Barrier], material)
           b2 == ScheduledBarrier(task[Barrier], material)
           w == Task("waiting", "ensure", None)
           x == Task("exchange", "callback", None)
           q == RefreshCall(material)
<1>2. OneLogin(material) /\ OneLogin(b1.snap) /\ OneLogin(b2.snap)
  BY OneLoginBarrier, ZenonT(60) DEF LoginInv
<1>3. OneLogin(w.snap) /\ OneLogin(x.snap) /\ OneLogin(q.snap) /\ OneLogin(Idle.snap)
  BY <1>2, OneLoginRecords, Zenon
<1>4. \/ task' = [task EXCEPT ![c] = x] \/ task' = [task EXCEPT ![c] = q]
      \/ task' = [task EXCEPT ![Barrier] = b1] \/ task' = [task EXCEPT ![c] = w, ![Barrier] = b1]
      \/ task' = [task EXCEPT ![c] = Idle] \/ task' = [task EXCEPT ![Barrier] = b2]
      \/ task' = [task EXCEPT ![c] = Idle, ![Barrier] = b2]
  BY ZenonT(30) DEF HandleCallback, Refresh, EnsureInBackground, EnsureByRefresh, Resume,
     DiscardDone, RestoreThrows, TimerFires
<1> HIDE DEF b1, b2, w, x, q
<1>5. TasksInv
  BY Zenon DEF IInv
<1>6. ASSUME NEW r \in {x, q, w, Idle}, NEW b \in {b1, b2},
             \/ task' = [task EXCEPT ![c] = r] \/ task' = [task EXCEPT ![Barrier] = b]
             \/ task' = [task EXCEPT ![c] = r, ![Barrier] = b]
      PROVE  LoginInv'
  <2>1. OneLogin(r.snap) /\ OneLogin(b.snap)
    BY Zenon, <1>2, <1>3, <1>6
  <2> QED BY <1>1, <1>5, <1>6, <2>1, OneLoginMoves, Zenon
<1> QED BY <1>4, <1>6, Zenon

\* A task calls the store with a snapshot, or to clear.
LEMMA StoresKeepLogin ==
    ASSUME IInv, LoginInv, NEW t \in Tasks, NEW s, OneLogin(s), NEW op,
           ApplySnapshot(t, s, op) \/ BeginClear(t, op)
    PROVE  LoginInv'
<1>1. TasksInv /\ OneLogin(disk) /\ OneLogin(None)
  BY OneLoginRecords, Zenon DEF IInv, LoginInv
<1>2. CASE ApplySnapshot(t, s, op)
  <2>1. PICK ok \in StoreResults :
            /\ material' = s
            /\ disk' = IF ok THEN s ELSE disk
            /\ task' = [task EXCEPT ![t] = StoreTask("saving", op, s, ok)]
    BY <1>2, Zenon DEF ApplySnapshot
  <2>2. OneLogin(material') /\ OneLogin(disk')
    BY Zenon, <1>1, <2>1
  <2>3. OneLogin(StoreTask("saving", op, s, ok).snap)
    BY OneLoginRecords, Zenon
  <2> QED BY <1>1, <2>1, <2>2, <2>3, OneLoginMoves, Zenon
<1>3. CASE BeginClear(t, op)
  <2>1. PICK ok \in StoreResults :
            /\ material' = None
            /\ disk' = IF ok THEN None ELSE disk
            /\ task' = [task EXCEPT ![t] = StoreTask("clearing", op, None, ok)]
    BY <1>3, Zenon DEF BeginClear
  <2>2. OneLogin(material') /\ OneLogin(disk')
    BY Zenon, <1>1, <2>1
  <2>3. OneLogin(StoreTask("clearing", op, None, ok).snap)
    BY <1>1, OneLoginRecords, Zenon
  <2> QED BY <1>1, <2>1, <2>2, <2>3, OneLoginMoves, Zenon
<1> QED BY Zenon, <1>2, <1>3

\* The steps that clear the material, or apply a callback or a refresh.
LEMMA WritesKeepLogin ==
    ASSUME IInv, LoginInv, Mode = "frontend", NEW t \in Tasks,
           \/ RefreshApplies(t) \/ CallbackApplies(t)
           \/ ClearState(t) \/ ClearMemory(t) \/ EnsureWithoutRefresh(t)
    PROVE  LoginInv'
<1>1. CASE RefreshApplies(t) \/ CallbackApplies(t)
  <2>1. task[t].snap \in Snapshots /\ OneLogin(task[t].snap)
    BY <1>1, Zenon DEF IInv, TasksInv, Shaped, RefreshApplies, CallbackApplies, LoginInv
  <2>2. OneLogin(TokenSnapshot(task[t].snap))
    BY Zenon, <2>1, OneLoginAnswers DEF IInv
  <2>3. \/ ApplySnapshot(t, TokenSnapshot(task[t].snap), "refresh")
        \/ ApplySnapshot(t, TokenSnapshot(task[t].snap), "callback")
    BY <1>1, Zenon DEF RefreshApplies, CallbackApplies
  <2> QED BY <2>2, <2>3, StoresKeepLogin, ZenonT(60)
<1>2. CASE ClearState(t) \/ EnsureWithoutRefresh(t)
  <2>1. BeginClear(t, "clear") \/ BeginClear(t, "ensure")
    BY <1>2, Zenon DEF ClearState, EnsureWithoutRefresh
  <2> QED BY <2>1, OneLoginRecords, StoresKeepLogin, ZenonT(60)
<1>3. CASE ClearMemory(t)
  <2>1. /\ material' = None /\ disk' = disk
        /\ task' = [task EXCEPT ![t] = StoreTask("clearing", "clear", None, TRUE)]
    BY Zenon, <1>3 DEF ClearMemory
  <2>2. OneLogin(StoreTask("clearing", "clear", None, TRUE).snap)
    BY OneLoginRecords, ZenonT(60)
  <2>3. OneLogin(material') /\ OneLogin(disk')
    BY <2>1, OneLoginRecords, Zenon DEF LoginInv
  <2> QED BY <2>1, <2>2, <2>3, OneLoginMoves, Zenon DEF IInv
<1> QED BY Zenon, <1>1, <1>2, <1>3

\* restorePersistedState: the record is read, stored, and injected.
LEMMA RestoresKeepLogin ==
    ASSUME IInv, LoginInv, NEW c \in Calls,
           RestorePersistedState(c) \/ LoadDone(c) \/ RestoreInjects(c)
    PROVE  LoginInv'
<1>1. /\ c \in Tasks /\ TasksInv
      /\ OneLogin(material) /\ OneLogin(disk) /\ OneLogin(task[c].snap)
      /\ OneLogin(None) /\ OneLogin(Corrupt)
  BY OneLoginRecords, Zenon DEF IInv, LoginInv, Tasks
<1>2. CASE RestorePersistedState(c)
  <2>1. PICK ok \in StoreResults :
            task' = [task EXCEPT ![c] = Task("loading", "restore", IF ok THEN disk ELSE Corrupt)]
    BY <1>2, Zenon DEF RestorePersistedState
  <2>2. OneLogin(IF ok THEN disk ELSE Corrupt)
    BY Zenon, <1>1
  <2>3. OneLogin(Task("loading", "restore", IF ok THEN disk ELSE Corrupt).snap)
    BY <2>2, OneLoginRecords, Zenon
  <2>4. OneLogin(material') /\ OneLogin(disk')
    BY <1>1, <1>2, Zenon DEF RestorePersistedState
  <2> QED BY <1>1, <2>1, <2>3, <2>4, OneLoginMoves, Zenon
<1>3. CASE LoadDone(c)
  <2>1. material' \in {material, task[c].snap} /\ disk' \in {None, disk}
    BY <1>3, Zenon DEF LoadDone
  <2>2. OneLogin(material') /\ OneLogin(disk')
    BY Zenon, <1>1, <2>1
  <2>3. PICK r \in {Idle, Task("discarding", "restore", None),
                    Task("loaded", "restore", task[c].snap)} : task' = [task EXCEPT ![c] = r]
    BY <1>3, ZenonT(60) DEF LoadDone
  <2>4. OneLogin(r.snap)
    BY <1>1, <2>3, OneLoginRecords, Zenon
  <2> QED BY <1>1, <2>2, <2>3, <2>4, OneLoginMoves, ZenonT(60)
<1>4. CASE RestoreInjects(c)
  <2>1. CASE BeginClear(c, "restore")
    BY <1>1, <2>1, StoresKeepLogin, Zenon
  <2>2. CASE ~BeginClear(c, "restore")
    <3> DEFINE b == RefreshThroughBarrier(task[Barrier], task[c].snap)
               r1 == Task("resumed", "restore", task[c].snap)
               r2 == Task("waiting", "restore", None)
    <3>1. OneLogin(b.snap) /\ OneLogin(r1.snap) /\ OneLogin(r2.snap)
      BY <1>1, OneLoginRecords, OneLoginBarrier, ZenonT(60)
    <3>2. /\ material' = task[c].snap /\ disk' = disk
          /\ \/ task' = [task EXCEPT ![c] = r1]
             \/ task' = [task EXCEPT ![c] = r2, ![Barrier] = b]
      BY <1>4, <2>2, ZenonT(60) DEF RestoreInjects
    <3>3. OneLogin(material') /\ OneLogin(disk')
      BY <1>1, <3>2, Zenon
    <3> HIDE DEF b, r1, r2
    <3> QED BY <1>1, <3>1, <3>2, <3>3, OneLoginMoves, Zenon
  <2> QED BY Zenon, <2>1, <2>2
<1> QED BY Zenon, <1>2, <1>3, <1>4

\* Settled saves and clears, and the end of the shared refresh.
LEMMA SettlingKeepsLogin ==
    ASSUME IInv, LoginInv, NEW t \in Tasks,
           SaveDone(t) \/ ClearDone(t) \/ BarrierReturns \/ BarrierFails
    PROVE  LoginInv'
<1>1. /\ Barrier \in Tasks /\ TasksInv
      /\ OneLogin(material) /\ OneLogin(disk)
      /\ OneLogin(task[t].snap) /\ OneLogin(task[Barrier].snap)
  BY Zenon DEF IInv, LoginInv, Tasks
<1>2. ASSUME NEW s, OneLogin(s), SettleBarrier(s), material' = material, disk' = disk
      PROVE  LoginInv'
  <2>1. \A op : OneLogin(Task("resumed", op, s).snap)
    BY <1>2, OneLoginRecords, ZenonT(60)
  <2>2. \A u \in Tasks : \/ task'[u] = Idle \/ task'[u] = task[u]
                         \/ task'[u] = Task("resumed", task[u].op, s)
    BY Zenon, <1>2 DEF SettleBarrier
  <2>3. \A u \in Tasks : OneLogin(task'[u].snap)
    BY <2>1, <2>2, OneLoginRecords, ZenonT(60) DEF LoginInv
  <2> QED BY Zenon, <1>1, <1>2, <2>3 DEF LoginInv
<1>3. CASE SaveDone(t)
  <2>1. material' = material /\ disk' = disk
    BY Zenon, <1>3 DEF SaveDone
  <2>2. /\ OneLogin(Return(t, task[t].snap).snap) /\ OneLogin(Throw(t).snap)
        /\ OneLogin(ScheduledBarrier(task[Barrier], material).snap)
    BY <1>1, OneLoginRecords, OneLoginBarrier, ZenonT(60)
  <2>3. \A u \in Tasks : \/ task'[u] = task[u]
                         \/ task'[u] = Return(t, task[t].snap) \/ task'[u] = Throw(t)
                         \/ task'[u] = ScheduledBarrier(task[Barrier], material)
    <3>1. CASE task[t].ok
      BY <1>3, <3>1, ZenonT(60) DEF SaveDone
    <3>2. CASE ~task[t].ok
      BY <1>1, <1>3, <3>2, Zenon DEF SaveDone, TasksInv
    <3> QED BY <3>1, <3>2, ZenonT(60)
  <2> QED BY <1>1, <2>1, <2>2, <2>3, ZenonT(60) DEF LoginInv
<1>4. CASE ClearDone(t)
  <2>1. material' = material /\ disk' = disk
    BY Zenon, <1>4 DEF ClearDone
  <2>2. CASE SettleBarrier(None)
    BY <1>2, <2>1, <2>2, OneLoginRecords, Zenon
  <2>3. CASE ~SettleBarrier(None)
    <3>1. task' = [task EXCEPT ![t] = Idle] \/ task' = [task EXCEPT ![t] = Throw(t)]
      BY Zenon, <1>4, <2>3 DEF ClearDone
    <3>2. OneLogin(material') /\ OneLogin(disk')
      BY Zenon, <1>1, <2>1
    <3> QED BY <1>1, <3>1, <3>2, OneLoginRecords, OneLoginMoves, ZenonT(60)
  <2> QED BY Zenon, <2>2, <2>3
<1>5. CASE BarrierReturns
  BY <1>1, <1>2, <1>5, Zenon DEF BarrierReturns
<1>6. CASE BarrierFails
  <2>1. CASE disposed
    BY <1>2, <1>6, <2>1, OneLoginRecords, Zenon DEF BarrierFails
  <2>2. CASE ~disposed
    <3>1. PICK op : BeginClear(Barrier, op)
      BY <1>6, <2>2, Zenon DEF BarrierFails
    <3> QED BY <1>1, <3>1, StoresKeepLogin, Zenon
  <2> QED BY Zenon, <2>1, <2>2
<1> QED BY Zenon, <1>3, <1>4, <1>5, <1>6

\* restoreState: the host supplies a snapshot of one login.
LEMMA RestoreStateKeepsLogin ==
    ASSUME IInv, LoginInv, Mode = "frontend", RestoreState
    PROVE  LoginInv'
<1>1. PICK refresh \in {None, grants + 1}, e \in ExpiryDates :
          /\ material' = Granted(grants + 1, refresh, e)
          /\ task' = [task EXCEPT ![Barrier] =
                        ScheduledBarrier(task[Barrier], Granted(grants + 1, refresh, e))]
  BY Zenon DEF RestoreState
<1>2. OneLogin(Granted(grants + 1, refresh, e))
  BY Zenon, OneLoginAnswers DEF IInv
<1>3. OneLogin(ScheduledBarrier(task[Barrier], Granted(grants + 1, refresh, e)).snap)
  BY <1>2, OneLoginBarrier, ZenonT(60)
<1>4. OneLogin(material') /\ OneLogin(disk') /\ TasksInv /\ Barrier \in Tasks
  BY <1>1, <1>2, Zenon DEF RestoreState, LoginInv, IInv, Tasks
<1> QED BY <1>1, <1>3, <1>4, OneLoginMoves, Zenon

\* A new client, a disposed one, the clock and the record.
LEMMA AsideKeepsLogin ==
    ASSUME LoginInv,
           Construct \/ Dispose \/ ClearPersistedState \/ Tick \/ UNCHANGED vars
    PROVE  LoginInv'
<1>1. CASE Construct
  BY <1>1, OneLoginRecords, ZenonT(60) DEF Construct, LoginInv
<1>2. CASE Dispose \/ ClearPersistedState \/ Tick \/ UNCHANGED vars
  <2>1. task' = task /\ material' = material /\ disk' \in {None, disk}
    BY Zenon, <1>2 DEF Dispose, ClearPersistedState, Tick, vars
  <2> QED BY <2>1, OneLoginRecords, ZenonT(60) DEF LoginInv
<1> QED BY Zenon, <1>1, <1>2

\* Every step of a frontend client keeps the logins together.
LEMMA LoginKept ==
    ASSUME IInv, LoginInv, Mode = "frontend", [Next]_vars
    PROVE  LoginInv'
<1>1. ASSUME NEW t \in Tasks, FlowStep(t) PROVE LoginInv'
  BY Zenon, <1>1, FlowsKeepLogin, WritesKeepLogin, SettlingKeepsLogin DEF FlowStep
<1>2. ASSUME NEW c \in Calls, CallStep(c) PROVE LoginInv'
  <2>1. c \in Tasks
    BY Zenon DEF Tasks
  <2> QED BY Zenon, <1>2, <2>1, FlowsKeepLogin, WritesKeepLogin, CallsKeepLogin, RestoresKeepLogin
          DEF CallStep
<1>3. ASSUME NEW c \in Calls, NewCall(c) PROVE LoginInv'
  <2>1. c \in Tasks
    BY Zenon DEF Tasks
  <2> QED BY Zenon, <1>3, <2>1, WritesKeepLogin, CallsKeepLogin, RestoresKeepLogin DEF NewCall
<1>4. CASE BarrierReturns \/ BarrierFails \/ TimerFires
  <2>1. Barrier \in Tasks
    BY Zenon DEF Tasks
  <2> QED BY Zenon, <1>4, <2>1, SettlingKeepsLogin, CallsKeepLogin
<1>5. CASE RestoreState
  BY Zenon, <1>5, RestoreStateKeepsLogin
<1>6. CASE ClearPersistedState \/ Dispose \/ Tick \/ Construct \/ UNCHANGED vars
  BY Zenon, <1>6, AsideKeepsLogin
<1> QED BY Zenon, <1>1, <1>2, <1>3, <1>4, <1>5, <1>6 DEF Next

\* In the frontend mode, whatever refreshes, callbacks and restores overlap, the
\* refresh token that the client holds descends from the same login as its
\* access token: a refresh falls back to the refresh token it was made with.
THEOREM FrontendTokensOfOneLogin ==
    ASSUME Mode = "frontend"
    PROVE  Spec => []OneLoginPerSnapshot
<1>1. ASSUME Init PROVE LoginInv
  <2>1. OneLogin(material) /\ OneLogin(disk)
    BY <1>1, OneLoginRecords, Zenon DEF Init
  <2>2. \A t \in Tasks : task[t] = Idle
    BY Zenon, <1>1 DEF Init
  <2> QED BY <2>1, <2>2, OneLoginRecords, ZenonT(60) DEF LoginInv
<1>2. IInv /\ LoginInv /\ [Next]_vars => LoginInv'
  BY Zenon, LoginKept
<1>3. IInv /\ LoginInv => OneLoginPerSnapshot
  BY Zenon DEF IInv, VarsOK, LoginInv, OneLogin, OneLoginPerSnapshot
<1> QED BY <1>1, <1>2, <1>3, Invariance, PTL DEF Spec

-----------------------------------------------------------------------------
(* Who may end the unauthenticated state, in the backend mode.             *)

\* The steps after which a client without a material may have one.
Establishes ==
    \/ RestoreState
    \/ \E c \in Calls : CallbackApplies(c) \/ LoadDone(c) \/ RestoreInjects(c)

\* Every other step of a backend client leaves a material absent.
LEMMA OthersEstablishNothing ==
    ASSUME Mode = "backend", [Next]_vars, material = None, material' # None
    PROVE  Establishes
<1>1. ASSUME NEW t \in Tasks, FlowStep(t) PROVE FALSE
  BY <1>1, ZenonT(60) DEF FlowStep, RequestFailed, RefreshAnswered, RefreshApplies, SaveDone, ClearDone
<1>2. ASSUME NEW c \in Calls, CallStep(c) PROVE Establishes
  BY <1>2, Zenon DEF CallStep, Establishes, ExchangeAnswered, Resume, DiscardDone, RestoreThrows
<1>3. ASSUME NEW c \in Calls, NewCall(c) PROVE FALSE
  BY <1>3, ZenonT(60) DEF NewCall, HandleCallback, Refresh, ClearState, ClearMemory, BeginClear,
     EnsureInBackground, EnsureWithoutRefresh, EnsureByRefresh, RestorePersistedState
<1>4. ~BarrierReturns /\ ~BarrierFails /\ ~TimerFires
  BY ZenonT(60) DEF BarrierReturns, BarrierFails, TimerFires, BeginClear
<1>5. ~(ClearPersistedState \/ Dispose \/ Construct \/ Tick \/ UNCHANGED vars)
  BY Zenon DEF ClearPersistedState, Dispose, Construct, Tick, vars
<1> QED BY Zenon, <1>1, <1>2, <1>3, <1>4, <1>5 DEF Next, Establishes

\* In the backend mode a sign-out is not undone by a refresh that was in
\* flight: applyDelta has nothing to merge into, so only a callback or a restore
\* gives a signed-out client tokens again.
THEOREM SignOutStands ==
    ASSUME Mode = "backend"
    PROVE  Spec => OnlyLoginsEstablish
<1>1. [Next]_vars =>
          [material = None /\ material' # None
             => \/ RestoreState
                \/ \E c \in Calls : CallbackApplies(c) \/ LoadDone(c) \/ RestoreInjects(c)]_vars
  BY Zenon, OthersEstablishNothing DEF Establishes
<1> QED BY <1>1, PTL DEF Spec, OnlyLoginsEstablish


=============================================================================
