-------------------------- MODULE ThreadPoolProofs --------------------------
(***************************************************************************)
(* Proofs about ThreadPool for every number of tasks, producers, workers   *)
(* and every capacity.                                                     *)
(***************************************************************************)
EXTENDS ThreadPool, FiniteSetTheorems, TLAPS

\* How many points of S a program-counter map sends into A.
Count(S, f, A) == Cardinality({x \in S : f[x] \in A})

\* A count is a natural number.
LEMMA CountType ==
  ASSUME NEW S, IsFiniteSet(S), NEW f, NEW A
  PROVE  IsFiniteSet({y \in S : f[y] \in A}) /\ Count(S, f, A) \in Nat
<1>1. IsFiniteSet({y \in S : f[y] \in A})
  BY FS_Subset, Zenon
<1> QED
  BY <1>1, FS_CardinalityType, Zenon DEF Count

\* Moving one thread out of the counted set takes one from the count.
LEMMA CountLeave ==
  ASSUME NEW S, IsFiniteSet(S), NEW f, NEW g, NEW A, NEW x \in S,
         \A y \in S : y # x => g[y] = f[y], f[x] \in A, g[x] \notin A
  PROVE  Count(S, g, A) = Count(S, f, A) - 1
<1>1. {y \in S : g[y] \in A} = {y \in S : f[y] \in A} \ {x} /\ x \in {y \in S : f[y] \in A}
  BY Zenon
<1>2. IsFiniteSet({y \in S : f[y] \in A})
  BY CountType
<1> QED
  BY <1>1, <1>2, FS_RemoveElement, Zenon DEF Count

\* Moving one thread into the counted set adds one to the count.
LEMMA CountEnter ==
  ASSUME NEW S, IsFiniteSet(S), NEW f, NEW g, NEW A, NEW x \in S,
         \A y \in S : y # x => g[y] = f[y], f[x] \notin A, g[x] \in A
  PROVE  Count(S, g, A) = Count(S, f, A) + 1
<1>1. {y \in S : g[y] \in A} = {y \in S : f[y] \in A} \cup {x} /\ x \notin {y \in S : f[y] \in A}
  BY Zenon
<1>2. IsFiniteSet({y \in S : f[y] \in A})
  BY CountType
<1> QED
  BY <1>1, <1>2, FS_AddElement, Zenon DEF Count

\* A move that does not cross the border of the counted set keeps the count.
LEMMA CountStay ==
  ASSUME NEW S, NEW f, NEW g, NEW A,
         \A y \in S : f[y] \in A <=> g[y] \in A
  PROVE  Count(S, g, A) = Count(S, f, A)
<1>1. {y \in S : g[y] \in A} = {y \in S : f[y] \in A}
  BY Zenon
<1> QED
  BY <1>1, Zenon DEF Count

-----------------------------------------------------------------------------
\* Every step of every thread keeps the types, whatever the constants.
LEMMA TypeStep == TypeOK /\ [Next]_vars => TypeOK'
<1> SUFFICES ASSUME TypeOK, [Next]_vars PROVE TypeOK'
  BY Zenon
<1> USE PoolAssumption DEF TypeOK
<1>1. ASSUME NEW p \in Producers, BeginCall(p) PROVE TypeOK'
  <2>1. ppc' \in [Producers -> ProducerPC] /\ fresh' \subseteq Tasks
    BY <1>1, Zenon DEF BeginCall, ProducerPC
  <2>2. call' \in [Producers -> Call]
    <3>1. \A S \in SUBSET Tasks, tier \in Tier :
             [tier |-> tier, todo |-> S, accepted |-> 0] \in Call
      BY Zenon DEF Call
    <3>2. \/ UNCHANGED call
          \/ \E S \in SUBSET Tasks, tier \in Tier :
                call' = [call EXCEPT ![p] = [tier |-> tier, todo |-> S, accepted |-> 0]]
      BY <1>1, Zenon DEF BeginCall
    <3>3. \/ UNCHANGED call
          \/ \E c \in Call : call' = [call EXCEPT ![p] = c]
      BY <3>1, <3>2, Zenon
    <3> QED
      BY <3>3, Zenon
  <2> QED
    BY <1>1, <2>1, <2>2, Zenon DEF BeginCall, Holding, counters, history
<1>2. ASSUME NEW p \in Producers, Push(p) PROVE TypeOK'
  <2>1. call[p].tier \in Tier /\ call[p].todo \subseteq Tasks /\ call[p].accepted \in Nat
    BY Zenon DEF Call
  <2>2. ppc' \in [Producers -> ProducerPC] /\ dropped' \in Nat
    BY <1>2 DEF Push, ProducerPC
  <2>3. queue' \in [Tier -> Seq(Tasks)]
    <3>1. \A t \in Tasks, q \in Seq(Tasks) : Append(q, t) \in Seq(Tasks)
      OBVIOUS
    <3>2. \/ UNCHANGED queue
          \/ \E t \in Tasks : queue' = [queue EXCEPT ![call[p].tier] = Append(@, t)]
      BY <1>2, <2>1, Zenon DEF Push
    <3>3. \/ UNCHANGED queue
          \/ \E q \in Seq(Tasks) : queue' = [queue EXCEPT ![call[p].tier] = q]
      BY <2>1, <3>1, <3>2, Zenon
    <3> QED
      BY <2>1, <3>3, ZenonT(30)
  <2>4. call' \in [Producers -> Call]
    <3>1. ASSUME NEW c \in Call, NEW t
          PROVE  /\ [c EXCEPT !.todo = @ \ {t}] \in Call
                 /\ [c EXCEPT !.todo = @ \ {t}, !.accepted = @ + 1] \in Call
      <4>1. c.todo \ {t} \subseteq Tasks /\ c.accepted + 1 \in Nat
        BY DEF Call
      <4> QED
        BY <4>1, Zenon DEF Call
    <3>2. PICK t \in call[p].todo :
             \/ call' = [call EXCEPT ![p].todo = @ \ {t}]
             \/ call' = [call EXCEPT ![p].todo = @ \ {t}, ![p].accepted = @ + 1]
      BY <1>2, Zenon DEF Push
    <3>3. CASE call' = [call EXCEPT ![p].todo = @ \ {t}]
      BY <3>1, <3>3, Zenon
    <3>4. CASE call' = [call EXCEPT ![p].todo = @ \ {t}, ![p].accepted = @ + 1]
      <4>1. call' = [call EXCEPT ![p] = [call[p] EXCEPT !.todo = @ \ {t}, !.accepted = @ + 1]]
        BY <3>4, Zenon DEF Call
      <4> QED
        BY <3>1, <4>1, Zenon
    <3> QED
      BY <3>2, <3>3, <3>4, Zenon
  <2> QED
    BY <1>2, <2>2, <2>3, <2>4, Zenon DEF Push, Holding, history
<1>3. ASSUME NEW p \in Producers, CountQueued(p) PROVE TypeOK'
  BY <1>3 DEF CountQueued, ProducerPC, Holding, history
<1>4. ASSUME NEW p \in Producers, CountEnqueued(p) PROVE TypeOK'
  BY <1>4 DEF CountEnqueued, ProducerPC, Holding, history
<1>5. ASSUME NEW p \in Producers, Notify(p) PROVE TypeOK'
  <2>1. ppc' \in [Producers -> ProducerPC] /\ call' \in [Producers -> Call]
    BY <1>5, Zenon DEF Notify, ProducerPC, Call, NoCall, Tier
  <2>2. wpc' \in [Workers -> WorkerPC] /\ \A w \in Workers : Holding(w)' <=> Holding(w)
    BY <1>5 DEF Notify, NotifyOne, NotifyAll, Waiting, WorkerPC, Holding
  <2> QED
    BY <1>5, <2>1, <2>2, Zenon DEF Notify, counters, history
<1>6. ASSUME NEW w \in Workers, Work(w) \/ SpuriousWakeup(w) PROVE TypeOK'
  <2>1. ASSUME NEW from \in WorkerPC, NEW to \in WorkerPC, wpc[w] = from,
               from \in {"uncount", "start", "run"} <=> to \in {"uncount", "start", "run"},
               wpc' = [wpc EXCEPT ![w] = to], UNCHANGED hand
        PROVE  /\ wpc' \in [Workers -> WorkerPC]
               /\ \A v \in Workers : hand'[v] \in Tasks <=> Holding(v)'
    BY <2>1, Zenon DEF Holding
  <2>2. CASE Lock(w)
    BY <2>1, <2>2, Zenon DEF Lock, WorkerPC, counters, history
  <2>3. CASE Park(w)
    BY <2>1, <2>3, Zenon DEF Park, WorkerPC, counters, history
  <2>4. CASE Test(w)
    BY <2>1, <2>4, Zenon DEF Test, WorkerPC, counters, history
  <2>5. CASE SpuriousWakeup(w)
    BY <2>1, <2>5, Zenon DEF SpuriousWakeup, WorkerPC, counters, history
  <2>6. ASSUME NEW tier \in Tier, NEW otherwise \in {"popLow", "lock"},
               NEW here \in {"popHigh", "popLow"}, Pop(w, tier, here, otherwise)
        PROVE TypeOK'
    <3>1. CASE queue[tier] = <<>>
      BY <2>1, <2>6, <3>1, Zenon DEF Pop, WorkerPC, counters, history
    <3>2. CASE queue[tier] # <<>>
      <4>1. Head(queue[tier]) \in Tasks /\ Tail(queue[tier]) \in Seq(Tasks)
        BY <3>2
      <4>2. queue' \in [Tier -> Seq(Tasks)] /\ hand' \in [Workers -> Tasks \cup {None}]
        <5>1. /\ queue' = [queue EXCEPT ![tier] = Tail(queue[tier])]
              /\ hand' = [hand EXCEPT ![w] = Head(queue[tier])]
          BY <2>6, <3>2, Zenon DEF Pop
        <5> QED
          BY <4>1, <5>1, ZenonT(30)
      <4>3. wpc' \in [Workers -> WorkerPC]
        BY <2>6, <3>2, Zenon DEF Pop, WorkerPC
      <4>4. \A v \in Workers : hand'[v] \in Tasks <=> Holding(v)'
        BY <2>6, <3>2, <4>1 DEF Pop, Holding
      <4> QED
        BY <2>6, <4>2, <4>3, <4>4, Zenon DEF Pop, counters, history
    <3> QED
      BY <3>1, <3>2, Zenon
  <2>7. CASE PopHigh(w) \/ PopLow(w)
    BY <2>6, <2>7, Zenon DEF PopHigh, PopLow, Tier
  <2>8. CASE Uncount(w)
    BY <2>1, <2>8 DEF Uncount, WorkerPC, history
  <2>9. CASE Start(w)
    BY <2>1, <2>9 DEF Start, WorkerPC, history
  <2>10. CASE Finish(w)
    <3>1. wpc' \in [Workers -> WorkerPC]
      BY <2>10, Zenon DEF Finish, WorkerPC
    <3>2. \A v \in Workers : hand'[v] \in Tasks <=> Holding(v)'
      BY <2>10, Zenon DEF Finish, Holding
    <3>3. hand' \in [Workers -> Tasks \cup {None}] /\ done' \subseteq Tasks
      BY <2>10, Zenon DEF Finish, Holding
    <3> QED
      BY <2>10, <3>1, <3>2, <3>3 DEF Finish, history
  <2>11. CASE Tally(w)
    BY <2>1, <2>11 DEF Tally, WorkerPC, history
  <2> QED
    BY <1>6, <2>2, <2>3, <2>4, <2>5, <2>7, <2>8, <2>9, <2>10, <2>11, Zenon DEF Work
<1>7. CASE Stop
  BY <1>7, Zenon DEF Stop, InQueue, Holding, counters
<1>8. CASE Shutdown
  <2>1. CASE StopNotify
    <3>1. wpc' \in [Workers -> WorkerPC] /\ \A w \in Workers : Holding(w)' <=> Holding(w)
      BY <2>1, Zenon DEF StopNotify, NotifyAll, WorkerPC, Holding
    <3> QED
      BY <2>1, <3>1, Zenon DEF StopNotify, counters, history
  <2>2. CASE Grace \/ Join
    BY <2>2, Zenon DEF Grace, Join, Holding, counters, history
  <2> QED
    BY <1>8, <2>1, <2>2, Zenon DEF Shutdown
<1>9. CASE UNCHANGED vars
  BY <1>9, Zenon DEF vars, Holding, counters, history
<1> QED
  BY <1>1, <1>2, <1>3, <1>4, <1>5, <1>6, <1>7, <1>8, <1>9, Zenon DEF Next, Produce

\* TypeOK holds in every reachable state of the pool.
THEOREM TypeCorrect == Spec => []TypeOK
<1>1. Init => TypeOK
  <2> SUFFICES ASSUME Init PROVE TypeOK
    BY Zenon
  <2>1. wpc \in [Workers -> WorkerPC] /\ ppc \in [Producers -> ProducerPC]
    BY Zenon DEF Init, WorkerPC, ProducerPC
  <2>2. call \in [Producers -> Call]
    BY Zenon DEF Init, Call, NoCall, Tier
  <2>3. \A w \in Workers : hand[w] \in Tasks <=> Holding(w)
    BY PoolAssumption, Zenon DEF Init, Holding
  <2>4. queue \in [Tier -> Seq(Tasks)] /\ hand \in [Workers -> Tasks \cup {None}]
    BY DEF Init
  <2>5. /\ queued \in Int /\ running \in Int
        /\ enqueued \in Nat /\ executed \in Nat /\ dropped \in Nat
    BY DEF Init
  <2> QED
    BY <2>1, <2>2, <2>3, <2>4, <2>5, Zenon DEF Init, TypeOK
<1> QED
  BY <1>1, TypeStep, PTL DEF Spec

-----------------------------------------------------------------------------
(* The counters.  The sets of program counters that Accounting counts:     *)

Popped  == {"uncount"}                              \* popped, not yet uncounted
Body    == {"run"}                                  \* inside the task body
Taken   == {"uncount", "start", "run", "tally"}     \* popped, not yet tallied
Pushed  == {"count"}                                \* pushed, not yet in queued
Unpaid  == {"count", "count2"}                      \* pushed, not yet in enqueued

WCount(A) == Count(Workers, wpc, A)
PCount(A) == Count(Producers, ppc, A)

\* Accounting in terms of the counts the lemmas below are about.
LEMMA AccountingCounts ==
  Accounting <=> /\ queued = QueueLength - PCount(Pushed) + WCount(Popped)
                 /\ running = WCount(Body)
                 /\ enqueued + PCount(Unpaid) = executed + QueueLength + WCount(Taken)
BY Zenon DEF Accounting, WorkersAt, ProducersAt, WCount, PCount, Count, Popped, Body, Taken,
       Pushed, Unpaid

\* Thread x of S moves to program counter `to`, the others stay.
Moves(S, f, g, x, to) == g[x] = to /\ \A y \in S : y # x => g[y] = f[y]

\* A thread's step changes a count by what it enters minus what it leaves.
LEMMA CountMove ==
  ASSUME NEW S, IsFiniteSet(S), NEW f, NEW g, NEW A, NEW x \in S, NEW to, Moves(S, f, g, x, to)
  PROVE  /\ Count(S, f, A) \in Nat /\ Count(S, g, A) \in Nat
         /\ Count(S, g, A) = Count(S, f, A)
              + (IF to \in A THEN 1 ELSE 0) - (IF f[x] \in A THEN 1 ELSE 0)
<1>1. g[x] = to
  BY Zenon DEF Moves
<1>2. \A y \in S : y # x => g[y] = f[y]
  BY Zenon DEF Moves
<1>3. Count(S, f, A) \in Nat /\ Count(S, g, A) \in Nat
  BY CountType, Zenon
<1>4. CASE f[x] \in A <=> g[x] \in A
  <2>1. \A y \in S : f[y] \in A <=> g[y] \in A
    BY <1>2, <1>4, Zenon
  <2>2. Count(S, g, A) = Count(S, f, A)
    BY <2>1, CountStay, Zenon
  <2> QED
    BY <1>1, <1>3, <1>4, <2>2
<1>5. CASE f[x] \in A /\ g[x] \notin A
  <2>1. Count(S, g, A) = Count(S, f, A) - 1
    BY <1>2, <1>3, <1>5, CountLeave
  <2> QED
    BY <1>1, <1>3, <1>5, <2>1
<1>6. CASE f[x] \notin A /\ g[x] \in A
  <2>1. Count(S, g, A) = Count(S, f, A) + 1
    BY <1>2, <1>3, <1>6, CountEnter
  <2> QED
    BY <1>1, <1>3, <1>6, <2>1
<1> QED
  BY <1>4, <1>5, <1>6, Zenon

\* A notification moves workers only from "waiting" to "lock", which no
\* count tells apart.
LEMMA NotifyKeepsCounts ==
  ASSUME TypeOK, UNCHANGED wpc \/ NotifyOne \/ NotifyAll
  PROVE  /\ WCount(Popped)' = WCount(Popped)
         /\ WCount(Body)' = WCount(Body)
         /\ WCount(Taken)' = WCount(Taken)
<1>1. \A w \in Workers : wpc'[w] = wpc[w] \/ (wpc[w] = "waiting" /\ wpc'[w] = "lock")
  BY Zenon DEF TypeOK, NotifyOne, NotifyAll, Waiting
<1>2. ASSUME NEW A, "waiting" \notin A, "lock" \notin A
      PROVE  {w \in Workers : wpc'[w] \in A} = {w \in Workers : wpc[w] \in A}
  BY <1>1, <1>2, Zenon
<1>3. /\ "waiting" \notin Popped /\ "lock" \notin Popped
      /\ "waiting" \notin Body /\ "lock" \notin Body
      /\ "waiting" \notin Taken /\ "lock" \notin Taken
  BY Zenon DEF Popped, Body, Taken
<1>4. /\ {w \in Workers : wpc'[w] \in Popped} = {w \in Workers : wpc[w] \in Popped}
      /\ {w \in Workers : wpc'[w] \in Body} = {w \in Workers : wpc[w] \in Body}
      /\ {w \in Workers : wpc'[w] \in Taken} = {w \in Workers : wpc[w] \in Taken}
  BY <1>2, <1>3, Zenon
<1> QED
  BY <1>4, Zenon DEF WCount, Count, Popped, Body, Taken

\* A push lengthens the queues by one, a pop shortens them by one.
LEMMA QueueStep ==
  ASSUME TypeOK, NEW tier \in Tier
  PROVE  /\ QueueLength \in Nat
         /\ \A t \in Tasks : queue' = [queue EXCEPT ![tier] = Append(@, t)]
                               => QueueLength' = QueueLength + 1
         /\ queue[tier] # <<>> /\ queue' = [queue EXCEPT ![tier] = Tail(@)]
              => QueueLength' = QueueLength - 1
<1>1. /\ queue \in [Tier -> Seq(Tasks)] /\ "High" \in Tier /\ "Low" \in Tier
      /\ queue["High"] \in Seq(Tasks) /\ queue["Low"] \in Seq(Tasks)
  BY Zenon DEF TypeOK, Tier
<1>2. \A q \in Seq(Tasks) : Len(q) \in Nat
  OBVIOUS
<1>3. \A q \in Seq(Tasks), t \in Tasks : Len(Append(q, t)) = Len(q) + 1
  OBVIOUS
<1>4. \A q \in Seq(Tasks) : q # <<>> => Len(Tail(q)) = Len(q) - 1
  OBVIOUS
<1>5. QueueLength \in Nat
  BY <1>1, <1>2 DEF QueueLength
<1>6. ASSUME NEW q \in Seq(Tasks), queue' = [queue EXCEPT ![tier] = q]
      PROVE  QueueLength' = QueueLength - Len(queue[tier]) + Len(q)
  <2>1. CASE tier = "High"
    <3>1. queue'["High"] = q /\ queue'["Low"] = queue["Low"]
      BY <1>1, <1>6, <2>1, Zenon
    <3> QED
      BY <1>1, <1>2, <2>1, <3>1 DEF QueueLength
  <2>2. CASE tier = "Low"
    <3>1. queue'["Low"] = q /\ queue'["High"] = queue["High"]
      BY <1>1, <1>6, <2>2, Zenon
    <3> QED
      BY <1>1, <1>2, <2>2, <3>1 DEF QueueLength
  <2> QED
    BY <2>1, <2>2, Zenon DEF Tier
<1>7. queue[tier] \in Seq(Tasks) /\ Len(queue[tier]) \in Nat
  BY <1>1
<1>8. ASSUME NEW t \in Tasks, queue' = [queue EXCEPT ![tier] = Append(@, t)]
      PROVE  QueueLength' = QueueLength + 1
  <2>1. Append(queue[tier], t) \in Seq(Tasks)
    BY <1>7
  <2>2. Len(Append(queue[tier], t)) = Len(queue[tier]) + 1
    BY <1>3, <1>7, Zenon
  <2>3. QueueLength' = QueueLength - Len(queue[tier]) + (Len(queue[tier]) + 1)
    BY <1>6, <1>8, <2>1, <2>2, Zenon
  <2> QED
    BY <1>1, <1>5, <2>3
<1>9. ASSUME queue[tier] # <<>>, queue' = [queue EXCEPT ![tier] = Tail(@)]
      PROVE  QueueLength' = QueueLength - 1
  <2>1. Tail(queue[tier]) \in Seq(Tasks)
    BY <1>7, <1>9
  <2>2. Len(Tail(queue[tier])) = Len(queue[tier]) - 1
    BY <1>4, <1>7, <1>9, Zenon
  <2>3. QueueLength' = QueueLength - Len(queue[tier]) + (Len(queue[tier]) - 1)
    BY <1>6, <1>9, <2>1, <2>2, Zenon
  <2> QED
    BY <1>1, <1>5, <2>3
<1> QED
  BY <1>5, <1>8, <1>9, Zenon

\* All the counts are natural numbers.
LEMMA CountsType ==
  /\ WCount(Popped) \in Nat /\ WCount(Body) \in Nat /\ WCount(Taken) \in Nat
  /\ PCount(Pushed) \in Nat /\ PCount(Unpaid) \in Nat
<1>1. IsFiniteSet(Workers) /\ IsFiniteSet(Producers)
  BY PoolAssumption, Zenon
<1> QED
  BY <1>1, CountType, Zenon DEF WCount, PCount

\* CountMove for the workers.
LEMMA WorkerMoved ==
  ASSUME NEW w \in Workers, NEW to, Moves(Workers, wpc, wpc', w, to), NEW A
  PROVE  Count(Workers, wpc', A) = Count(Workers, wpc, A)
           + (IF to \in A THEN 1 ELSE 0) - (IF wpc[w] \in A THEN 1 ELSE 0)
<1>1. IsFiniteSet(Workers)
  BY PoolAssumption, Zenon
<1> QED
  BY <1>1, CountMove

\* What a worker's step does to the three counts of workers.
LEMMA WorkerCounts ==
  ASSUME NEW w \in Workers, NEW to, Moves(Workers, wpc, wpc', w, to)
  PROVE  /\ WCount(Popped)' = WCount(Popped)
              + (IF to \in {"uncount"} THEN 1 ELSE 0)
              - (IF wpc[w] \in {"uncount"} THEN 1 ELSE 0)
         /\ WCount(Body)' = WCount(Body)
              + (IF to \in {"run"} THEN 1 ELSE 0)
              - (IF wpc[w] \in {"run"} THEN 1 ELSE 0)
         /\ WCount(Taken)' = WCount(Taken)
              + (IF to \in {"uncount", "start", "run", "tally"} THEN 1 ELSE 0)
              - (IF wpc[w] \in {"uncount", "start", "run", "tally"} THEN 1 ELSE 0)
<1>1. ASSUME NEW A
      PROVE  Count(Workers, wpc', A) = Count(Workers, wpc, A)
               + (IF to \in A THEN 1 ELSE 0) - (IF wpc[w] \in A THEN 1 ELSE 0)
  BY WorkerMoved, Zenon
<1> QED
  BY <1>1, Zenon DEF WCount, Popped, Body, Taken

\* CountMove for the producers.
LEMMA ProducerMoved ==
  ASSUME NEW p \in Producers, NEW to, Moves(Producers, ppc, ppc', p, to), NEW A
  PROVE  Count(Producers, ppc', A) = Count(Producers, ppc, A)
           + (IF to \in A THEN 1 ELSE 0) - (IF ppc[p] \in A THEN 1 ELSE 0)
<1>1. IsFiniteSet(Producers)
  BY PoolAssumption, Zenon
<1> QED
  BY <1>1, CountMove

\* What a producer's step does to the two counts of producers.
LEMMA ProducerCounts ==
  ASSUME NEW p \in Producers, NEW to, Moves(Producers, ppc, ppc', p, to)
  PROVE  /\ PCount(Pushed)' = PCount(Pushed)
              + (IF to \in {"count"} THEN 1 ELSE 0)
              - (IF ppc[p] \in {"count"} THEN 1 ELSE 0)
         /\ PCount(Unpaid)' = PCount(Unpaid)
              + (IF to \in {"count", "count2"} THEN 1 ELSE 0)
              - (IF ppc[p] \in {"count", "count2"} THEN 1 ELSE 0)
<1>1. ASSUME NEW A
      PROVE  Count(Producers, ppc', A) = Count(Producers, ppc, A)
               + (IF to \in A THEN 1 ELSE 0) - (IF ppc[p] \in A THEN 1 ELSE 0)
  BY ProducerMoved, Zenon
<1> QED
  BY <1>1, Zenon DEF PCount, Pushed, Unpaid

\* Counts over threads that do not move are constant.
LEMMA CountsIdle ==
  /\ UNCHANGED wpc => UNCHANGED <<WCount(Popped), WCount(Body), WCount(Taken)>>
  /\ UNCHANGED ppc => UNCHANGED <<PCount(Pushed), PCount(Unpaid)>>
  /\ UNCHANGED queue => UNCHANGED QueueLength
BY Zenon DEF WCount, PCount, Popped, Body, Taken, Pushed, Unpaid, QueueLength

\* Every step keeps the counters in step with the queues and the threads.
LEMMA AccountingStep == TypeOK /\ Accounting /\ [Next]_vars => Accounting'
<1> SUFFICES ASSUME TypeOK, Accounting, [Next]_vars PROVE Accounting'
  BY Zenon
<1> DEFINE Balance ==
      /\ queued = QueueLength - PCount(Pushed) + WCount(Popped)
      /\ running = WCount(Body)
      /\ enqueued + PCount(Unpaid) = executed + QueueLength + WCount(Taken)
<1> SUFFICES Balance'
  BY Zenon DEF Accounting, WorkersAt, ProducersAt, WCount, PCount, Count, Popped, Body, Taken,
         Pushed, Unpaid
<1>a. Balance
  BY AccountingCounts, Zenon
<1>b. /\ queued \in Int /\ running \in Int /\ enqueued \in Nat /\ executed \in Nat
      /\ QueueLength \in Nat
      /\ WCount(Popped) \in Nat /\ WCount(Body) \in Nat /\ WCount(Taken) \in Nat
      /\ PCount(Pushed) \in Nat /\ PCount(Unpaid) \in Nat
  BY CountsType, QueueStep, Zenon DEF TypeOK, Tier
<1>1. ASSUME NEW p \in Producers, BeginCall(p) PROVE Balance'
  <2>1. UNCHANGED PCount(Pushed) /\ UNCHANGED PCount(Unpaid)
    <3>1. \/ UNCHANGED ppc
          \/ ppc[p] = "idle" /\ Moves(Producers, ppc, ppc', p, "push")
      BY <1>1, Zenon DEF BeginCall, Moves, TypeOK
    <3> QED
      BY <3>1, <1>b, ProducerCounts, CountsIdle
  <2>2. UNCHANGED <<QueueLength, WCount(Popped), WCount(Body), WCount(Taken)>>
    BY <1>1, CountsIdle, Zenon DEF BeginCall
  <2> QED
    BY <1>1, <1>a, <2>1, <2>2, Zenon DEF BeginCall, counters
<1>2. ASSUME NEW p \in Producers, Push(p) PROVE Balance'
  <2>1. UNCHANGED <<WCount(Popped), WCount(Body), WCount(Taken)>>
    BY <1>2, CountsIdle, Zenon DEF Push
  <2>2. UNCHANGED <<queued, running, enqueued, executed>>
    BY <1>2, Zenon DEF Push
  <2>3. call[p].tier \in Tier /\ call[p].todo \subseteq Tasks
    BY Zenon DEF TypeOK, Call
  <2>4. CASE Full(call[p].tier)
    <3>1. UNCHANGED QueueLength
      BY <1>2, <2>4, CountsIdle, Zenon DEF Push
    <3>2. PICK to \in {"notify", "push"} :
             ppc[p] = "push" /\ Moves(Producers, ppc, ppc', p, to)
      BY <1>2, <2>4, Zenon DEF Push, Moves, TypeOK
    <3>3. UNCHANGED PCount(Pushed) /\ UNCHANGED PCount(Unpaid)
      BY <3>2, <1>b, ProducerCounts
    <3> QED
      BY <1>a, <2>1, <2>2, <3>1, <3>3, Zenon
  <2>5. CASE ~Full(call[p].tier)
    <3>1. QueueLength' = QueueLength + 1
      BY <1>2, <2>3, <2>5, QueueStep, Zenon DEF Push
    <3>2. ppc[p] = "push" /\ Moves(Producers, ppc, ppc', p, "count")
      BY <1>2, <2>5, Zenon DEF Push, Moves, TypeOK
    <3>3. PCount(Pushed)' = PCount(Pushed) + 1 /\ PCount(Unpaid)' = PCount(Unpaid) + 1
      BY <3>2, <1>b, ProducerCounts
    <3> QED
      BY <1>a, <1>b, <2>1, <2>2, <3>1, <3>3
  <2> QED
    BY <2>4, <2>5, Zenon
<1>3. ASSUME NEW p \in Producers, CountQueued(p) PROVE Balance'
  <2>1. UNCHANGED <<QueueLength, WCount(Popped), WCount(Body), WCount(Taken)>>
    BY <1>3, CountsIdle, Zenon DEF CountQueued
  <2>2. PCount(Pushed)' = PCount(Pushed) - 1 /\ PCount(Unpaid)' = PCount(Unpaid)
    <3>1. ppc[p] = "count" /\ Moves(Producers, ppc, ppc', p, "count2")
      BY <1>3, Zenon DEF CountQueued, Moves, TypeOK
    <3> QED
      BY <3>1, <1>b, ProducerCounts
  <2>3. queued' = queued + 1 /\ UNCHANGED <<running, enqueued, executed>>
    BY <1>3, Zenon DEF CountQueued
  <2> QED
    BY <1>a, <1>b, <2>1, <2>2, <2>3
<1>4. ASSUME NEW p \in Producers, CountEnqueued(p) PROVE Balance'
  <2>1. UNCHANGED <<QueueLength, WCount(Popped), WCount(Body), WCount(Taken)>>
    BY <1>4, CountsIdle, Zenon DEF CountEnqueued
  <2>2. PCount(Pushed)' = PCount(Pushed) /\ PCount(Unpaid)' = PCount(Unpaid) - 1
    <3>1. PICK to \in {"notify", "push"} :
             ppc[p] = "count2" /\ Moves(Producers, ppc, ppc', p, to)
      BY <1>4, Zenon DEF CountEnqueued, Moves, TypeOK
    <3> QED
      BY <3>1, <1>b, ProducerCounts
  <2>3. enqueued' = enqueued + 1 /\ UNCHANGED <<queued, running, executed>>
    BY <1>4, Zenon DEF CountEnqueued
  <2> QED
    BY <1>a, <1>b, <2>1, <2>2, <2>3
<1>5. ASSUME NEW p \in Producers, Notify(p) PROVE Balance'
  <2>1. UNCHANGED QueueLength
    BY <1>5, CountsIdle, Zenon DEF Notify
  <2>2. UNCHANGED PCount(Pushed) /\ UNCHANGED PCount(Unpaid)
    <3>1. ppc[p] = "notify" /\ Moves(Producers, ppc, ppc', p, "idle")
      BY <1>5, Zenon DEF Notify, Moves, TypeOK
    <3> QED
      BY <3>1, <1>b, ProducerCounts
  <2>3. UNCHANGED <<WCount(Popped), WCount(Body), WCount(Taken)>>
    BY <1>5, NotifyKeepsCounts, Zenon DEF Notify
  <2>4. UNCHANGED <<queued, running, enqueued, executed>>
    BY <1>5, Zenon DEF Notify, counters
  <2> QED
    BY <1>a, <2>1, <2>2, <2>3, <2>4, Zenon
<1>6. ASSUME NEW w \in Workers, Work(w) \/ SpuriousWakeup(w) PROVE Balance'
  <2>1. UNCHANGED <<PCount(Pushed), PCount(Unpaid)>>
    <3>1. UNCHANGED ppc
      BY <1>6, Zenon DEF Work, SpuriousWakeup, Lock, Park, Test, PopHigh, PopLow, Pop, Uncount,
                  Start, Finish, Tally
    <3> QED
      BY <3>1, CountsIdle, Zenon
  <2>2. ASSUME NEW to \in {"lock", "park", "waiting", "test", "popHigh", "popLow", "exited"},
               wpc[w] \in {"lock", "park", "waiting", "test", "popHigh", "popLow"},
               Moves(Workers, wpc, wpc', w, to), UNCHANGED queue,
               UNCHANGED <<queued, running, enqueued, executed>>
        PROVE  Balance'
    <3>1. UNCHANGED <<WCount(Popped), WCount(Body), WCount(Taken)>>
      BY <2>2, <1>b, WorkerCounts
    <3>2. UNCHANGED QueueLength
      BY <2>2, CountsIdle, Zenon
    <3> QED
      BY <1>a, <2>1, <2>2, <3>1, <3>2, Zenon
  <2>3. CASE Lock(w)
    BY <2>2, <2>3, Zenon DEF Lock, Moves, TypeOK, counters
  <2>4. CASE Park(w)
    BY <2>2, <2>4, Zenon DEF Park, Moves, TypeOK, counters
  <2>5. CASE Test(w)
    BY <2>2, <2>5, Zenon DEF Test, Moves, TypeOK, counters
  <2>6. CASE SpuriousWakeup(w)
    BY <2>2, <2>6, Zenon DEF SpuriousWakeup, Moves, TypeOK, counters
  <2>7. ASSUME NEW tier \in Tier, NEW otherwise \in {"popLow", "lock"},
               NEW here \in {"popHigh", "popLow"}, Pop(w, tier, here, otherwise)
        PROVE  Balance'
    <3>1. CASE queue[tier] = <<>>
      BY <2>2, <2>7, <3>1, Zenon DEF Pop, Moves, TypeOK, counters
    <3>2. CASE queue[tier] # <<>>
      <4>1. QueueLength' = QueueLength - 1
        BY <2>7, <3>2, QueueStep, Zenon DEF Pop
      <4>2. /\ WCount(Popped)' = WCount(Popped) + 1
            /\ WCount(Body)' = WCount(Body)
            /\ WCount(Taken)' = WCount(Taken) + 1
        <5>1. wpc[w] = here /\ Moves(Workers, wpc, wpc', w, "uncount")
          BY <2>7, <3>2, Zenon DEF Pop, Moves, TypeOK
        <5> QED
          BY <5>1, <1>b, WorkerCounts
      <4>3. UNCHANGED <<queued, running, enqueued, executed>>
        BY <2>7, Zenon DEF Pop, counters
      <4> QED
        BY <1>a, <1>b, <2>1, <4>1, <4>2, <4>3
    <3> QED
      BY <3>1, <3>2, Zenon
  <2>8. CASE PopHigh(w) \/ PopLow(w)
    BY <2>7, <2>8, Zenon DEF PopHigh, PopLow, Tier
  <2>9. CASE Uncount(w)
    <3>1. /\ WCount(Popped)' = WCount(Popped) - 1
          /\ WCount(Body)' = WCount(Body)
          /\ WCount(Taken)' = WCount(Taken)
      <4>1. wpc[w] = "uncount" /\ Moves(Workers, wpc, wpc', w, "start")
        BY <2>9, Zenon DEF Uncount, Moves, TypeOK
      <4> QED
        BY <4>1, <1>b, WorkerCounts
    <3>2. UNCHANGED QueueLength
      BY <2>9, CountsIdle, Zenon DEF Uncount
    <3> QED
      BY <1>a, <1>b, <2>1, <2>9, <3>1, <3>2 DEF Uncount
  <2>10. CASE Start(w)
    <3>1. /\ WCount(Popped)' = WCount(Popped)
          /\ WCount(Body)' = WCount(Body) + 1
          /\ WCount(Taken)' = WCount(Taken)
      <4>1. wpc[w] = "start" /\ Moves(Workers, wpc, wpc', w, "run")
        BY <2>10, Zenon DEF Start, Moves, TypeOK
      <4> QED
        BY <4>1, <1>b, WorkerCounts
    <3>2. UNCHANGED QueueLength
      BY <2>10, CountsIdle, Zenon DEF Start
    <3> QED
      BY <1>a, <1>b, <2>1, <2>10, <3>1, <3>2, Zenon DEF Start
  <2>11. CASE Finish(w)
    <3>1. /\ WCount(Popped)' = WCount(Popped)
          /\ WCount(Body)' = WCount(Body) - 1
          /\ WCount(Taken)' = WCount(Taken)
      <4>1. wpc[w] = "run" /\ Moves(Workers, wpc, wpc', w, "tally")
        BY <2>11, Zenon DEF Finish, Moves, TypeOK
      <4> QED
        BY <4>1, <1>b, WorkerCounts
    <3>2. UNCHANGED QueueLength
      BY <2>11, CountsIdle, Zenon DEF Finish
    <3> QED
      BY <1>a, <1>b, <2>1, <2>11, <3>1, <3>2, Zenon DEF Finish
  <2>12. CASE Tally(w)
    <3>1. /\ WCount(Popped)' = WCount(Popped)
          /\ WCount(Body)' = WCount(Body)
          /\ WCount(Taken)' = WCount(Taken) - 1
      <4>1. wpc[w] = "tally" /\ Moves(Workers, wpc, wpc', w, "lock")
        BY <2>12, Zenon DEF Tally, Moves, TypeOK
      <4> QED
        BY <4>1, <1>b, WorkerCounts
    <3>2. UNCHANGED QueueLength
      BY <2>12, CountsIdle, Zenon DEF Tally
    <3> QED
      BY <1>a, <1>b, <2>1, <2>12, <3>1, <3>2 DEF Tally
  <2> QED
    BY <1>6, <2>3, <2>4, <2>5, <2>6, <2>8, <2>9, <2>10, <2>11, <2>12 DEF Work
<1>7. CASE Stop \/ Shutdown \/ UNCHANGED vars
  <2>1. UNCHANGED <<queue, ppc, queued, running, enqueued, executed>>
    BY <1>7, Zenon DEF Stop, Shutdown, StopNotify, Grace, Join, counters, vars
  <2>2. UNCHANGED <<WCount(Popped), WCount(Body), WCount(Taken)>>
    BY <1>7, NotifyKeepsCounts, Zenon DEF Stop, Shutdown, StopNotify, Grace, Join, vars
  <2>3. UNCHANGED <<QueueLength, PCount(Pushed), PCount(Unpaid)>>
    BY <2>1, CountsIdle, Zenon
  <2> QED
    BY <1>a, <2>1, <2>2, <2>3, Zenon
<1> QED
  BY <1>1, <1>2, <1>3, <1>4, <1>5, <1>6, <1>7, Zenon DEF Next, Produce

\* The counters account for every task and every thread in every reachable
\* state: they are exact once the updates on their way have landed.
THEOREM AccountingCorrect == Spec => []Accounting
<1>1. Init => Accounting
  <2> SUFFICES ASSUME Init PROVE Accounting
    BY Zenon
  <2>1. /\ WorkersAt({"uncount"}) = {} /\ WorkersAt({"run"}) = {}
        /\ WorkersAt({"uncount", "start", "run", "tally"}) = {}
        /\ ProducersAt({"count"}) = {} /\ ProducersAt({"count", "count2"}) = {}
    BY Zenon DEF Init, WorkersAt, ProducersAt
  <2>2. QueueLength = 0
    BY DEF Init, QueueLength, Tier
  <2>3. Cardinality({}) = 0
    BY FS_EmptySet, Zenon
  <2>4. /\ Cardinality(WorkersAt({"uncount"})) = 0 /\ Cardinality(WorkersAt({"run"})) = 0
        /\ Cardinality(WorkersAt({"uncount", "start", "run", "tally"})) = 0
        /\ Cardinality(ProducersAt({"count"})) = 0
        /\ Cardinality(ProducersAt({"count", "count2"})) = 0
    BY <2>1, <2>3, Zenon
  <2>5. queued = 0 /\ running = 0 /\ enqueued = 0 /\ executed = 0
    BY Zenon DEF Init
  <2> QED
    BY <2>2, <2>4, <2>5 DEF Accounting
<1> QED
  BY <1>1, AccountingStep, TypeCorrect, PTL DEF Spec

-----------------------------------------------------------------------------
(* Shutdown.  DrainInv is inductive together with TypeOK and Accounting.   *)

\* When no producer is between its push and its count, a zero `queued` means
\* empty queues.
LEMMA ZeroMeansEmpty ==
  ASSUME TypeOK, Accounting, queued = 0, \A p \in Producers : ppc[p] = "idle"
  PROVE  QueueLength = 0
<1>1. ProducersAt({"count"}) = {}
  BY Zenon DEF ProducersAt
<1>2. Cardinality(ProducersAt({"count"})) = 0
  BY <1>1, FS_EmptySet, Zenon
<1>3. Cardinality(WorkersAt({"uncount"})) \in Nat
  BY CountsType, Zenon DEF WCount, Count, Popped, WorkersAt
<1>4. QueueLength \in Nat
  BY QueueStep, Zenon DEF Tier
<1>5. queued = QueueLength - Cardinality(ProducersAt({"count"}))
                 + Cardinality(WorkersAt({"uncount"}))
  BY Zenon DEF Accounting
<1> QED
  BY <1>2, <1>3, <1>4, <1>5

\* The queues of a pool whose total length is zero are empty.
LEMMA EmptyQueues ==
  ASSUME TypeOK, QueueLength = 0
  PROVE  \A tier \in Tier : queue[tier] = <<>>
<1>1. /\ queue["High"] \in Seq(Tasks) /\ Len(queue["High"]) \in Nat
      /\ queue["Low"] \in Seq(Tasks) /\ Len(queue["Low"]) \in Nat
  BY DEF TypeOK, Tier
<1>2. Len(queue["High"]) = 0 /\ Len(queue["Low"]) = 0
  <2>1. \A a, b \in Nat : a + b = 0 => a = 0 /\ b = 0
    OBVIOUS
  <2>2. Len(queue["High"]) + Len(queue["Low"]) = 0
    BY Zenon DEF QueueLength
  <2> QED
    BY <1>1, <2>1, <2>2, Zenon
<1>3. queue["High"] = <<>> /\ queue["Low"] = <<>>
  BY <1>1, <1>2
<1> QED
  BY <1>3, Zenon DEF Tier

\* Every step keeps the shutdown invariant.
LEMMA DrainStep == TypeOK /\ Accounting /\ DrainInv /\ [Next]_vars => DrainInv'
<1> SUFFICES ASSUME TypeOK, Accounting, DrainInv, [Next]_vars PROVE DrainInv'
  BY Zenon
<1>1. ASSUME NEW p \in Producers, BeginCall(p) PROVE DrainInv'
  <2>1. UNCHANGED <<queue, stopping, spc, racing, wpc>> /\ UNCHANGED QueueLength
    BY <1>1, Zenon DEF BeginCall, history, QueueLength
  <2>2. stopping => UNCHANGED ppc
    BY <1>1, Zenon DEF BeginCall
  <2> QED
    BY <2>1, <2>2, Zenon DEF DrainInv
<1>2. ASSUME NEW p \in Producers, Produce(p) PROVE DrainInv'
  <2>1. ppc[p] # "idle"
    BY <1>2, Zenon DEF Produce, Push, CountQueued, CountEnqueued, Notify
  <2>2. ~(stopping /\ racing = {})
    BY <2>1, Zenon DEF DrainInv
  <2>3. UNCHANGED <<stopping, spc, racing>>
    BY <1>2, Zenon DEF Produce, Push, CountQueued, CountEnqueued, Notify, history
  <2>4. \A w \in Workers : wpc'[w] = "exited" <=> wpc[w] = "exited"
    BY <1>2 DEF Produce, Push, CountQueued, CountEnqueued, Notify, NotifyOne, NotifyAll,
                Waiting, TypeOK
  <2> QED
    BY <2>2, <2>3, <2>4, Zenon DEF DrainInv
<1>3. ASSUME NEW w \in Workers, Work(w) \/ SpuriousWakeup(w) PROVE DrainInv'
  <2>1. UNCHANGED <<stopping, spc, racing, ppc>>
    BY <1>3, Zenon DEF Work, SpuriousWakeup, Lock, Park, Test, PopHigh, PopLow, Pop, Uncount,
                Start, Finish, Tally, history
  <2>2. wpc[w] # "exited" /\ \A v \in Workers : v # w => wpc'[v] = wpc[v]
    BY <1>3, Zenon DEF Work, SpuriousWakeup, Lock, Park, Test, PopHigh, PopLow, Pop, Uncount,
                Start, Finish, Tally, TypeOK
  <2>3. spc # "joined"
    BY <2>2, Zenon DEF DrainInv
  <2>4. CASE Test(w)
    <3>1. UNCHANGED QueueLength
      BY <2>4, Zenon DEF Test, QueueLength
    <3>2. CASE stopping /\ queued = 0
      <4>1. racing = {} => QueueLength = 0
        BY <3>2, ZeroMeansEmpty, Zenon DEF DrainInv
      <4> QED
        BY <2>1, <2>2, <2>3, <3>1, <3>2, <4>1, Zenon DEF DrainInv
    <3>3. CASE ~(stopping /\ queued = 0)
      <4>1. wpc'[w] = "popHigh"
        BY <2>4, <3>3, Zenon DEF Test, TypeOK
      <4> QED
        BY <2>1, <2>2, <2>3, <3>1, <4>1, Zenon DEF DrainInv
    <3> QED
      BY <3>2, <3>3, Zenon
  <2>5. CASE ~Test(w)
    <3>1. wpc'[w] # "exited"
      BY <1>3, <2>5, Zenon DEF Work, SpuriousWakeup, Lock, Park, PopHigh, PopLow, Pop, Uncount,
                        Start, Finish, Tally, TypeOK
    <3>2. QueueLength = 0 => UNCHANGED queue
      <4>1. QueueLength = 0 => \A tier \in Tier : queue[tier] = <<>>
        BY EmptyQueues, Zenon
      <4> QED
        BY <1>3, <2>5, <4>1, Zenon DEF Work, SpuriousWakeup, Lock, Park, PopHigh, PopLow, Pop,
                        Uncount, Start, Finish, Tally, Tier
    <3>3. QueueLength = 0 => QueueLength' = 0
      BY <3>2, Zenon DEF QueueLength
    <3> QED
      BY <2>1, <2>2, <2>3, <3>1, <3>3, Zenon DEF DrainInv
  <2> QED
    BY <2>4, <2>5, Zenon
<1>4. CASE Stop
  <2>1. UNCHANGED <<wpc, ppc>> /\ stopping' /\ spc' = "notify"
    BY <1>4, Zenon DEF Stop
  <2>2. \A w \in Workers : wpc[w] # "exited"
    BY <1>4, Zenon DEF Stop, DrainInv
  <2>3. racing' = {} => \A p \in Producers : ppc[p] = "idle"
    BY <1>4, Zenon DEF Stop
  <2> QED
    BY <2>1, <2>2, <2>3, Zenon DEF DrainInv
<1>5. CASE Shutdown
  <2>1. UNCHANGED <<stopping, racing, ppc, queue>> /\ spc # "idle" /\ spc' # "idle"
    BY <1>5, Zenon DEF Shutdown, StopNotify, Grace, Join, history
  <2>2. \A w \in Workers : wpc'[w] = "exited" <=> wpc[w] = "exited"
    BY <1>5, Zenon DEF Shutdown, StopNotify, NotifyAll, Grace, Join
  <2>3. spc' = "joined" => \A w \in Workers : wpc[w] = "exited"
    BY <1>5, Zenon DEF Shutdown, StopNotify, Grace, Join
  <2>4. UNCHANGED QueueLength
    BY <2>1, Zenon DEF QueueLength
  <2> QED
    BY <2>1, <2>2, <2>3, <2>4, Zenon DEF DrainInv
<1>6. CASE UNCHANGED vars
  BY <1>6, Zenon DEF vars, history, DrainInv, QueueLength
<1> QED
  BY <1>1, <1>2, <1>3, <1>4, <1>5, <1>6, Zenon DEF Next

\* The shutdown invariant holds in every reachable state.
THEOREM DrainInvariant == Spec => []DrainInv
<1>1. Init => DrainInv
  BY Zenon DEF Init, DrainInv
<1> QED
  BY <1>1, DrainStep, TypeCorrect, AccountingCorrect, PTL DEF Spec

\* shutdown() drains a pool that no thread was submitting to: once the
\* workers are joined the queues are empty and every accepted task has run,
\* for every number of threads and tasks.
THEOREM QuietShutdown == Spec => []QuietShutdownDrains
<1>1. TypeOK /\ Accounting /\ DrainInv => QuietShutdownDrains
  <2> SUFFICES ASSUME TypeOK, Accounting, DrainInv, spc = "joined", racing = {}
               PROVE  InQueue = {} /\ executed = enqueued
    BY Zenon DEF QuietShutdownDrains
  <2>1. \A w \in Workers : wpc[w] = "exited"
    BY Zenon DEF DrainInv
  <2>2. QueueLength = 0 /\ \A p \in Producers : ppc[p] = "idle"
    BY <2>1, PoolAssumption, Zenon DEF DrainInv
  <2>3. InQueue = {}
    BY <2>2, EmptyQueues DEF InQueue
  <2>4. /\ ProducersAt({"count", "count2"}) = {}
        /\ WorkersAt({"uncount", "start", "run", "tally"}) = {}
    BY <2>1, <2>2, Zenon DEF ProducersAt, WorkersAt
  <2>5. Cardinality({}) = 0
    BY FS_EmptySet, Zenon
  <2>6. enqueued + Cardinality({}) = executed + QueueLength + Cardinality({})
    BY <2>4, Zenon DEF Accounting
  <2>7. enqueued \in Nat /\ executed \in Nat
    BY Zenon DEF TypeOK
  <2> QED
    BY <2>2, <2>3, <2>5, <2>6, <2>7
<1> QED
  BY <1>1, TypeCorrect, AccountingCorrect, DrainInvariant, PTL
=============================================================================
