------------------------ MODULE ExpansionPoolProofs ------------------------
(***************************************************************************)
(* ExpansionPool for every set of requests, objects and workers, every     *)
(* size and every limit: its types, that no promise is lost or settled     *)
(* while still worked on, that the turn counts are right, that a queue     *)
(* always has a worker coming for it, that the pool implements             *)
(* ExpansionPromise, and what the two histories are bounded by.            *)
(*                                                                         *)
(* The handlers are functions of the pool's state, so the proof is a chain *)
(* of lemmas about those functions: each keeps Sound, pump() turns a       *)
(* Pumpable state into a Served one, and Onward says what it may do on the *)
(* way.  What every handler does to promises, queue and workers is then    *)
(* one lemma, StepPool, which the theorems about the promise, the cost and *)
(* the turn order rest on.                                                 *)
(*                                                                         *)
(* The other parts are about what the pool's workers compute: Series, what *)
(* a stored series is listed as and what the writes change in that, and    *)
(* FreeTime, the busy times of an account and the slots found between      *)
(* them.                                                                   *)
(***************************************************************************)
EXTENDS ExpansionPool, Series, FreeTime, FiniteSetTheorems, SequenceTheorems, WellFoundedInduction, TLAPS

\* The slots of the pool and the threads behind them agree.
SlotsAgree(p) ==
  \A w \in Workers :
    /\ p.slot[w] = "loading" => p.thread[w] = "loading" /\ p.held[w] = NoTask
    /\ p.slot[w] = "none" /\ ~p.closed => p.held[w] = NoTask
    /\ p.slot[w] # "none" => p.thread[w] \notin {"off", "dying"} /\ ~p.closed

Bounded(p) ==
  /\ Len(p.hanging) <= MaxRemembered
  /\ Cardinality(Slots(p)) <= Size

\* The inductive invariant, but for Served.
Sound(p) ==
  /\ p \in PoolType
  /\ Bounded(p)
  /\ Placed(p)
  /\ Counted(p)
  /\ SlotsAgree(p)
  /\ p.closed => p.waiting = {}

\* One run of pump()'s first loop is enough.
Pumpable(p) ==
  \/ p.waiting = {}
  \/ \A v, w \in Idle(p) : v = w
  \/ \E t \in Task : p.waiting = {t} /\ ~Known(p, KeyOf(t))

\* How an object's promise ends while the pool is open.
Ended == {"resolved", "failed", "timedOut"}

\* Between p and q promises settle, and nothing else becomes of them.
Settling(p, q) ==
  /\ q.closed = p.closed
  /\ \A t \in Task : \/ q.outcome[t] = p.outcome[t]
                     \/ p.outcome[t] = "pending" /\ q.outcome[t] \in Ended

\* A worker that has a task in q it had not in p took one that is not remembered.
TakesUnknown(p, q) ==
  /\ q.hanging = p.hanging
  /\ \A w \in Workers :
       q.held[w] # p.held[w] => q.held[w] = NoTask \/ ~Known(p, KeyOf(q.held[w]))

\* The queue between p and q: emptied, left alone, or a worker took the task whose
\* turn it was.
Turn(p, q) ==
  \/ q.waiting = {} /\ q.order = <<>>
  \/ /\ q.waiting = p.waiting /\ q.order = p.order
     /\ q.held = p.held /\ q.running = p.running
  \/ \E w \in Idle(p), t \in p.waiting :
       /\ q.waiting \subseteq p.waiting \ {t}
       /\ \A u \in q.waiting : ~Before(p, u, t)
       /\ q.order \in TurnOrders(p, p.waiting \ q.waiting)
       /\ q.held = [p.held EXCEPT ![w] = t]
       /\ q.running = [p.running EXCEPT ![t[1]] = @ + 1]

\* Nothing is taken: the queue stays, or is refused as a whole.
Still(p, q) ==
  /\ Settling(p, q)
  /\ q.hanging = p.hanging /\ q.held = p.held
  /\ \/ q.waiting = {} /\ q.order = <<>>
     \/ q.waiting = p.waiting /\ q.order = p.order /\ q.running = p.running

\* What pump() does.
Onward(p, q) == Settling(p, q) /\ TakesUnknown(p, q) /\ Turn(p, q)

\* What a handler does before pump(): the queue stays, but for a task submitted, which
\* no worker takes out of turn, and a worker may lose its task.
Upkeep(p, m) ==
  /\ Sound(m)
  /\ \/ m.waiting = p.waiting /\ m.order = p.order
     \/ \E t \in Task :
          /\ p.waiting = {} \/ Idle(m) = {}
          /\ m.waiting = p.waiting \cup {t}
          /\ m.order = IF \E u \in p.waiting : u[1] = t[1] THEN p.order
                       ELSE Append(p.order, t[1])
  /\ \A w \in Workers : m.held[w] \in {p.held[w], NoTask}

QueueStep(p, q) == \E m : Upkeep(p, m) /\ Turn(m, q)

-----------------------------------------------------------------------------
LEMMA TaskParts ==
  ASSUME NEW t \in Task
  PROVE  t[1] \in Requests /\ t[2] \in Nat /\ KeyOf(t) \in Objects /\ t # NoTask
<1>1. PICK r \in Requests : t \in {r} \X (1..Len(Work[r]))
  BY DEF Task
<1>2. Work[r] \in Seq(Objects)
  BY PoolAssumption
<1>3. Len(Work[r]) \in Nat
  BY <1>2
<1> QED
  BY <1>1, <1>2, <1>3, PoolAssumption DEF KeyOf

LEMMA TaskFinite == IsFiniteSet(Task)
<1> DEFINE Tasks(r) == {r} \X (1..Len(Work[r]))
           f == [r \in Requests |-> Tasks(r)]
           All == {Tasks(r) : r \in Requests}
<1>1. f \in Surjection(Requests, All)
  BY DEF Surjection
<1>2. IsFiniteSet(All)
  BY <1>1, FS_Surjection, PoolAssumption
<1>3. ASSUME NEW T \in All
      PROVE  IsFiniteSet(T)
  <2>1. PICK r \in Requests : T = Tasks(r)
    OBVIOUS
  <2>2. Len(Work[r]) \in Nat
    BY PoolAssumption
  <2>3. IsFiniteSet({r}) /\ IsFiniteSet(1..Len(Work[r]))
    <3>1. IsFiniteSet({r})
      BY FS_Singleton
    <3>2. 1 \in Int /\ Len(Work[r]) \in Int
      BY <2>2
    <3>3. IsFiniteSet(1..Len(Work[r]))
      BY <3>2, FS_Interval
    <3> QED
      BY <3>1, <3>3
  <2> QED
    BY <2>1, <2>3, FS_Product
<1>4. IsFiniteSet(UNION All)
  BY <1>2, <1>3, FS_UNION
<1> QED
  BY <1>4 DEF Task

\* Any order take() leaves lists requests.
LEMMA OrdersType ==
  ASSUME NEW p \in PoolType, NEW T, NEW o \in TurnOrders(p, T)
  PROVE  o \in Seq(Requests)
<1> DEFINE Q == {t[1] : t \in p.waiting \ T}
<1>1. Q \subseteq Requests
  BY TaskParts DEF PoolType
<1>2. Cardinality(Q) \in Nat
  BY <1>1, PoolAssumption, FS_Subset, FS_CardinalityType
<1>3. o \in [1..Cardinality(Q) -> Q]
  BY DEF TurnOrders, SetToSeqs
<1>4. o \in [1..Cardinality(Q) -> Requests]
  BY <1>1, <1>3
<1> HIDE DEF Q
<1> QED
  BY <1>2, <1>4, SeqDef

-----------------------------------------------------------------------------
(* The functions the handlers are made of keep Sound.                      *)

LEMMA SettleFields ==
  ASSUME NEW p \in PoolType, NEW T, NEW how \in Settled
  PROVE  LET q == Settle(p, T, how)
         IN  /\ q \in PoolType
             /\ \A t \in Task : q.outcome[t] =
                  IF t \in T /\ p.outcome[t] = "pending" THEN how ELSE p.outcome[t]
             /\ q.closed = p.closed /\ q.waiting = p.waiting /\ q.order = p.order
             /\ q.running = p.running /\ q.slot = p.slot /\ q.held = p.held
             /\ q.thread = p.thread /\ q.job = p.job /\ q.hanging = p.hanging
BY DEF Settle, PoolType, Settled

LEMMA OnwardStill ==
  ASSUME NEW p, NEW q, NEW r, Onward(p, q), Still(q, r)
  PROVE  Onward(p, r)
<1>1. Settling(p, r)
  BY DEF Onward, Still, Settling
<1>2. TakesUnknown(p, r)
  BY DEF Onward, Still, TakesUnknown
<1>3. Turn(p, r)
  <2>1. CASE r.waiting = {} /\ r.order = <<>>
    BY <2>1 DEF Turn
  <2>2. CASE ~(r.waiting = {} /\ r.order = <<>>)
    <3>1. /\ r.waiting = q.waiting /\ r.order = q.order
          /\ r.running = q.running /\ r.held = q.held
      BY <2>2 DEF Still
    <3>2. Turn(p, q)
      BY DEF Onward
    <3> QED
      BY <3>1, <3>2 DEF Turn
  <2> QED
    BY <2>1, <2>2
<1> QED
  BY <1>1, <1>2, <1>3 DEF Onward

LEMMA OnwardSelf ==
  ASSUME NEW p
  PROVE  Onward(p, p)
BY DEF Onward, Settling, TakesUnknown, Turn

LEMMA RefuseAllSound ==
  ASSUME NEW p, Sound(p), NEW how \in Ended
  PROVE  LET q == RefuseAll(p, how)
         IN  /\ Sound(q)
             /\ q.waiting = {} /\ q.slot = p.slot /\ q.held = p.held
             /\ q.closed = p.closed /\ q.thread = p.thread
             /\ Still(p, q)
<1> DEFINE s == Settle(p, p.waiting, how)
           q == RefuseAll(p, how)
<1>1. p \in PoolType
  BY DEF Sound
<1>2. /\ s \in PoolType
      /\ \A t \in Task : s.outcome[t] =
           IF t \in p.waiting /\ p.outcome[t] = "pending" THEN how ELSE p.outcome[t]
      /\ s.closed = p.closed /\ s.waiting = p.waiting /\ s.order = p.order
      /\ s.running = p.running /\ s.slot = p.slot /\ s.held = p.held
      /\ s.thread = p.thread /\ s.job = p.job /\ s.hanging = p.hanging
  BY <1>1, SettleFields DEF Ended, Settled
<1>q. q = [s EXCEPT !.waiting = {}, !.order = <<>>]
  BY DEF RefuseAll
<1> HIDE DEF s, q
<1>3. /\ q \in PoolType
      /\ q.outcome = s.outcome /\ q.waiting = {} /\ q.order = <<>>
      /\ q.closed = p.closed /\ q.running = p.running /\ q.slot = p.slot
      /\ q.held = p.held /\ q.thread = p.thread /\ q.hanging = p.hanging
  <2>1. <<>> \in Seq(Requests)
    OBVIOUS
  <2> QED
    BY <1>2, <1>q, <2>1 DEF PoolType
<1>4. Placed(q)
  BY <1>1, <1>2, <1>3 DEF Sound, Placed, Holding, Slots, Ended
<1>5. Counted(q) /\ SlotsAgree(q) /\ Bounded(q)
  BY <1>3 DEF Sound, Counted, WorkersOn, SlotsAgree, Bounded, Slots
<1>6. Still(p, q)
  BY <1>2, <1>3 DEF Still, Settling
<1> QED
  BY <1>3, <1>4, <1>5, <1>6 DEF Sound, q

\* What a group's count needs when worker w takes task t.
LEMMA WorkersOnTake ==
  ASSUME NEW p \in PoolType, NEW w \in Workers, p.held[w] = NoTask, NEW t \in Task,
         NEW q \in PoolType, q.held = [p.held EXCEPT ![w] = t],
         NEW r \in Requests
  PROVE  Cardinality(WorkersOn(q, r)) =
           IF r = t[1] THEN Cardinality(WorkersOn(p, r)) + 1
                       ELSE Cardinality(WorkersOn(p, r))
<1>1. WorkersOn(q, r) = IF r = t[1] THEN WorkersOn(p, r) \cup {w} ELSE WorkersOn(p, r)
  BY TaskParts DEF WorkersOn, PoolType
<1>2. w \notin WorkersOn(p, r)
  BY DEF WorkersOn
<1>3. IsFiniteSet(WorkersOn(p, r))
  BY PoolAssumption, FS_Subset DEF WorkersOn
<1> QED
  BY <1>1, <1>2, <1>3, FS_AddElement

LEMMA TakeForSound ==
  ASSUME NEW p, Sound(p), NEW w \in Idle(p), NEW q \in TakeFor(p, w)
  PROVE  /\ Sound(q) /\ Onward(p, q)
         /\ q.slot = p.slot
         /\ q.waiting = {} \/ (q.held[w] # NoTask /\ \A v \in Workers \ {w} : q.held[v] = p.held[v])
         /\ \A u \in Task : p.waiting = {u} => q.waiting = {}
<1> DEFINE runnable == {t \in p.waiting : ~Known(p, KeyOf(t))}
           skipped(t) == {u \in p.waiting : Before(p, u, t)}
           first == {t \in runnable : skipped(t) \cap runnable = {}}
<1>w. /\ w \in Workers /\ p.slot[w] = "ready" /\ p.held[w] = NoTask
      /\ p \in PoolType /\ ~p.closed
  BY DEF Idle, Sound, SlotsAgree
<1>1. CASE runnable = {}
  <2>1. q = RefuseAll(p, "timedOut")
    BY <1>1 DEF TakeFor
  <2> QED
    BY <2>1, RefuseAllSound, OnwardSelf, OnwardStill DEF Ended
<1>2. CASE runnable # {}
  <2>0. PICK t \in first :
          \E o \in TurnOrders(p, skipped(t) \cup {t}) :
            q = Dispatch([Settle(p, skipped(t), "timedOut")
                            EXCEPT !.waiting = @ \ (skipped(t) \cup {t}), !.order = o], w, t)
    BY <1>2 DEF TakeFor
  <2>1. PICK o \in TurnOrders(p, skipped(t) \cup {t}) :
          q = Dispatch([Settle(p, skipped(t), "timedOut")
                          EXCEPT !.waiting = @ \ (skipped(t) \cup {t}), !.order = o], w, t)
    BY <2>0
  <2> DEFINE s == Settle(p, skipped(t), "timedOut")
             m == [s EXCEPT !.waiting = @ \ (skipped(t) \cup {t}), !.order = o]
  <2>2. /\ t \in p.waiting /\ t \notin skipped(t) /\ skipped(t) \subseteq p.waiting
        /\ ~Known(p, KeyOf(t))
        /\ \A u \in p.waiting \ skipped(t) : ~Before(p, u, t)
    OBVIOUS
  <2>3. t \in Task /\ t[1] \in Requests /\ t # NoTask
    BY <1>w, <2>2, TaskParts DEF PoolType
  <2>4. /\ s \in PoolType
        /\ \A u \in Task : s.outcome[u] =
             IF u \in skipped(t) /\ p.outcome[u] = "pending" THEN "timedOut" ELSE p.outcome[u]
        /\ s.closed = p.closed /\ s.waiting = p.waiting /\ s.order = p.order
        /\ s.running = p.running /\ s.slot = p.slot /\ s.held = p.held
        /\ s.thread = p.thread /\ s.job = p.job /\ s.hanging = p.hanging
    BY <1>w, SettleFields DEF Settled
  <2>5. o \in Seq(Requests)
    BY <1>w, OrdersType
  <2> HIDE DEF s, runnable, skipped, first
  <2>6. q = [m EXCEPT !.held[w] = t, !.thread[w] = "working", !.job[w] = t,
                      !.running[t[1]] = @ + 1]
    BY <2>1 DEF Dispatch, s
  <2>7. /\ m \in PoolType
        /\ m.waiting = p.waiting \ (skipped(t) \cup {t})
        /\ m.closed = p.closed /\ m.outcome = s.outcome
        /\ m.running = p.running /\ m.slot = p.slot /\ m.held = p.held
        /\ m.thread = p.thread /\ m.hanging = p.hanging /\ m.order = o
    BY <2>4, <2>5 DEF PoolType
  <2> HIDE DEF m
  <2>8. /\ q \in PoolType
        /\ q.waiting = p.waiting \ (skipped(t) \cup {t})
        /\ q.closed = p.closed /\ q.outcome = s.outcome
        /\ q.running = [p.running EXCEPT ![t[1]] = @ + 1]
        /\ q.slot = p.slot /\ q.held = [p.held EXCEPT ![w] = t]
        /\ q.thread = [p.thread EXCEPT ![w] = "working"] /\ q.hanging = p.hanging
        /\ q.order = o
    <3>1. q = [m EXCEPT !.held = [m.held EXCEPT ![w] = t],
                        !.thread = [m.thread EXCEPT ![w] = "working"],
                        !.job = [m.job EXCEPT ![w] = t],
                        !.running = [m.running EXCEPT ![t[1]] = m.running[t[1]] + 1]]
      BY <2>6, <2>7 DEF PoolType
    <3>2. /\ [m.held EXCEPT ![w] = t] \in [Workers -> Task \cup {NoTask}]
          /\ [m.thread EXCEPT ![w] = "working"]
               \in [Workers -> {"off", "loading", "idle", "working", "dying"}]
          /\ [m.job EXCEPT ![w] = t] \in [Workers -> Task \cup {NoTask}]
          /\ [m.running EXCEPT ![t[1]] = m.running[t[1]] + 1] \in [Requests -> Nat]
      BY <1>w, <2>3, <2>7 DEF PoolType
    <3> QED
      BY <2>7, <3>1, <3>2 DEF PoolType
  <2>9. Placed(q)
    <3> SUFFICES ASSUME NEW u \in Task
                 PROVE  /\ q.outcome[u] = "pending" <=> u \in q.waiting \/ Holding(q, u) # {}
                        /\ u \in q.waiting => Holding(q, u) = {}
                        /\ \A x, y \in Holding(q, u) : x = y
      BY DEF Placed
    <3>1. /\ p.outcome[u] = "pending" <=> u \in p.waiting \/ Holding(p, u) # {}
          /\ u \in p.waiting => Holding(p, u) = {}
          /\ \A x, y \in Holding(p, u) : x = y
      BY DEF Sound, Placed
    <3>2. Holding(q, u) = IF u = t THEN {w} \cup Holding(p, u) ELSE Holding(p, u)
      BY <1>w, <2>3, <2>8, TaskParts DEF Holding, Slots, PoolType
    <3> QED
      BY <2>2, <2>4, <2>8, <3>1, <3>2
  <2>10. Counted(q)
    <3> SUFFICES ASSUME NEW r \in Requests
                 PROVE  q.running[r] = Cardinality(WorkersOn(q, r))
      BY DEF Counted
    <3>1. p.running[r] = Cardinality(WorkersOn(p, r))
      BY DEF Sound, Counted
    <3>2. q.running[r] = IF r = t[1] THEN p.running[r] + 1 ELSE p.running[r]
      BY <1>w, <2>3, <2>8 DEF PoolType
    <3> QED
      BY <1>w, <2>3, <2>8, <3>1, <3>2, WorkersOnTake
  <2>11. SlotsAgree(q) /\ Bounded(q)
    BY <1>w, <2>8 DEF Sound, SlotsAgree, Bounded, Slots, PoolType
  <2>12. Sound(q)
    BY <1>w, <2>8, <2>9, <2>10, <2>11 DEF Sound
  <2>13. q.held[w] # NoTask /\ \A v \in Workers \ {w} : q.held[v] = p.held[v]
    BY <1>w, <2>3, <2>8 DEF PoolType
  <2>14. \A u \in Task : p.waiting = {u} => q.waiting = {}
    BY <2>2, <2>8
  <2>15. Settling(p, q)
    BY <2>4, <2>8 DEF Settling, Ended
  <2>16. TakesUnknown(p, q)
    BY <1>w, <2>2, <2>8 DEF TakesUnknown, PoolType
  <2>17. Turn(p, q)
    <3>1. p.waiting \ q.waiting = skipped(t) \cup {t}
      BY <2>2, <2>8
    <3>2. q.order \in TurnOrders(p, p.waiting \ q.waiting)
      BY <2>1, <2>8, <3>1
    <3>3. q.waiting \subseteq p.waiting \ {t} /\ \A u \in q.waiting : ~Before(p, u, t)
      BY <2>2, <2>8
    <3> QED
      BY <1>w, <2>2, <2>8, <3>2, <3>3, Zenon DEF Turn
  <2> QED
    BY <2>8, <2>12, <2>13, <2>14, <2>15, <2>16, <2>17 DEF Onward
<1> QED
  BY <1>1, <1>2

LEMMA TakenSound ==
  ASSUME NEW p, Sound(p), Pumpable(p), NEW q \in Taken(p)
  PROVE  Sound(q) /\ Onward(p, q) /\ (q.waiting = {} \/ Idle(q) = {})
<1>1. CASE Idle(p) = {} \/ p.waiting = {}
  BY <1>1, OnwardSelf DEF Taken
<1>2. CASE ~(Idle(p) = {} \/ p.waiting = {})
  <2>1. PICK w \in Idle(p) : q \in TakeFor(p, w)
    BY <1>2 DEF Taken
  <2>2. /\ Sound(q) /\ Onward(p, q)
        /\ q.slot = p.slot
        /\ \/ q.waiting = {}
           \/ q.held[w] # NoTask /\ \A v \in Workers \ {w} : q.held[v] = p.held[v]
        /\ \A u \in Task : p.waiting = {u} => q.waiting = {}
    BY <2>1, TakeForSound
  <2>3. CASE q.waiting = {}
    BY <2>2, <2>3
  <2>4. CASE \A v \in Idle(p) : v = w
    BY <2>2, <2>4 DEF Idle
  <2> QED
    BY <1>2, <2>1, <2>2, <2>3, <2>4 DEF Pumpable
<1> QED
  BY <1>1, <1>2

LEMMA SpawnedSound ==
  ASSUME NEW p, Sound(p), p.waiting = {} \/ Idle(p) = {}, NEW q \in Spawned(p)
  PROVE  Sound(q) /\ Served(q) /\ Still(p, q)
<1> DEFINE short == Cardinality(p.waiting) - Cardinality(Loading(p))
           room == Size - Cardinality(Slots(p))
           wanted == IF short < room THEN short ELSE room
           fresh == {w \in Workers : p.slot[w] = "none" /\ p.thread[w] = "off"}
<1>1. /\ p \in PoolType
      /\ IsFiniteSet(p.waiting) /\ Cardinality(p.waiting) \in Nat
      /\ IsFiniteSet(Slots(p)) /\ Cardinality(Slots(p)) \in Nat
      /\ IsFiniteSet(Loading(p)) /\ Cardinality(Loading(p)) \in Nat
  <2>1. p.waiting \subseteq Task /\ Slots(p) \subseteq Workers /\ Loading(p) \subseteq Workers
    BY DEF Sound, PoolType, Slots, Loading
  <2>2. IsFiniteSet(p.waiting) /\ IsFiniteSet(Slots(p)) /\ IsFiniteSet(Loading(p))
    BY <2>1, TaskFinite, PoolAssumption, FS_Subset
  <2> QED
    BY <2>2, FS_CardinalityType DEF Sound
<1>2. p.waiting # {} <=> Cardinality(p.waiting) > 0
  BY <1>1, FS_EmptySet
<1>3. Size \in Nat /\ Size > 0
  BY PoolAssumption
<1>4. CASE wanted <= 0
  <2>1. q = p
    BY <1>4 DEF Spawned
  <2>2. ASSUME p.waiting # {}
        PROVE  Slots(p) # {}
    <3>1. Cardinality(Loading(p)) > 0 \/ Cardinality(Slots(p)) > 0
      BY <1>1, <1>2, <1>3, <1>4, <2>2
    <3> QED
      BY <3>1, FS_EmptySet DEF Loading, Slots
  <2> QED
    BY <2>1, <2>2 DEF Served, Still, Settling
<1>5. CASE wanted > 0
  <2>1. PICK N \in SUBSET fresh :
          /\ Cardinality(N) <= wanted
          /\ q = IF Cardinality(N) < wanted /\ Slots(p) \cup N = {}
                 THEN RefuseAll(p, "failed")
                 ELSE [p EXCEPT
                         !.slot = [w \in Workers |-> IF w \in N THEN "loading" ELSE @[w]],
                         !.thread = [w \in Workers |-> IF w \in N THEN "loading" ELSE @[w]]]
    <3>1. ~(wanted <= 0)
      BY <1>1, <1>3, <1>5
    <3> QED
      BY <3>1 DEF Spawned
  <2>2. CASE Cardinality(N) < wanted /\ Slots(p) \cup N = {}
    <3>1. q = RefuseAll(p, "failed")
      BY <2>1, <2>2
    <3> QED
      BY <3>1, RefuseAllSound DEF Ended, Served
  <2>3. CASE ~(Cardinality(N) < wanted /\ Slots(p) \cup N = {})
    <3>1. q = [p EXCEPT
                 !.slot = [w \in Workers |-> IF w \in N THEN "loading" ELSE p.slot[w]],
                 !.thread = [w \in Workers |-> IF w \in N THEN "loading" ELSE p.thread[w]]]
      BY <1>1, <2>1, <2>3 DEF PoolType
    <3>2. /\ q \in PoolType
          /\ q.slot = [w \in Workers |-> IF w \in N THEN "loading" ELSE p.slot[w]]
          /\ q.thread = [w \in Workers |-> IF w \in N THEN "loading" ELSE p.thread[w]]
          /\ q.closed = p.closed /\ q.outcome = p.outcome /\ q.waiting = p.waiting
          /\ q.running = p.running /\ q.held = p.held /\ q.hanging = p.hanging
          /\ q.order = p.order
      <4>1. [w \in Workers |-> IF w \in N THEN "loading" ELSE p.slot[w]]
               \in [Workers -> {"none", "loading", "ready"}]
        BY <1>1 DEF PoolType
      <4>2. [w \in Workers |-> IF w \in N THEN "loading" ELSE p.thread[w]]
               \in [Workers -> {"off", "loading", "idle", "working", "dying"}]
        BY <1>1 DEF PoolType
      <4> QED
        BY <1>1, <3>1, <4>1, <4>2 DEF PoolType
    <3>3. p.waiting # {} /\ ~p.closed
      BY <1>1, <1>2, <1>3, <1>5 DEF Sound
    <3>4. \A w \in N : w \in Workers /\ p.slot[w] = "none" /\ p.held[w] = NoTask
      BY <3>3 DEF Sound, SlotsAgree
    <3>5. Slots(q) = Slots(p) \cup N
      BY <1>1, <3>2, <3>4 DEF Slots, PoolType
    <3>6. Cardinality(Slots(q)) <= Size /\ Slots(q) # {}
      <4>1. IsFiniteSet(N) /\ Cardinality(N) \in Nat
        BY PoolAssumption, FS_Subset, FS_CardinalityType
      <4>2. Slots(p) \cap N = {}
        BY <3>4 DEF Slots
      <4>3. Cardinality(Slots(p) \cup N) = Cardinality(Slots(p)) + Cardinality(N)
        <5>1. Cardinality(Slots(p) \cup N) =
                Cardinality(Slots(p)) + Cardinality(N) - Cardinality(Slots(p) \cap N)
          BY <1>1, <4>1, FS_Union
        <5>2. Cardinality(Slots(p) \cap N) = 0
          BY <4>2, FS_EmptySet
        <5> QED
          BY <1>1, <4>1, <5>1, <5>2
      <4>4. Cardinality(N) <= room
        BY <1>1, <1>3, <2>1, <4>1
      <4>5. Cardinality({}) = 0
        BY FS_EmptySet
      <4>6. Slots(p) \cup N # {}
        BY <1>5, <2>3, <4>1, <4>5
      <4> QED
        BY <1>1, <1>3, <3>5, <4>1, <4>3, <4>4, <4>6
    <3>7. \A u \in Task : Holding(q, u) = Holding(p, u)
      BY <1>1, <3>2, <3>4, <3>5, TaskParts DEF Holding
    <3>8. Placed(q) /\ Counted(q)
      BY <3>2, <3>7 DEF Sound, Placed, Counted, WorkersOn
    <3>9. SlotsAgree(q)
      BY <1>1, <3>2, <3>3, <3>4 DEF Sound, SlotsAgree, PoolType
    <3>10. Sound(q)
      BY <3>2, <3>3, <3>6, <3>8, <3>9 DEF Sound, Bounded
    <3>11. Idle(q) = {}
      BY <1>1, <3>2, <3>3 DEF Idle, PoolType
    <3> QED
      BY <3>2, <3>6, <3>10, <3>11 DEF Served, Still, Settling
  <2> QED
    BY <2>2, <2>3
<1> QED
  BY <1>1, <1>3, <1>4, <1>5

\* What pump() promises: whatever order it takes in, and however many workers
\* fail to start, the queue it leaves has a worker coming for it.
LEMMA PumpServes ==
  ASSUME NEW p, Sound(p), Pumpable(p), NEW q \in Pump(p)
  PROVE  Sound(q) /\ Served(q) /\ Onward(p, q)
BY TakenSound, SpawnedSound, OnwardStill DEF Pump

-----------------------------------------------------------------------------
(* The handlers.                                                           *)

\* q is p after worker w gave up its task, whose promise is settled with it.
GivenUp(p, q, w, how) ==
  /\ q \in PoolType
  /\ q.closed = p.closed /\ q.waiting = p.waiting
  /\ \A u \in Task : q.outcome[u] =
       IF u = p.held[w] /\ p.outcome[u] = "pending" THEN how ELSE p.outcome[u]
  /\ q.held = [p.held EXCEPT ![w] = NoTask]
  /\ \A r \in Requests : q.running[r] =
       IF p.held[w] # NoTask /\ p.held[w][1] = r THEN p.running[r] - 1 ELSE p.running[r]
  /\ q.slot = p.slot \/ q.slot = [p.slot EXCEPT ![w] = "none"]

LEMMA ReleaseSound ==
  ASSUME NEW p, Sound(p), NEW w \in Workers, NEW how \in Settled,
         NEW q, GivenUp(p, q, w, how), SlotsAgree(q), Bounded(q)
  PROVE  Sound(q)
<1> USE DEF GivenUp
<1>1. p \in PoolType
  BY DEF Sound
<1>2. \A u \in Task : Holding(q, u) = Holding(p, u) \ {v \in {w} : p.held[w] = u}
  BY <1>1, TaskParts DEF Holding, Slots, PoolType
<1>3. Placed(q)
  <2> SUFFICES ASSUME NEW u \in Task
               PROVE  /\ q.outcome[u] = "pending" <=> u \in q.waiting \/ Holding(q, u) # {}
                      /\ u \in q.waiting => Holding(q, u) = {}
                      /\ \A x, y \in Holding(q, u) : x = y
    BY DEF Placed
  <2>1. /\ p.outcome[u] = "pending" <=> u \in p.waiting \/ Holding(p, u) # {}
        /\ u \in p.waiting => Holding(p, u) = {}
        /\ \A x, y \in Holding(p, u) : x = y
    BY DEF Sound, Placed
  <2>2. CASE p.held[w] # u
    BY <1>1, <1>2, <2>1, <2>2
  <2>3. CASE p.held[w] = u /\ p.slot[w] # "none"
    <3>1. w \in Holding(p, u)
      BY <2>3 DEF Holding, Slots
    <3>2. Holding(q, u) = {} /\ u \notin p.waiting /\ p.outcome[u] = "pending"
      BY <1>2, <2>1, <2>3, <3>1
    <3> QED
      BY <2>3, <3>2 DEF Settled
  <2>4. CASE p.held[w] = u /\ p.slot[w] = "none"
    <3>1. p.closed
      BY <2>4, TaskParts DEF Sound, SlotsAgree
    <3>2. p.waiting = {} /\ Holding(p, u) = {}
      BY <3>1 DEF Sound, SlotsAgree, Holding, Slots
    <3> QED
      BY <1>1, <1>2, <2>1, <3>2
  <2> QED
    BY <2>2, <2>3, <2>4
<1>4. Counted(q)
  <2> SUFFICES ASSUME NEW r \in Requests
               PROVE  q.running[r] = Cardinality(WorkersOn(q, r))
    BY DEF Counted
  <2>1. WorkersOn(q, r) = WorkersOn(p, r) \ {w}
    BY <1>1 DEF WorkersOn, PoolType
  <2>2. IsFiniteSet(WorkersOn(p, r))
    BY PoolAssumption, FS_Subset DEF WorkersOn
  <2>3. w \in WorkersOn(p, r) <=> p.held[w] # NoTask /\ p.held[w][1] = r
    BY DEF WorkersOn
  <2>4. p.running[r] = Cardinality(WorkersOn(p, r))
    BY DEF Sound, Counted
  <2>5. Cardinality(WorkersOn(p, r) \ {w}) =
          IF w \in WorkersOn(p, r) THEN Cardinality(WorkersOn(p, r)) - 1
                                   ELSE Cardinality(WorkersOn(p, r))
    BY <2>2, FS_RemoveElement
  <2> QED
    BY <2>1, <2>3, <2>4, <2>5
<1> QED
  BY <1>3, <1>4 DEF Sound

\* release() alone, by its fields.
LEMMA ReleaseFields ==
  ASSUME NEW p \in PoolType, Counted(p), NEW w \in Workers
  PROVE  LET q == Release(p, w)
         IN  /\ q \in PoolType
             /\ q.closed = p.closed /\ q.outcome = p.outcome /\ q.waiting = p.waiting
             /\ q.slot = p.slot /\ q.thread = p.thread /\ q.job = p.job
             /\ q.hanging = p.hanging /\ q.order = p.order
             /\ q.held = [p.held EXCEPT ![w] = NoTask]
             /\ \A r \in Requests : q.running[r] =
                  IF p.held[w] # NoTask /\ p.held[w][1] = r
                  THEN p.running[r] - 1 ELSE p.running[r]
<1>2. CASE p.held[w] = NoTask
  BY <1>2 DEF Release, PoolType
<1>3. CASE p.held[w] # NoTask
  <2> DEFINE t == p.held[w]
  <2>1. t \in Task /\ t[1] \in Requests
    BY <1>3, TaskParts DEF PoolType
  <2>2. p.running[t[1]] \in Nat /\ p.running[t[1]] > 0
    <3>1. w \in WorkersOn(p, t[1])
      BY <1>3 DEF WorkersOn
    <3>2. IsFiniteSet(WorkersOn(p, t[1]))
      BY PoolAssumption, FS_Subset DEF WorkersOn
    <3>3. Cardinality(WorkersOn(p, t[1])) # 0 /\ Cardinality(WorkersOn(p, t[1])) \in Nat
      BY <3>1, <3>2, FS_EmptySet, FS_CardinalityType
    <3> QED
      BY <2>1, <3>3 DEF Counted
  <2>3. /\ [p.running EXCEPT ![t[1]] = p.running[t[1]] - 1] \in [Requests -> Nat]
        /\ [p.held EXCEPT ![w] = NoTask] \in [Workers -> Task \cup {NoTask}]
    BY <2>1, <2>2 DEF PoolType
  <2>4. Release(p, w) = [p EXCEPT !.running = [p.running EXCEPT ![t[1]] = p.running[t[1]] - 1],
                                  !.held = [p.held EXCEPT ![w] = NoTask]]
    BY <1>3 DEF Release, PoolType
  <2> DEFINE q == Release(p, w)
  <2> HIDE DEF q
  <2>5. /\ q \in PoolType
        /\ q.closed = p.closed /\ q.outcome = p.outcome /\ q.waiting = p.waiting
        /\ q.slot = p.slot /\ q.thread = p.thread /\ q.job = p.job
        /\ q.hanging = p.hanging /\ q.order = p.order
        /\ q.held = [p.held EXCEPT ![w] = NoTask]
        /\ q.running = [p.running EXCEPT ![t[1]] = p.running[t[1]] - 1]
    BY <2>3, <2>4 DEF PoolType, q
  <2>6. \A r \in Requests : q.running[r] =
          IF t[1] = r THEN p.running[r] - 1 ELSE p.running[r]
    BY <2>1, <2>5 DEF PoolType
  <2> QED
    BY <1>3, <2>5, <2>6 DEF q
<1> QED
  BY <1>2, <1>3

\* m is p but for what the thread of worker w is doing.
OnlyThread(p, m, w) ==
  /\ m \in PoolType
  /\ m.closed = p.closed /\ m.outcome = p.outcome /\ m.waiting = p.waiting
  /\ m.running = p.running /\ m.slot = p.slot /\ m.held = p.held
  /\ m.hanging = p.hanging /\ m.order = p.order
  /\ \A v \in Workers \ {w} : m.thread[v] = p.thread[v]

\* q is sound, and p without the slot of worker w.
WithoutSlot(p, q, w) ==
  /\ Sound(q) /\ Settling(p, q)
  /\ q.waiting = p.waiting /\ q.order = p.order /\ q.hanging = p.hanging
  /\ q.slot = [p.slot EXCEPT ![w] = "none"]
  /\ q.held = [p.held EXCEPT ![w] = NoTask]

\* A slot that leaves the pool with its task failed, whatever its thread is in.
LEMMA GoneSound ==
  ASSUME NEW p, Sound(p), NEW w \in Workers, NEW how \in Ended,
         NEW m, OnlyThread(p, m, w)
  PROVE  WithoutSlot(p, Settle(Removed(m, w), {m.held[w]} \ {NoTask}, how), w)
<1> USE DEF OnlyThread
<1> DEFINE l == Release(m, w)
           g == Removed(m, w)
           T == {m.held[w]} \ {NoTask}
           q == Settle(g, T, how)
<1>1. p \in PoolType /\ Counted(m)
  BY DEF Sound, Counted, WorkersOn
<1>2. /\ l \in PoolType
      /\ l.closed = m.closed /\ l.outcome = m.outcome /\ l.waiting = m.waiting
      /\ l.slot = m.slot /\ l.thread = m.thread /\ l.hanging = m.hanging
      /\ l.order = m.order
      /\ l.held = [m.held EXCEPT ![w] = NoTask]
      /\ \A r \in Requests : l.running[r] =
           IF m.held[w] # NoTask /\ m.held[w][1] = r THEN m.running[r] - 1 ELSE m.running[r]
  <2>1. m \in PoolType
    OBVIOUS
  <2> HIDE DEF OnlyThread, g, T, q
  <2> QED BY <1>1, <2>1, ReleaseFields
<1>3. g = [l EXCEPT !.slot = [l.slot EXCEPT ![w] = "none"]]
  BY <1>2 DEF Removed, PoolType
<1> HIDE DEF l, g
<1>4. /\ g \in PoolType
      /\ g.slot = [p.slot EXCEPT ![w] = "none"]
      /\ g.closed = p.closed /\ g.outcome = p.outcome /\ g.waiting = p.waiting
      /\ g.thread = m.thread /\ g.hanging = p.hanging /\ g.order = p.order
      /\ g.held = [p.held EXCEPT ![w] = NoTask]
      /\ \A r \in Requests : g.running[r] =
           IF p.held[w] # NoTask /\ p.held[w][1] = r THEN p.running[r] - 1 ELSE p.running[r]
  <2>1. [l.slot EXCEPT ![w] = "none"] \in [Workers -> {"none", "loading", "ready"}]
    BY <1>2 DEF PoolType
  <2>2. /\ g \in PoolType
        /\ g.slot = [l.slot EXCEPT ![w] = "none"]
        /\ g.closed = l.closed /\ g.outcome = l.outcome /\ g.waiting = l.waiting
        /\ g.thread = l.thread /\ g.hanging = l.hanging /\ g.order = l.order
        /\ g.held = l.held /\ g.running = l.running
    BY <1>2, <1>3, <2>1 DEF PoolType
  <2> QED
    BY <1>2, <2>2
<1>5. /\ q \in PoolType
      /\ \A u \in Task : q.outcome[u] =
           IF u \in T /\ g.outcome[u] = "pending" THEN how ELSE g.outcome[u]
      /\ q.closed = g.closed /\ q.waiting = g.waiting
      /\ q.running = g.running /\ q.slot = g.slot /\ q.held = g.held
      /\ q.thread = g.thread /\ q.hanging = g.hanging /\ q.order = g.order
  BY <1>4, SettleFields DEF Ended, Settled
<1>6. GivenUp(p, q, w, how)
  <2>1. \A u \in Task : u \in T <=> u = p.held[w]
    BY TaskParts
  <2> HIDE DEF q, T
  <2> QED
    BY <1>4, <1>5, <2>1 DEF GivenUp
<1> HIDE DEF q
<1>7. SlotsAgree(q)
  BY <1>1, <1>4, <1>5 DEF Sound, SlotsAgree, PoolType
<1>8. Bounded(q)
  <2>1. Slots(q) \subseteq Slots(p)
    BY <1>1, <1>4, <1>5 DEF Slots, PoolType
  <2>2. IsFiniteSet(Slots(p)) /\ IsFiniteSet(Slots(q))
    BY PoolAssumption, FS_Subset DEF Slots
  <2>3. Cardinality(Slots(q)) <= Cardinality(Slots(p))
        /\ Cardinality(Slots(q)) \in Nat /\ Cardinality(Slots(p)) \in Nat
    BY <2>1, <2>2, FS_Subset, FS_CardinalityType
  <2> QED
    BY <1>4, <1>5, <2>3, PoolAssumption DEF Sound, Bounded
<1>9. Sound(q)
  BY <1>6, <1>7, <1>8, ReleaseSound DEF Ended, Settled
<1>10. Settling(p, q)
  BY <1>4, <1>5 DEF Settling
<1> QED
  BY <1>4, <1>5, <1>9, <1>10 DEF q, g, WithoutSlot

LEMMA RemoveFirstType ==
  ASSUME NEW s \in Seq(Objects), NEW k
  PROVE  /\ RemoveFirst(s, k) \in Seq(Objects)
         /\ Len(RemoveFirst(s, k)) <= Len(s)
<1> DEFINE I == {i \in 1..Len(s) : s[i] = k}
<1>1. CASE I = {}
  BY <1>1 DEF RemoveFirst
<1>2. CASE I # {}
  <2>1. PICK i \in I : \A j \in I : i <= j
    <3> DEFINE R == OpToRel(<, Nat)
    <3>0. I \subseteq Nat
      OBVIOUS
    <3>1. IsWellFoundedOn(R, Nat)
      BY NatLessThanWellFounded
    <3>2. \A i, j \in Nat : <<j, i>> \in R <=> j < i
      BY DEF OpToRel
    <3> HIDE DEF I, R
    <3>3. PICK i \in I : \A j \in I : ~ (<<j, i>> \in R)
      BY <1>2, <3>0, <3>1, WFMin
    <3>4. ASSUME NEW j \in I
          PROVE  i <= j
      <4>1. ~(j < i)
        BY <3>0, <3>2, <3>3
      <4> QED
        BY <3>0, <4>1
    <3> QED
      BY <3>4
  <2> DEFINE i0 == CHOOSE x \in I : \A y \in I : x =< y
  <2>2. i0 \in I
    BY <2>1
  <2>3. RemoveFirst(s, k) = SubSeq(s, 1, i0 - 1) \o SubSeq(s, i0 + 1, Len(s))
    BY <1>2 DEF RemoveFirst, RemoveAt, SelectInSeq, Min
  <2> HIDE DEF i0
  <2>4. /\ SubSeq(s, 1, i0 - 1) \in Seq(Objects)
        /\ Len(SubSeq(s, 1, i0 - 1)) \in Nat
        /\ Len(SubSeq(s, 1, i0 - 1)) <= i0 - 1
    BY <2>2
  <2>5. /\ SubSeq(s, i0 + 1, Len(s)) \in Seq(Objects)
        /\ Len(SubSeq(s, i0 + 1, Len(s))) \in Nat
        /\ Len(SubSeq(s, i0 + 1, Len(s))) <= Len(s) - i0
    BY <2>2
  <2>6. /\ RemoveFirst(s, k) \in Seq(Objects)
        /\ Len(RemoveFirst(s, k)) =
             Len(SubSeq(s, 1, i0 - 1)) + Len(SubSeq(s, i0 + 1, Len(s)))
    BY <2>3, <2>4, <2>5, ConcatProperties
  <2>7. i0 \in Nat /\ Len(s) \in Nat /\ 1 <= i0 /\ i0 <= Len(s)
    BY <2>2
  <2> DEFINE before == Len(SubSeq(s, 1, i0 - 1))
             after == Len(SubSeq(s, i0 + 1, Len(s)))
  <2>8. /\ before \in Nat /\ before <= i0 - 1
        /\ after \in Nat /\ after <= Len(s) - i0
        /\ Len(RemoveFirst(s, k)) = before + after
    BY <2>4, <2>5, <2>6
  <2> HIDE DEF I, before, after
  <2>9. before + after <= Len(s)
    BY <2>7, <2>8
  <2> QED
    BY <2>6, <2>8, <2>9
<1> QED
  BY <1>1, <1>2

\* States that differ from a sound one only in what is remembered, or in the job
\* of a thread, are sound.
LEMMA SameSlotsSound ==
  ASSUME NEW p, Sound(p), NEW q \in PoolType,
         q.closed = p.closed, q.outcome = p.outcome, q.waiting = p.waiting,
         q.running = p.running, q.slot = p.slot, q.held = p.held,
         SlotsAgree(q), Len(q.hanging) <= MaxRemembered
  PROVE  Sound(q)
BY DEF Sound, Bounded, Placed, Holding, Slots, Counted, WorkersOn

LEMMA RememberSound ==
  ASSUME NEW p, Sound(p), NEW k \in Objects
  PROVE  LET q == Remember(p, k)
         IN  /\ Sound(q)
             /\ q.waiting = p.waiting /\ q.slot = p.slot /\ q.held = p.held
             /\ q.order = p.order /\ q.running = p.running
             /\ Settling(p, q)
             /\ Known(q, k)
<1> DEFINE rest == RemoveFirst(p.hanging, k)
           kept == IF Len(rest) >= MaxRemembered THEN Tail(rest) ELSE rest
           q == Remember(p, k)
<1>1. p \in PoolType /\ p.hanging \in Seq(Objects) /\ Len(p.hanging) <= MaxRemembered
  BY DEF Sound, Bounded, PoolType
<1>2. /\ rest \in Seq(Objects) /\ Len(rest) \in Nat
      /\ Len(rest) <= MaxRemembered
      /\ MaxRemembered \in Nat /\ MaxRemembered > 0
  <2>1. rest \in Seq(Objects) /\ Len(rest) <= Len(p.hanging)
    BY <1>1, RemoveFirstType
  <2> QED
    BY <1>1, <2>1, LenProperties, PoolAssumption
<1> HIDE DEF rest
<1>3. kept \in Seq(Objects) /\ Len(kept) \in Nat /\ Len(kept) + 1 <= MaxRemembered
  <2>1. CASE Len(rest) >= MaxRemembered
    <3>1. rest # <<>>
      BY <1>2, <2>1
    <3>2. Tail(rest) \in Seq(Objects) /\ Len(Tail(rest)) = Len(rest) - 1
      BY <1>2, <3>1, HeadTailProperties
    <3> QED
      BY <1>2, <2>1, <3>2
  <2> QED
    BY <1>2, <2>1
<1>4. q = [p EXCEPT !.hanging = Append(kept, k)]
  BY DEF Remember, rest
<1> HIDE DEF kept, q
<1>5. Append(kept, k) \in Seq(Objects) /\ Len(Append(kept, k)) <= MaxRemembered
  BY <1>3, AppendProperties
<1>6. /\ q \in PoolType /\ q.hanging = Append(kept, k)
      /\ q.closed = p.closed /\ q.outcome = p.outcome /\ q.waiting = p.waiting
      /\ q.running = p.running /\ q.slot = p.slot /\ q.held = p.held
      /\ q.thread = p.thread /\ q.order = p.order
  BY <1>1, <1>4, <1>5 DEF PoolType
<1>7. SlotsAgree(q)
  BY <1>6 DEF Sound, SlotsAgree
<1>8. Known(q, k)
  <2>1. Len(Append(kept, k)) = Len(kept) + 1 /\ Append(kept, k)[Len(kept) + 1] = k
    BY <1>3, AppendProperties
  <2> QED
    BY <1>3, <1>6, <2>1 DEF Known, Contains
<1>9. Settling(p, q)
  BY <1>6 DEF Settling
<1> QED
  BY <1>5, <1>6, <1>7, <1>8, <1>9, SameSlotsSound DEF q

LEMMA GoneOnward ==
  ASSUME NEW p, p \in PoolType, NEW w \in Workers, NEW g, WithoutSlot(p, g, w),
         NEW q, Onward(g, q)
  PROVE  Settling(p, q) /\ TakesUnknown(p, q) /\ QueueStep(p, q)
<1>1. Settling(p, q)
  BY DEF WithoutSlot, Onward, Settling
<1>2. \A v \in Workers : g.held[v] = IF v = w THEN NoTask ELSE p.held[v]
  BY DEF WithoutSlot, PoolType
<1>3. TakesUnknown(p, q)
  BY <1>2 DEF WithoutSlot, Onward, TakesUnknown, Known
<1>4. Upkeep(p, g)
  BY <1>2 DEF WithoutSlot, Upkeep
<1> QED
  BY <1>1, <1>3, <1>4 DEF Onward, QueueStep

\* lose()
LEMMA LostSound ==
  ASSUME NEW p, Sound(p), Served(p), NEW w \in Workers,
         NEW m, OnlyThread(p, m, w),
         NEW q \in Lost(m, w)
  PROVE  Sound(q) /\ Served(q) /\ Settling(p, q) /\ TakesUnknown(p, q) /\ QueueStep(p, q)
<1> DEFINE g == Settle(Removed(m, w), {m.held[w]} \ {NoTask}, "failed")
<1>1. p \in PoolType /\ m.slot = p.slot /\ m.waiting = p.waiting /\ m.held = p.held
  BY DEF Sound, OnlyThread
<1>2. CASE p.slot[w] = "none"
  <2>1. q = m
    BY <1>1, <1>2 DEF Lost
  <2>2. SlotsAgree(m)
    <3>1. SlotsAgree(p) /\ m.closed = p.closed
          /\ \A v \in Workers \ {w} : m.thread[v] = p.thread[v]
      BY DEF Sound, OnlyThread
    <3> HIDE DEF g
    <3> QED BY <1>1, <1>2, <3>1 DEF SlotsAgree
  <2>3. Sound(m)
    BY <2>2, SameSlotsSound DEF Sound, Bounded, OnlyThread
  <2>4. Served(q)
    BY <1>1, <2>1 DEF Served, Slots, Idle
  <2>5. Settling(p, q) /\ TakesUnknown(p, q)
    BY <2>1 DEF OnlyThread, Settling, TakesUnknown
  <2>6. Upkeep(p, p) /\ Turn(p, q)
    BY <2>1 DEF Upkeep, Turn, OnlyThread
  <2> QED
    BY <2>1, <2>3, <2>4, <2>5, <2>6 DEF QueueStep
<1>3. CASE p.slot[w] # "none"
  <2>0. WithoutSlot(p, g, w)
    <3>1. "failed" \in Ended
      BY DEF Ended
    <3> QED
      BY <3>1, GoneSound
  <2>1. /\ Sound(g)
        /\ g.waiting = p.waiting
        /\ g.slot = [p.slot EXCEPT ![w] = "none"]
        /\ g.held = [p.held EXCEPT ![w] = NoTask]
    BY <2>0 DEF WithoutSlot
  <2> HIDE DEF g
  <2>a. ASSUME Onward(g, q)
        PROVE  Settling(p, q) /\ TakesUnknown(p, q) /\ QueueStep(p, q)
    BY <1>1, <2>0, <2>a, GoneOnward
  <2>2. CASE p.slot[w] = "loading"
    <3>1. q = RefuseAll(g, "failed")
      BY <1>1, <1>3, <2>2 DEF Lost, g
    <3> QED
      BY <2>1, <2>a, <3>1, RefuseAllSound, OnwardSelf, OnwardStill DEF Served, Ended
  <2>3. CASE p.slot[w] # "loading"
    <3>1. q \in Pump(g)
      BY <1>1, <1>3, <2>3 DEF Lost, g
    <3>2. Idle(g) \subseteq Idle(p)
      BY <1>1, <2>1 DEF Idle, PoolType
    <3>3. Pumpable(g)
      BY <2>1, <3>2 DEF Pumpable, Served
    <3> QED
      BY <2>1, <2>a, <3>1, <3>3, PumpServes
  <2> QED
    BY <2>2, <2>3
<1> QED
  BY <1>2, <1>3

\* A task refused when it is submitted: the queue and the workers are as before.
LEMMA RefusedSound ==
  ASSUME NEW p, Sound(p), Served(p), NEW t \in Task, p.outcome[t] = "unsent",
         NEW how \in Settled, NEW q, q = [p EXCEPT !.outcome[t] = how]
  PROVE  Sound(q) /\ Served(q)
<1>1. p \in PoolType
  BY DEF Sound
<1>2. q = [p EXCEPT !.outcome = [p.outcome EXCEPT ![t] = how]]
  BY <1>1 DEF PoolType
<1>3. [p.outcome EXCEPT ![t] = how] \in [Task -> {"unsent", "pending"} \cup Settled]
  BY <1>1 DEF PoolType
<1>4. /\ q \in PoolType
      /\ q.outcome = [p.outcome EXCEPT ![t] = how]
      /\ q.closed = p.closed /\ q.waiting = p.waiting /\ q.order = p.order
      /\ q.running = p.running /\ q.slot = p.slot /\ q.held = p.held
      /\ q.thread = p.thread /\ q.hanging = p.hanging
  BY <1>1, <1>2, <1>3 DEF PoolType
<1>5. Placed(q)
  <2>1. \A u \in Task : q.outcome[u] = "pending" <=> p.outcome[u] = "pending"
    BY <1>1, <1>4 DEF PoolType, Settled
  <2> QED
    BY <1>4, <2>1 DEF Sound, Placed, Holding, Slots
<1>6. Counted(q) /\ SlotsAgree(q) /\ Bounded(q) /\ Served(q)
  BY <1>4 DEF Sound, Counted, WorkersOn, SlotsAgree, Bounded, Slots, Served, Idle
<1> QED
  BY <1>4, <1>5, <1>6 DEF Sound

\* A task queued: pump() finds the new task alone, or no worker idle.
LEMMA QueuedSound ==
  ASSUME NEW p, Sound(p), Served(p), ~p.closed,
         NEW t \in Task, p.outcome[t] = "unsent", ~Known(p, KeyOf(t)),
         NEW o \in Seq(Requests),
         NEW q, q = [p EXCEPT !.outcome[t] = "pending", !.waiting = @ \cup {t}, !.order = o]
  PROVE  Sound(q) /\ Pumpable(q)
<1>1. p \in PoolType
  BY DEF Sound
<1>2. q = [p EXCEPT !.outcome = [p.outcome EXCEPT ![t] = "pending"],
                    !.waiting = p.waiting \cup {t}, !.order = o]
  BY <1>1 DEF PoolType
<1>3. /\ [p.outcome EXCEPT ![t] = "pending"] \in [Task -> {"unsent", "pending"} \cup Settled]
      /\ p.waiting \cup {t} \in SUBSET Task
  BY <1>1 DEF PoolType
<1>4. /\ q \in PoolType
      /\ q.outcome = [p.outcome EXCEPT ![t] = "pending"]
      /\ q.waiting = p.waiting \cup {t}
      /\ q.closed = p.closed /\ q.running = p.running /\ q.slot = p.slot
      /\ q.held = p.held /\ q.thread = p.thread /\ q.hanging = p.hanging
  BY <1>1, <1>2, <1>3 DEF PoolType
<1>5. Placed(q)
  <2> SUFFICES ASSUME NEW u \in Task
               PROVE  /\ q.outcome[u] = "pending" <=> u \in q.waiting \/ Holding(q, u) # {}
                      /\ u \in q.waiting => Holding(q, u) = {}
                      /\ \A x, y \in Holding(q, u) : x = y
    BY DEF Placed
  <2>1. /\ p.outcome[u] = "pending" <=> u \in p.waiting \/ Holding(p, u) # {}
        /\ u \in p.waiting => Holding(p, u) = {}
        /\ \A x, y \in Holding(p, u) : x = y
    BY DEF Sound, Placed
  <2>2. Holding(q, u) = Holding(p, u)
    BY <1>4 DEF Holding, Slots
  <2>3. q.outcome[u] = IF u = t THEN "pending" ELSE p.outcome[u]
    BY <1>1, <1>4 DEF PoolType
  <2> QED
    BY <1>4, <2>1, <2>2, <2>3
<1>6. Counted(q) /\ SlotsAgree(q) /\ Bounded(q)
  BY <1>4 DEF Sound, Counted, WorkersOn, SlotsAgree, Bounded, Slots
<1>7. Pumpable(q)
  <2>1. Idle(q) = Idle(p) /\ Known(q, KeyOf(t)) = Known(p, KeyOf(t))
    BY <1>4 DEF Idle, Known
  <2>2. CASE p.waiting = {}
    <3>1. q.waiting = {t}
      BY <1>4, <2>2
    <3> QED
      BY <2>1, <3>1 DEF Pumpable
  <2>3. CASE p.waiting # {}
    BY <2>1, <2>3 DEF Pumpable, Served
  <2> QED
    BY <2>2, <2>3
<1> QED
  BY <1>4, <1>5, <1>6, <1>7 DEF Sound

-----------------------------------------------------------------------------
(* One lemma per handler.                                                  *)

Inv == Sound(pool) /\ Served(pool)

\* What ExpansionPromise allows of a step, but for what it says of its end.
PromiseStep ==
  /\ pool.closed => pool'.closed
  /\ \A t \in Task : Promise!Allowed(t)

\* A closed pool owes nobody anything.
LEMMA ClosedOwesNothing ==
  ASSUME NEW p, Sound(p), p.closed
  PROVE  \A t \in Task : p.outcome[t] # "pending"
BY DEF Sound, Placed, Holding, Slots, SlotsAgree

LEMMA SettlingKeepsPromise ==
  ASSUME Inv, Settling(pool, pool')
  PROVE  PromiseStep
<1>1. \A t \in Task : pool.outcome[t] = "pending" => ~pool.closed
  BY ClosedOwesNothing DEF Inv
<1>2. SUFFICES ASSUME NEW t \in Task, pool.outcome[t] = "pending",
                      pool'.outcome[t] \in Ended
               PROVE  Promise!Allowed(t)
  BY DEF Settling, PromiseStep, Promise!Allowed
<1>3. ~pool'.closed
  BY <1>1, <1>2 DEF Settling
<1> QED
  BY <1>2, <1>3 DEF Promise!Allowed, Promise!Settled, Ended

\* What a handler of an event of a worker does: promises settle, workers take what
\* is not remembered, and pump() ends it.
Handles(p, q) == Settling(p, q) /\ TakesUnknown(p, q) /\ QueueStep(p, q)

LEMMA SubmitKeeps ==
  ASSUME Inv, NEW r \in Requests, Submit(r)
  PROVE  Inv' /\ PromiseStep /\ TakesUnknown(pool, pool') /\ QueueStep(pool, pool')
<1>1. PICK t \in Unsent(r) : pool' \in
            IF pool.closed
            THEN {[pool EXCEPT !.outcome[t] = "poolClosed"]}
            ELSE IF Known(pool, KeyOf(t))
            THEN {[pool EXCEPT !.outcome[t] = "timedOut"]}
            ELSE Pump([pool EXCEPT
                         !.outcome[t] = "pending",
                         !.waiting = @ \cup {t},
                         !.order = IF \E u \in pool.waiting : u[1] = r
                                   THEN @ ELSE Append(@, r)])
  BY DEF Submit
<1>2. t \in Task /\ pool.outcome[t] = "unsent"
  BY DEF Unsent
<1>r. ASSUME NEW how \in {"poolClosed", "timedOut"}, how = "poolClosed" <=> pool.closed,
             pool' = [pool EXCEPT !.outcome[t] = how]
      PROVE  PromiseStep /\ TakesUnknown(pool, pool') /\ QueueStep(pool, pool')
  <2>1. pool \in PoolType /\ Sound(pool)
    BY DEF Inv, Sound
  <2>2. pool' = [pool EXCEPT !.outcome = [pool.outcome EXCEPT ![t] = how]]
    BY <1>r, <2>1 DEF PoolType
  <2>3. /\ pool'.closed = pool.closed /\ pool'.outcome = [pool.outcome EXCEPT ![t] = how]
        /\ pool'.waiting = pool.waiting /\ pool'.order = pool.order
        /\ pool'.running = pool.running /\ pool'.held = pool.held
        /\ pool'.hanging = pool.hanging
    BY <2>1, <2>2 DEF PoolType
  <2>4. PromiseStep
    BY <1>2, <1>r, <2>1, <2>3 DEF PromiseStep, Promise!Allowed, Promise!Settled, PoolType
  <2>5. Upkeep(pool, pool) /\ Turn(pool, pool')
    BY <2>1, <2>3 DEF Upkeep, Turn
  <2> QED
    BY <2>3, <2>4, <2>5 DEF TakesUnknown, QueueStep
<1>3. CASE pool.closed
  <2>1. pool' = [pool EXCEPT !.outcome[t] = "poolClosed"] /\ "poolClosed" \in Settled
    BY <1>1, <1>3 DEF Settled
  <2> QED
    BY <1>2, <1>3, <1>r, <2>1, RefusedSound DEF Inv
<1>4. CASE ~pool.closed /\ Known(pool, KeyOf(t))
  <2>1. pool' = [pool EXCEPT !.outcome[t] = "timedOut"] /\ "timedOut" \in Settled
    BY <1>1, <1>4 DEF Settled
  <2> QED
    BY <1>2, <1>4, <1>r, <2>1, RefusedSound DEF Inv
<1>5. CASE ~pool.closed /\ ~Known(pool, KeyOf(t))
  <2> DEFINE o == IF \E u \in pool.waiting : u[1] = r
                  THEN pool.order ELSE Append(pool.order, r)
             q == [pool EXCEPT !.outcome[t] = "pending", !.waiting = @ \cup {t}, !.order = o]
  <2>1. o \in Seq(Requests)
    <3>1. pool.order \in Seq(Requests)
      BY DEF Inv, Sound, PoolType
    <3>2. Append(pool.order, r) \in Seq(Requests)
      BY <3>1, AppendProperties
    <3> QED
      BY <3>1, <3>2
  <2>2. pool \in PoolType
    BY DEF Inv, Sound
  <2>3. pool' \in Pump(q)
    BY <1>1, <1>5, <2>2 DEF PoolType
  <2>o. t[1] = r
    BY DEF Unsent
  <2> HIDE DEF o
  <2>4. Sound(q) /\ Pumpable(q)
    BY <1>2, <1>5, <2>1, QueuedSound DEF Inv
  <2>5. /\ q.closed = pool.closed /\ q.held = pool.held /\ q.hanging = pool.hanging
        /\ q.slot = pool.slot
        /\ q.waiting = pool.waiting \cup {t} /\ q.order = o
        /\ q.outcome = [pool.outcome EXCEPT ![t] = "pending"]
    BY <2>2 DEF PoolType
  <2> HIDE DEF q
  <2>6. Sound(pool') /\ Served(pool') /\ Onward(q, pool')
    BY <2>3, <2>4, PumpServes
  <2>7. PromiseStep
    <3>1. pool'.closed = pool.closed /\ ~pool'.closed
      BY <1>5, <2>5, <2>6 DEF Onward, Settling
    <3>2. \A u \in Task : q.outcome[u] = IF u = t THEN "pending" ELSE pool.outcome[u]
      BY <2>2, <2>5 DEF PoolType
    <3>3. \A u \in Task : \/ pool'.outcome[u] = q.outcome[u]
                          \/ q.outcome[u] = "pending" /\ pool'.outcome[u] \in Ended
      BY <2>6 DEF Onward, Settling
    <3>4. ASSUME NEW u \in Task
          PROVE  Promise!Allowed(u)
      <4>1. \/ pool'.outcome[u] = pool.outcome[u]
            \/ pool.outcome[u] = "unsent" /\ pool'.outcome[u] = "pending"
            \/ pool.outcome[u] \in {"unsent", "pending"} /\ pool'.outcome[u] \in Ended
        BY <1>2, <3>2, <3>3
      <4>2. pool'.outcome[u] \in Ended =>
              pool'.outcome[u] \in Promise!Settled /\ pool'.outcome[u] # "poolClosed"
        BY DEF Ended, Promise!Settled
      <4> QED
        BY <3>1, <4>1, <4>2, Zenon DEF Promise!Allowed
    <3> QED
      BY <1>5, <3>4 DEF PromiseStep
  <2>8. TakesUnknown(pool, pool')
    BY <2>5, <2>6 DEF Onward, TakesUnknown, Known
  <2>9. Upkeep(pool, q)
    <3>1. o = IF \E u \in pool.waiting : u[1] = t[1] THEN pool.order
              ELSE Append(pool.order, t[1])
      BY <2>o DEF o
    <3>2. pool.waiting = {} \/ Idle(q) = {}
      <4>1. Idle(q) = Idle(pool)
        BY <2>5 DEF Idle
      <4> QED
        BY <4>1 DEF Inv, Served
    <3> QED
      BY <1>2, <2>4, <2>5, <3>1, <3>2 DEF Upkeep
  <2> QED
    BY <2>6, <2>7, <2>8, <2>9 DEF Inv, Onward, QueueStep
<1> QED
  BY <1>3, <1>4, <1>5

LEMMA ReadyKeeps ==
  ASSUME Inv, NEW w \in Workers, Ready(w)
  PROVE  Inv' /\ Handles(pool, pool')
<1> DEFINE q == [pool EXCEPT !.thread[w] = "idle",
                             !.slot[w] = IF @ = "loading" THEN "ready" ELSE @]
<1>1. pool \in PoolType /\ Sound(pool) /\ Served(pool)
  BY DEF Inv, Sound
<1>2. pool.thread[w] = "loading" /\ pool' \in Pump(q)
  BY DEF Ready
<1>3. q = [pool EXCEPT !.thread = [pool.thread EXCEPT ![w] = "idle"],
                       !.slot = [pool.slot EXCEPT ![w] = IF pool.slot[w] = "loading"
                                                         THEN "ready" ELSE pool.slot[w]]]
  BY <1>1 DEF PoolType
<1> HIDE DEF q
<1>4. /\ q \in PoolType
      /\ q.thread = [pool.thread EXCEPT ![w] = "idle"]
      /\ q.slot = [pool.slot EXCEPT ![w] = IF pool.slot[w] = "loading"
                                           THEN "ready" ELSE pool.slot[w]]
      /\ q.closed = pool.closed /\ q.outcome = pool.outcome /\ q.waiting = pool.waiting
      /\ q.running = pool.running /\ q.held = pool.held /\ q.hanging = pool.hanging
      /\ q.order = pool.order
  <2>1. /\ [pool.thread EXCEPT ![w] = "idle"]
             \in [Workers -> {"off", "loading", "idle", "working", "dying"}]
        /\ [pool.slot EXCEPT ![w] = IF pool.slot[w] = "loading" THEN "ready" ELSE pool.slot[w]]
             \in [Workers -> {"none", "loading", "ready"}]
    BY <1>1 DEF PoolType
  <2> QED
    BY <1>1, <1>3, <2>1 DEF PoolType
<1>5. Slots(q) = Slots(pool)
  BY <1>1, <1>4 DEF Slots, PoolType
<1>6. Placed(q) /\ Counted(q) /\ Bounded(q)
  BY <1>1, <1>4, <1>5 DEF Sound, Placed, Holding, Counted, WorkersOn, Bounded
<1>7. SlotsAgree(q)
  BY <1>1, <1>2, <1>4 DEF Sound, SlotsAgree, PoolType
<1>8. Sound(q)
  BY <1>1, <1>4, <1>6, <1>7 DEF Sound
<1>9. Pumpable(q)
  <2>1. Idle(q) \subseteq Idle(pool) \cup {w}
    BY <1>1, <1>4 DEF Idle, PoolType
  <2> QED
    BY <1>1, <1>4, <2>1 DEF Pumpable, Served
<1>10. Sound(pool') /\ Served(pool') /\ Onward(q, pool')
  BY <1>2, <1>8, <1>9, PumpServes
<1>11. Upkeep(pool, q)
  BY <1>4, <1>8 DEF Upkeep
<1>12. Settling(pool, pool') /\ TakesUnknown(pool, pool')
  BY <1>4, <1>10 DEF Onward, Settling, TakesUnknown, Known
<1> QED
  BY <1>10, <1>11, <1>12 DEF Inv, Onward, Handles, QueueStep

LEMMA TimeoutKeeps ==
  ASSUME Inv, NEW w \in Workers, Timeout(w)
  PROVE  /\ Inv' /\ Settling(pool, pool') /\ QueueStep(pool, pool')
         /\ Known(pool', KeyOf(pool.held[w]))
         /\ \E h : /\ h.held = [pool.held EXCEPT ![w] = NoTask]
                  /\ TakesUnknown(h, pool')
<1> DEFINE t == pool.held[w]
           g == Settle(Removed(pool, w), {t} \ {NoTask}, "timedOut")
           h == Remember(g, KeyOf(t))
<1>1. pool \in PoolType /\ Sound(pool) /\ Served(pool)
  BY DEF Inv, Sound
<1>2. t \in Task /\ t # NoTask /\ KeyOf(t) \in Objects
  BY <1>1, TaskParts DEF Timeout, PoolType
<1>3. pool' \in Pump(h)
  <2>1. {t} \ {NoTask} = {t}
    BY <1>2
  <2> QED
    BY <2>1 DEF Timeout
<1>4. WithoutSlot(pool, g, w)
  <2>1. OnlyThread(pool, pool, w) /\ "timedOut" \in Ended
    BY <1>1 DEF OnlyThread, Ended
  <2> QED
    BY <1>1, <2>1, GoneSound
<1> HIDE DEF g
<1>5. /\ Sound(h)
      /\ h.waiting = g.waiting /\ h.slot = g.slot /\ h.held = g.held
      /\ h.order = g.order
      /\ Settling(g, h) /\ Known(h, KeyOf(t))
  BY <1>2, <1>4, RememberSound DEF WithoutSlot
<1>6. Pumpable(h)
  <2>1. Idle(h) \subseteq Idle(pool)
    BY <1>1, <1>4, <1>5 DEF Idle, WithoutSlot, PoolType
  <2> QED
    BY <1>1, <1>4, <1>5, <2>1 DEF Pumpable, Served, WithoutSlot
<1> HIDE DEF h
<1>7. Sound(pool') /\ Served(pool') /\ Onward(h, pool')
  BY <1>3, <1>5, <1>6, PumpServes
<1>8. Upkeep(pool, h)
  <2>1. \A v \in Workers : h.held[v] \in {pool.held[v], NoTask}
    BY <1>1, <1>4, <1>5 DEF WithoutSlot, PoolType
  <2> QED
    BY <1>4, <1>5, <2>1 DEF WithoutSlot, Upkeep
<1>9. Settling(pool, pool')
  BY <1>4, <1>5, <1>7 DEF WithoutSlot, Onward, Settling
<1>10. Known(pool', KeyOf(t))
  BY <1>5, <1>7 DEF Onward, TakesUnknown, Known
<1>11. h.held = [pool.held EXCEPT ![w] = NoTask]
  BY <1>4, <1>5 DEF WithoutSlot
<1> QED
  BY <1>7, <1>8, <1>9, <1>10, <1>11 DEF Inv, Onward, QueueStep

LEMMA AnswerKeeps ==
  ASSUME Inv, NEW w \in Workers, Answer(w)
  PROVE  Inv' /\ Handles(pool, pool')
<1> DEFINE t == pool.job[w]
           m == [pool EXCEPT !.thread[w] = "idle", !.job[w] = NoTask]
<1>1. pool \in PoolType /\ Sound(pool) /\ Served(pool)
  BY DEF Inv, Sound
<1>2. /\ pool.thread[w] = "working"
      /\ IF pool.held[w] # t
         THEN pool' = m
         ELSE \E how \in {"resolved", "failed"} :
                pool' \in Pump(Settle(Release(m, w), {t}, how))
  BY DEF Answer
<1>3. m = [pool EXCEPT !.thread = [pool.thread EXCEPT ![w] = "idle"],
                       !.job = [pool.job EXCEPT ![w] = NoTask]]
  BY <1>1 DEF PoolType
<1> HIDE DEF m
<1>4. /\ m \in PoolType
      /\ m.thread = [pool.thread EXCEPT ![w] = "idle"]
      /\ m.closed = pool.closed /\ m.outcome = pool.outcome /\ m.waiting = pool.waiting
      /\ m.running = pool.running /\ m.slot = pool.slot /\ m.held = pool.held
      /\ m.hanging = pool.hanging /\ m.order = pool.order
  <2>1. /\ [pool.thread EXCEPT ![w] = "idle"]
             \in [Workers -> {"off", "loading", "idle", "working", "dying"}]
        /\ [pool.job EXCEPT ![w] = NoTask] \in [Workers -> Task \cup {NoTask}]
    BY <1>1 DEF PoolType
  <2> QED
    BY <1>1, <1>3, <2>1 DEF PoolType
<1>5. SlotsAgree(m)
  BY <1>1, <1>2, <1>4 DEF Sound, SlotsAgree, PoolType
<1>6. Sound(m)
  BY <1>1, <1>4, <1>5, SameSlotsSound DEF Sound, Bounded
<1>7. CASE pool.held[w] # t
  <2>1. Inv' /\ pool' = m
    BY <1>1, <1>2, <1>4, <1>6, <1>7 DEF Inv, Served, Slots, Idle
  <2>2. Upkeep(pool, m) /\ Turn(m, pool')
    BY <1>4, <1>6, <2>1 DEF Upkeep, Turn
  <2> QED
    BY <1>4, <2>1, <2>2 DEF Handles, Settling, TakesUnknown, QueueStep
<1>8. CASE pool.held[w] = t
  <2>1. PICK how \in {"resolved", "failed"} :
          pool' \in Pump(Settle(Release(m, w), {t}, how))
    BY <1>2, <1>8
  <2> DEFINE l == Release(m, w)
             q == Settle(l, {t}, how)
  <2>2. how \in Settled
    BY DEF Settled
  <2>3. /\ l \in PoolType
        /\ l.closed = m.closed /\ l.outcome = m.outcome /\ l.waiting = m.waiting
        /\ l.slot = m.slot /\ l.thread = m.thread /\ l.hanging = m.hanging
        /\ l.order = m.order
        /\ l.held = [m.held EXCEPT ![w] = NoTask]
        /\ \A r \in Requests : l.running[r] =
             IF m.held[w] # NoTask /\ m.held[w][1] = r THEN m.running[r] - 1 ELSE m.running[r]
    BY <1>4, <1>6, ReleaseFields DEF Sound
  <2> HIDE DEF l
  <2>4. /\ q \in PoolType
        /\ \A u \in Task : q.outcome[u] =
             IF u \in {t} /\ l.outcome[u] = "pending" THEN how ELSE l.outcome[u]
        /\ q.closed = l.closed /\ q.waiting = l.waiting
        /\ q.running = l.running /\ q.slot = l.slot /\ q.held = l.held
        /\ q.thread = l.thread /\ q.hanging = l.hanging
        /\ q.order = l.order
    BY <2>2, <2>3, SettleFields
  <2> HIDE DEF q
  <2>5. GivenUp(m, q, w, how)
    BY <1>4, <1>8, <2>3, <2>4 DEF GivenUp
  <2>6. SlotsAgree(q)
    BY <1>4, <1>5, <2>3, <2>4 DEF SlotsAgree, PoolType
  <2>7. Bounded(q)
    BY <1>6, <2>3, <2>4 DEF Sound, Bounded, Slots
  <2>8. Sound(q)
    BY <1>6, <2>2, <2>5, <2>6, <2>7, ReleaseSound
  <2>9. Pumpable(q)
    <3>1. Idle(q) \subseteq Idle(pool) \cup {w}
      BY <1>1, <1>4, <2>3, <2>4 DEF Idle, PoolType
    <3> QED
      BY <1>1, <1>4, <2>3, <2>4, <3>1 DEF Pumpable, Served
  <2>10. pool' \in Pump(q)
    BY <2>1 DEF q, l
  <2>11. Sound(pool') /\ Served(pool') /\ Onward(q, pool')
    BY <2>8, <2>9, <2>10, PumpServes
  <2>12. \A v \in Workers : q.held[v] = IF v = w THEN NoTask ELSE pool.held[v]
    BY <1>1, <1>4, <2>3, <2>4 DEF PoolType
  <2>13. Upkeep(pool, q)
    BY <1>4, <2>3, <2>4, <2>8, <2>12 DEF Upkeep
  <2>14. Settling(pool, pool')
    <3>1. Settling(pool, q)
      BY <1>4, <2>3, <2>4 DEF Settling, Ended
    <3> QED
      BY <2>11, <3>1 DEF Onward, Settling
  <2>15. TakesUnknown(pool, pool')
    BY <1>4, <2>3, <2>4, <2>11, <2>12 DEF Onward, TakesUnknown, Known
  <2> QED
    BY <2>11, <2>13, <2>14, <2>15 DEF Inv, Onward, Handles, QueueStep
<1> QED
  BY <1>7, <1>8

\* The "error" and "exit" events, which differ in what they leave of the thread.
LEMMA ThreadGoneKeeps ==
  ASSUME Inv, NEW w \in Workers, NEW to \in {"off", "dying"},
         pool' \in Lost([pool EXCEPT !.thread[w] = to, !.job[w] = NoTask], w)
  PROVE  Inv' /\ Handles(pool, pool')
<1> DEFINE m == [pool EXCEPT !.thread[w] = to, !.job[w] = NoTask]
<1>1. pool \in PoolType /\ Sound(pool) /\ Served(pool)
  BY DEF Inv, Sound
<1>2. m = [pool EXCEPT !.thread = [pool.thread EXCEPT ![w] = to],
                       !.job = [pool.job EXCEPT ![w] = NoTask]]
  BY <1>1 DEF PoolType
<1>3. /\ [pool.thread EXCEPT ![w] = to]
           \in [Workers -> {"off", "loading", "idle", "working", "dying"}]
      /\ [pool.job EXCEPT ![w] = NoTask] \in [Workers -> Task \cup {NoTask}]
  BY <1>1 DEF PoolType
<1> HIDE DEF m
<1>4. OnlyThread(pool, m, w)
  BY <1>1, <1>2, <1>3 DEF OnlyThread, PoolType
<1>5. pool' \in Lost(m, w)
  BY DEF m
<1> QED
  BY <1>1, <1>4, <1>5, LostSound DEF Inv, Handles

LEMMA ForgetKeeps ==
  ASSUME Inv, Forget
  PROVE  /\ Inv' /\ Settling(pool, pool') /\ QueueStep(pool, pool')
         /\ pool'.held = pool.held
<1>1. pool \in PoolType /\ Sound(pool) /\ Served(pool)
  BY DEF Inv, Sound
<1>2. /\ Tail(pool.hanging) \in Seq(Objects)
      /\ Len(Tail(pool.hanging)) = Len(pool.hanging) - 1
  BY <1>1, HeadTailProperties DEF Forget, PoolType
<1>3. Len(Tail(pool.hanging)) <= MaxRemembered
  BY <1>1, <1>2, PoolAssumption, LenProperties DEF Sound, Bounded, PoolType
<1>4. /\ pool' \in PoolType /\ pool'.hanging = Tail(pool.hanging)
      /\ pool'.closed = pool.closed /\ pool'.outcome = pool.outcome
      /\ pool'.waiting = pool.waiting /\ pool'.running = pool.running
      /\ pool'.slot = pool.slot /\ pool'.held = pool.held /\ pool'.thread = pool.thread
      /\ pool'.order = pool.order
  BY <1>1, <1>2 DEF Forget, PoolType
<1>5. SlotsAgree(pool')
  BY <1>1, <1>4 DEF Sound, SlotsAgree
<1>6. Sound(pool')
  BY <1>1, <1>3, <1>4, <1>5, SameSlotsSound
<1>7. Inv'
  BY <1>1, <1>4, <1>6 DEF Inv, Served, Slots, Idle
<1>8. Upkeep(pool, pool) /\ Turn(pool, pool')
  BY <1>1, <1>4 DEF Upkeep, Turn
<1> QED
  BY <1>4, <1>7, <1>8 DEF Settling, QueueStep

LEMMA CloseKeeps ==
  ASSUME Inv, Close
  PROVE  /\ Inv' /\ PromiseStep /\ QueueStep(pool, pool')
         /\ pool'.held = pool.held /\ pool'.hanging = pool.hanging
<1> DEFINE atWork == {pool.held[w] : w \in Slots(pool)} \ {NoTask}
           s == Settle(pool, atWork, "poolClosed")
           q == RefuseAll(s, "poolClosed")
<1>1. pool \in PoolType /\ Sound(pool) /\ Served(pool)
  BY DEF Inv, Sound
<1>2. /\ s \in PoolType
      /\ \A u \in Task : s.outcome[u] =
           IF u \in atWork /\ pool.outcome[u] = "pending" THEN "poolClosed" ELSE pool.outcome[u]
      /\ s.closed = pool.closed /\ s.waiting = pool.waiting
      /\ s.running = pool.running /\ s.slot = pool.slot /\ s.held = pool.held
      /\ s.thread = pool.thread /\ s.job = pool.job /\ s.hanging = pool.hanging
  BY <1>1, SettleFields DEF Settled
<1> DEFINE x == Settle(s, s.waiting, "poolClosed")
<1> HIDE DEF s
<1>3. /\ x \in PoolType
      /\ \A u \in Task : x.outcome[u] =
           IF u \in s.waiting /\ s.outcome[u] = "pending" THEN "poolClosed" ELSE s.outcome[u]
      /\ x.running = s.running /\ x.slot = s.slot /\ x.held = s.held
      /\ x.thread = s.thread /\ x.hanging = s.hanging
  BY <1>2, SettleFields DEF Settled
<1>4. pool' = [x EXCEPT !.waiting = {}, !.order = <<>>, !.closed = TRUE,
                        !.slot = [w \in Workers |-> "none"]]
  BY DEF Close, RefuseAll, s
<1> HIDE DEF x
<1>5. /\ pool' \in PoolType
      /\ pool'.outcome = x.outcome /\ pool'.waiting = {} /\ pool'.closed = TRUE
      /\ pool'.order = <<>>
      /\ pool'.slot = [w \in Workers |-> "none"]
      /\ pool'.running = pool.running /\ pool'.held = pool.held
      /\ pool'.hanging = pool.hanging
  <2>1. /\ <<>> \in Seq(Requests)
        /\ [w \in Workers |-> "none"] \in [Workers -> {"none", "loading", "ready"}]
    OBVIOUS
  <2> QED
    BY <1>2, <1>3, <1>4, <2>1 DEF PoolType
<1>6. Slots(pool') = {}
  BY <1>5 DEF Slots
<1>7. Placed(pool')
  <2> SUFFICES ASSUME NEW u \in Task
               PROVE  pool'.outcome[u] # "pending"
    BY <1>5, <1>6 DEF Placed, Holding
  <2>1. pool.outcome[u] = "pending" => u \in pool.waiting \/ u \in atWork
    BY <1>1, TaskParts DEF Sound, Placed, Holding
  <2> QED
    BY <1>2, <1>3, <1>5, <2>1
<1>8. Counted(pool')
  BY <1>1, <1>5 DEF Sound, Counted, WorkersOn
<1>9. SlotsAgree(pool')
  BY <1>5 DEF SlotsAgree
<1>10. Bounded(pool')
  BY <1>1, <1>5, <1>6, FS_EmptySet, PoolAssumption DEF Sound, Bounded
<1>11. Served(pool')
  BY <1>5 DEF Served
<1>12. Inv'
  BY <1>5, <1>7, <1>8, <1>9, <1>10, <1>11 DEF Inv, Sound
<1>13. PromiseStep
  <2>1. \A u \in Task : \/ pool'.outcome[u] = pool.outcome[u]
                        \/ pool.outcome[u] = "pending" /\ pool'.outcome[u] = "poolClosed"
    BY <1>2, <1>3, <1>5
  <2> QED
    BY <1>5, <2>1 DEF PromiseStep, Promise!Allowed, Promise!Settled
<1>14. Upkeep(pool, pool) /\ Turn(pool, pool')
  BY <1>1, <1>5 DEF Upkeep, Turn
<1> QED
  BY <1>5, <1>12, <1>13, <1>14 DEF QueueStep

-----------------------------------------------------------------------------
(* The history variables.                                                  *)

History ==
  /\ passed \in [Requests -> [Requests -> Nat]]
  /\ cost \in [Objects -> Nat]

LEMMA PassingType ==
  ASSUME Inv, Inv', History, Passing
  PROVE  passed' \in [Requests -> [Requests -> Nat]]
<1>1. ASSUME NEW s \in Requests
      PROVE  Cardinality({t \in Took : t[1] = s}) \in Nat
  <2>1. Took \subseteq Task
    BY DEF Took, Inv, Sound, PoolType
  <2>2. IsFiniteSet({t \in Took : t[1] = s})
    BY <2>1, TaskFinite, FS_Subset
  <2> QED
    BY <2>2, FS_CardinalityType
<1> DEFINE C(s) == Cardinality({t \in Took : t[1] = s})
<1>2. \A s \in Requests : C(s) \in Nat
  BY <1>1
<1> DEFINE reset(r) == \/ ~(pool'.running[r] = 0 /\ \E t \in pool'.waiting : t[1] = r)
                       \/ \E t \in pool.waiting \ pool'.waiting : t[1] = r
<1>3. passed' = [r \in Requests |-> [s \in Requests |->
                   IF reset(r) THEN 0 ELSE passed[r][s] + C(s)]]
  BY DEF Passing
<1> HIDE DEF C, reset
<1>4. \A r, s \in Requests : (IF reset(r) THEN 0 ELSE passed[r][s] + C(s)) \in Nat
  BY <1>2 DEF History
<1> QED
  BY <1>3, <1>4

LEMMA CostingType ==
  ASSUME History, NEW e, Costing(e)
  PROVE  cost' \in [Objects -> Nat]
BY DEF Costing, History

-----------------------------------------------------------------------------
LEMMA InitInv == Init => Inv /\ History
<1> SUFFICES ASSUME Init PROVE Inv /\ History
  OBVIOUS
<1>1. <<>> \in Seq(Requests) /\ <<>> \in Seq(Objects) /\ Len(<<>>) = 0
  OBVIOUS
<1>2. /\ pool \in PoolType
      /\ pool.waiting = {} /\ pool.closed = FALSE /\ pool.hanging = <<>>
      /\ \A t \in Task : pool.outcome[t] = "unsent"
      /\ \A r \in Requests : pool.running[r] = 0
      /\ \A w \in Workers : pool.slot[w] = "none" /\ pool.held[w] = NoTask
  BY <1>1 DEF Init, PoolType
<1>3. Slots(pool) = {} /\ \A r \in Requests : WorkersOn(pool, r) = {}
  BY <1>2 DEF Slots, WorkersOn
<1>4. Placed(pool)
  BY <1>2, <1>3 DEF Placed, Holding
<1>5. Counted(pool)
  BY <1>2, <1>3, FS_EmptySet DEF Counted
<1>6. SlotsAgree(pool)
  BY <1>2 DEF SlotsAgree
<1>7. Bounded(pool)
  BY <1>1, <1>2, <1>3, FS_EmptySet, PoolAssumption DEF Bounded
<1>8. Served(pool)
  BY <1>2 DEF Served
<1>9. History
  BY DEF Init, History
<1> QED
  BY <1>2, <1>4, <1>5, <1>6, <1>7, <1>8, <1>9 DEF Inv, Sound

\* A worker with a task it did not have, or one of the workers W with any, has a task
\* that is not remembered.
Spares(p, q, W) ==
  \A w \in Workers : \/ w \notin W /\ q.held[w] = p.held[w]
                     \/ q.held[w] = NoTask
                     \/ ~Known(q, KeyOf(q.held[w]))

\* What a step costs: nothing, or one deadline of the object a worker loses.
CostStep ==
  \/ Costing({}) /\ Spares(pool, pool', {})
  \/ \E w \in Slots(pool) : /\ pool.held[w] # NoTask
                           /\ Costing({KeyOf(pool.held[w])})
                           /\ Spares(pool, pool', {w})

LEMMA HandledStep ==
  ASSUME Inv, Inv', Handles(pool, pool'), Costing({})
  PROVE  PromiseStep /\ QueueStep(pool, pool') /\ CostStep
<1>1. PromiseStep
  BY SettlingKeepsPromise DEF Handles
<1>2. Spares(pool, pool', {})
  BY DEF Handles, TakesUnknown, Spares, Known
<1> QED
  BY <1>1, <1>2 DEF Handles, CostStep

LEMMA StepPool ==
  ASSUME Inv, Next
  PROVE  Inv' /\ PromiseStep /\ QueueStep(pool, pool') /\ Passing /\ CostStep
<1>1. ASSUME NEW r \in Requests, SubmitStep(r)
      PROVE  Inv' /\ PromiseStep /\ QueueStep(pool, pool') /\ Passing /\ CostStep
  <2>1. /\ Inv' /\ PromiseStep /\ TakesUnknown(pool, pool') /\ QueueStep(pool, pool')
        /\ Costing({}) /\ Passing
    BY <1>1, SubmitKeeps DEF SubmitStep
  <2>2. Spares(pool, pool', {})
    BY <2>1 DEF TakesUnknown, Spares, Known
  <2> QED
    BY <2>1, <2>2 DEF CostStep
<1>2. ASSUME NEW w \in Workers, TimeoutStep(w)
      PROVE  Inv' /\ PromiseStep /\ QueueStep(pool, pool') /\ Passing /\ CostStep
  <2>1. /\ Timeout(w) /\ Passing /\ Costing({KeyOf(pool.held[w])})
        /\ w \in Slots(pool) /\ pool.held[w] # NoTask
    BY <1>2 DEF TimeoutStep, Handled, Timeout, Slots
  <2>2. Inv' /\ Settling(pool, pool') /\ QueueStep(pool, pool')
    BY <2>1, TimeoutKeeps
  <2>3. PICK h : h.held = [pool.held EXCEPT ![w] = NoTask] /\ TakesUnknown(h, pool')
    BY <2>1, TimeoutKeeps
  <2>4. \A v \in Workers : h.held[v] = IF v = w THEN NoTask ELSE pool.held[v]
    BY <2>3 DEF Inv, Sound, PoolType
  <2>5. Spares(pool, pool', {w})
    BY <2>3, <2>4 DEF TakesUnknown, Spares, Known
  <2> QED
    BY <2>1, <2>2, <2>5, SettlingKeepsPromise DEF CostStep
<1>3. ASSUME NEW w \in Workers, ReadyStep(w) \/ AnswerStep(w) \/ ErrorStep(w) \/ ExitStep(w)
      PROVE  Inv' /\ PromiseStep /\ QueueStep(pool, pool') /\ Passing /\ CostStep
  <2>1. Costing({}) /\ Passing
    BY <1>3 DEF ReadyStep, AnswerStep, ErrorStep, ExitStep, Handled
  <2>2. Inv' /\ Handles(pool, pool')
    BY <1>3, ReadyKeeps, AnswerKeeps, ThreadGoneKeeps
       DEF ReadyStep, AnswerStep, ErrorStep, ExitStep, Error, Exit
  <2> QED
    BY <2>1, <2>2, HandledStep
<1>4. CASE ForgetStep
  <2>1. /\ Inv' /\ Settling(pool, pool') /\ QueueStep(pool, pool')
        /\ pool'.held = pool.held /\ Costing({}) /\ Passing
    BY <1>4, ForgetKeeps DEF ForgetStep, Handled
  <2>2. Spares(pool, pool', {})
    BY <2>1 DEF Spares
  <2> QED
    BY <2>1, <2>2, SettlingKeepsPromise DEF CostStep
<1>5. CASE CloseStep
  <2>1. /\ Inv' /\ PromiseStep /\ QueueStep(pool, pool')
        /\ pool'.held = pool.held /\ Costing({}) /\ Passing
    BY <1>5, CloseKeeps DEF CloseStep, Handled
  <2>2. Spares(pool, pool', {})
    BY <2>1 DEF Spares
  <2> QED
    BY <2>1, <2>2 DEF CostStep
<1> QED
  BY <1>1, <1>2, <1>3, <1>4, <1>5 DEF Next

LEMMA StepInv == Inv /\ History /\ [Next]_vars => Inv' /\ History'
<1> SUFFICES ASSUME Inv, History, [Next]_vars PROVE Inv' /\ History'
  OBVIOUS
<1>1. CASE Next
  <2>1. Inv' /\ Passing /\ CostStep
    BY <1>1, StepPool
  <2>2. PICK e : Costing(e)
    BY <2>1 DEF CostStep
  <2> QED
    BY <2>1, <2>2, PassingType, CostingType DEF History
<1>2. CASE UNCHANGED vars
  BY <1>2 DEF vars, Inv, History
<1> QED
  BY <1>1, <1>2

LEMMA Invariance == Spec => [](Inv /\ History)
<1> QED
  BY InitInv, StepInv, PTL DEF Spec

-----------------------------------------------------------------------------
\* Every field of the pool keeps its type, the pool never has more workers than
\* EXPANSION_WORKERS, and never remembers more objects than
\* HANGING_REMEMBERED_MAX (spawn's room, and the eviction in rememberHanging).
THEOREM TypeCorrect == Spec => []TypeOK
<1>1. Inv /\ History => TypeOK
  BY DEF Inv, History, Sound, Bounded, TypeOK
<1> QED
  BY <1>1, Invariance, PTL

\* No handler loses a task or leaves a settled one on a worker: what runOnEach()
\* handed out and has not settled is queued, or on exactly one worker.
THEOREM NoPromiseLost == Spec => []PendingHasOnePlace
<1>1. Inv => PendingHasOnePlace
  BY DEF Inv, Sound, PendingHasOnePlace
<1> QED
  BY <1>1, Invariance, PTL

\* group.running, which take() shares the workers out by, is exact after every
\* answer, deadline, error, exit and close.
THEOREM TurnCountsExact == Spec => []RunningCountsWorkers
<1>1. Inv => RunningCountsWorkers
  BY DEF Inv, Sound, RunningCountsWorkers
<1> QED
  BY <1>1, Invariance, PTL

\* While anything is queued the pool has a worker and none of them idles, however
\* many workers fail to start: one run of each of pump()'s loops is enough.
THEOREM QueueAlwaysServed == Spec => []QueueIsServed
<1>1. Inv => QueueIsServed
  BY DEF Inv, QueueIsServed
<1> QED
  BY <1>1, Invariance, PTL

\* What runOn(), runOnEach() and close() promise their callers: an object's promise is
\* settled once and for good, one that is made while the pool is open never ends in
\* "pool closed" but by close(), and close() leaves nobody waiting.
THEOREM KeepsItsPromise == Spec => PromiseKept
<1>1. Init => Promise!Init
  BY DEF Init, Promise!Init
<1>2. Inv /\ [Next]_vars => [Promise!Next]_<<pool.outcome, pool.closed>>
  <2> SUFFICES ASSUME Inv, [Next]_vars
               PROVE  [Promise!Next]_<<pool.outcome, pool.closed>>
    OBVIOUS
  <2>1. CASE Next
    <3>1. Inv' /\ PromiseStep
      BY <2>1, StepPool
    <3>2. pool'.outcome \in [Task -> {"unsent", "pending"} \cup Promise!Settled]
      BY <3>1 DEF Inv, Sound, PoolType, Settled, Promise!Settled
    <3>3. pool'.closed => \A t \in Task : pool'.outcome[t] # "pending"
      BY <3>1, ClosedOwesNothing DEF Inv
    <3> QED
      BY <3>1, <3>2, <3>3 DEF PromiseStep, Promise!Next
  <2>2. CASE UNCHANGED vars
    BY <2>2 DEF vars
  <2> QED
    BY <2>1, <2>2
<1> QED
  BY <1>1, <1>2, Invariance, PTL DEF Spec, PromiseKept, Promise!Safety

-----------------------------------------------------------------------------
(* What an object that never ends costs.                                    *)

\* The workers of the pool that have object k.
Holders(p, k) == {w \in Slots(p) : p.held[w] # NoTask /\ KeyOf(p.held[w]) = k}

\* Only workers that have an object already can still pay a deadline for it.
CostsLeft ==
  \A k \in Objects : /\ ~Known(pool, k) => cost[k] = 0
                     /\ cost[k] + Cardinality(Holders(pool, k)) <= Size

LEMMA HoldersFinite ==
  ASSUME Inv, NEW k \in Objects
  PROVE  /\ IsFiniteSet(Holders(pool, k))
         /\ Cardinality(Holders(pool, k)) \in Nat
         /\ Cardinality(Holders(pool, k)) <= Size
<1>1. IsFiniteSet(Slots(pool)) /\ Holders(pool, k) \subseteq Slots(pool)
  BY PoolAssumption, FS_Subset DEF Slots, Holders
<1>2. Cardinality(Slots(pool)) \in Nat /\ Cardinality(Slots(pool)) <= Size
  BY <1>1, FS_CardinalityType DEF Inv, Sound, Bounded
<1> QED
  BY <1>1, <1>2, FS_Subset, FS_CardinalityType, PoolAssumption

\* While an object is remembered no worker takes it, and its deadlines use up the
\* workers that have it.
LEMMA HoldersShrink ==
  ASSUME Inv, Inv', PromiseStep, NEW W \in SUBSET Workers, Spares(pool, pool', W),
         NEW k \in Objects, Known(pool', k)
  PROVE  Holders(pool', k) \subseteq Holders(pool, k) \ W
<1> SUFFICES ASSUME NEW w \in Holders(pool', k)
             PROVE  w \in Holders(pool, k) /\ w \notin W
  OBVIOUS
<1>1. /\ w \in Workers /\ pool'.slot[w] # "none"
      /\ pool'.held[w] # NoTask /\ KeyOf(pool'.held[w]) = k
  BY DEF Holders, Slots
<1>2. w \notin W /\ pool'.held[w] = pool.held[w]
  BY <1>1 DEF Spares
<1>3. ~pool.closed
  BY <1>1 DEF Inv, Sound, SlotsAgree, PromiseStep
<1>4. pool.slot[w] # "none"
  BY <1>1, <1>2, <1>3 DEF Inv, Sound, SlotsAgree
<1> QED
  BY <1>1, <1>2, <1>4 DEF Holders, Slots

LEMMA InitCosts == Init => CostsLeft
<1> SUFFICES ASSUME Init, NEW k \in Objects
             PROVE  cost[k] = 0 /\ cost[k] + Cardinality(Holders(pool, k)) <= Size
  BY DEF CostsLeft
<1>1. cost[k] = 0
  BY DEF Init
<1>2. Holders(pool, k) = {}
  BY DEF Init, Holders, Slots
<1> QED
  BY <1>1, <1>2, FS_EmptySet, PoolAssumption

LEMMA StepCosts ==
  ASSUME Inv, History, CostsLeft, [Next]_vars
  PROVE  CostsLeft'
<1>1. CASE UNCHANGED vars
  BY <1>1 DEF vars, CostsLeft, Holders, Slots, Known
<1>2. CASE Next
  <2>1. Inv' /\ PromiseStep /\ CostStep
    BY <1>2, StepPool
  <2> SUFFICES ASSUME NEW k \in Objects
               PROVE  /\ ~Known(pool', k) => cost'[k] = 0
                      /\ cost'[k] + Cardinality(Holders(pool', k)) <= Size
    BY DEF CostsLeft
  <2> DEFINE before == Cardinality(Holders(pool, k))
             after == Cardinality(Holders(pool', k))
  <2>2. /\ IsFiniteSet(Holders(pool, k)) /\ before \in Nat /\ before <= Size
        /\ after \in Nat /\ after <= Size /\ Size \in Nat
    <3>1. IsFiniteSet(Holders(pool, k)) /\ before \in Nat /\ before <= Size
      BY HoldersFinite
    <3>2. after \in Nat /\ after <= Size
      <4>1. IsFiniteSet(Slots(pool')) /\ Holders(pool', k) \subseteq Slots(pool')
        BY PoolAssumption, FS_Subset DEF Slots, Holders
      <4>2. Cardinality(Slots(pool')) \in Nat /\ Cardinality(Slots(pool')) <= Size
        BY <2>1, <4>1, FS_CardinalityType DEF Inv, Sound, Bounded
      <4> QED
        BY <4>1, <4>2, FS_Subset, FS_CardinalityType, PoolAssumption
    <3> QED
      BY <3>1, <3>2, PoolAssumption
  <2>3. cost[k] \in Nat /\ cost[k] + before <= Size
    BY DEF History, CostsLeft
  <2>4. CASE ~Known(pool', k)
    <3>1. cost'[k] = 0
      BY <2>1, <2>4 DEF CostStep, Costing
    <3> QED
      BY <2>2, <2>4, <3>1
  <2>5. CASE Known(pool', k)
    <3>1. ASSUME NEW W \in SUBSET Workers, Spares(pool, pool', W)
          PROVE  Holders(pool', k) \subseteq Holders(pool, k) \ W
      BY <2>1, <2>5, <3>1, HoldersShrink
    <3>2. CASE Costing({}) /\ Spares(pool, pool', {})
      <4>1. Holders(pool', k) \subseteq Holders(pool, k)
        BY <3>1, <3>2
      <4>2. after <= before
        BY <2>2, <4>1, FS_Subset
      <4>3. cost'[k] = cost[k]
        BY <2>5, <3>2 DEF Costing
      <4> QED
        BY <2>2, <2>3, <2>5, <4>2, <4>3
    <3>3. ASSUME NEW w \in Slots(pool), pool.held[w] # NoTask,
                 Costing({KeyOf(pool.held[w])}), Spares(pool, pool', {w})
          PROVE  cost'[k] + after <= Size
      <4>1. Holders(pool', k) \subseteq Holders(pool, k) \ {w}
        BY <3>1, <3>3 DEF Slots
      <4>2. /\ IsFiniteSet(Holders(pool, k) \ {w})
            /\ Cardinality(Holders(pool, k) \ {w}) =
                 IF w \in Holders(pool, k) THEN before - 1 ELSE before
        BY <2>2, FS_RemoveElement
      <4>3. after <= IF w \in Holders(pool, k) THEN before - 1 ELSE before
        BY <4>1, <4>2, FS_Subset
      <4>4. w \in Holders(pool, k) <=> KeyOf(pool.held[w]) = k
        BY <3>3 DEF Holders
      <4>5. cost'[k] = IF KeyOf(pool.held[w]) = k THEN cost[k] + 1 ELSE cost[k]
        BY <2>5, <3>3 DEF Costing
      <4> HIDE DEF before, after
      <4> QED
        BY <2>2, <2>3, <4>3, <4>4, <4>5
    <3> QED
      BY <2>1, <2>5, <3>2, <3>3 DEF CostStep
  <2> QED
    BY <2>4, <2>5
<1> QED
  BY <1>1, <1>2

\* However many requests an object that never ends is queued in, it costs the pool at
\* most one deadline per worker before it is forgotten again: rememberHanging() and
\* the checks of knownHanging() in submit() and take() keep it from any other worker.
THEOREM HangingCostsAreBounded == Spec => []HangingCostBounded
<1>1. Inv /\ History /\ CostsLeft /\ [Next]_vars => CostsLeft'
  BY StepCosts
<1>2. Inv /\ History /\ CostsLeft => HangingCostBounded
  <2> SUFFICES ASSUME Inv, History, CostsLeft, NEW k \in Objects
               PROVE  cost[k] <= Size
    BY DEF HangingCostBounded
  <2>1. cost[k] \in Nat /\ cost[k] + Cardinality(Holders(pool, k)) <= Size
    BY DEF History, CostsLeft
  <2>2. Cardinality(Holders(pool, k)) \in Nat /\ Size \in Nat
    BY HoldersFinite, PoolAssumption
  <2> QED
    BY <2>1, <2>2
<1> QED
  BY <1>1, <1>2, InitCosts, Invariance, PTL DEF Spec

-----------------------------------------------------------------------------
(* Whose turn it is.                                                        *)

WaitsIn(p, r) == \E t \in p.waiting : t[1] = r

\* The turn order lists every request with tasks waiting, once.
OrderOK(p) ==
  /\ \A i, j \in 1..Len(p.order) : p.order[i] = p.order[j] => i = j
  /\ \A r \in Requests : WaitsIn(p, r) <=> \E i \in 1..Len(p.order) : p.order[i] = r

\* A request that has seen another take an object is ahead of it in turn.
Ahead ==
  \A r, s \in Requests :
    /\ passed[r][s] <= 1
    /\ passed[r][s] = 1 => /\ WaitsIn(pool, r)
                           /\ WaitsIn(pool, s) => Position(pool, r) < Position(pool, s)

LEMMA PositionAt ==
  ASSUME NEW p \in PoolType, OrderOK(p), NEW i \in 1..Len(p.order)
  PROVE  Position(p, p.order[i]) = i
<1>1. DOMAIN p.order = 1..Len(p.order)
  BY DEF PoolType
<1>2. \A j \in 1..Len(p.order) : p.order[j] = p.order[i] => j = i
  BY DEF OrderOK
<1> QED
  BY <1>1, <1>2 DEF Position

LEMMA PositionOf ==
  ASSUME NEW p \in PoolType, OrderOK(p), NEW r \in Requests, WaitsIn(p, r)
  PROVE  Position(p, r) \in 1..Len(p.order) /\ p.order[Position(p, r)] = r
<1>1. PICK i \in 1..Len(p.order) : p.order[i] = r
  BY DEF OrderOK
<1> QED
  BY <1>1, PositionAt

\* A task submitted leaves the others where they are, its group behind them.
LEMMA UpkeepOrder ==
  ASSUME NEW p \in PoolType, OrderOK(p), NEW m, Upkeep(p, m)
  PROVE  /\ OrderOK(m)
         /\ \A r, s \in Requests :
              /\ WaitsIn(p, r) /\ WaitsIn(m, s)
              /\ WaitsIn(p, s) => Position(p, r) < Position(p, s)
              => r = s \/ Position(m, r) < Position(m, s)
<1>1. m \in PoolType
  BY DEF Upkeep, Sound
<1>2. CASE m.waiting = p.waiting /\ m.order = p.order
  BY <1>2 DEF OrderOK, WaitsIn, Position
<1>3. CASE \E t \in Task : /\ m.waiting = p.waiting \cup {t}
                           /\ m.order = IF \E u \in p.waiting : u[1] = t[1] THEN p.order
                                        ELSE Append(p.order, t[1])
  <2>1. PICK t \in Task : /\ m.waiting = p.waiting \cup {t}
                          /\ m.order = IF WaitsIn(p, t[1]) THEN p.order
                                       ELSE Append(p.order, t[1])
    BY <1>3 DEF WaitsIn
  <2>2. t[1] \in Requests
    BY TaskParts
  <2>3. \A r \in Requests : WaitsIn(m, r) <=> WaitsIn(p, r) \/ r = t[1]
    BY <2>1 DEF WaitsIn
  <2>4. CASE WaitsIn(p, t[1])
    <3>1. \A r \in Requests : WaitsIn(m, r) <=> WaitsIn(p, r)
      BY <2>3, <2>4
    <3>2. m.order = p.order
      BY <2>1, <2>4
    <3> QED
      BY <3>1, <3>2 DEF OrderOK, Position
  <2>5. CASE ~WaitsIn(p, t[1])
    <3> DEFINE n == Len(p.order)
    <3>1. /\ n \in Nat /\ Len(m.order) = n + 1
          /\ \A i \in 1..n : m.order[i] = p.order[i]
          /\ m.order[n + 1] = t[1]
      BY <2>1, <2>2, <2>5, AppendProperties, LenProperties DEF PoolType
    <3>2. \A i \in 1..n : p.order[i] \in Requests /\ p.order[i] # t[1]
      <4>1. \A i \in 1..n : p.order[i] \in Requests
        BY DEF PoolType
      <4> QED
        BY <2>5, <4>1 DEF OrderOK
    <3>3. OrderOK(m)
      <4>1. ASSUME NEW i \in 1..Len(m.order), NEW j \in 1..Len(m.order),
                   m.order[i] = m.order[j]
            PROVE  i = j
        <5>1. (i \in 1..n \/ i = n + 1) /\ (j \in 1..n \/ j = n + 1)
          BY <3>1
        <5> QED
          BY <3>1, <3>2, <4>1, <5>1 DEF OrderOK
      <4>2. ASSUME NEW r \in Requests
            PROVE  WaitsIn(m, r) <=> \E i \in 1..Len(m.order) : m.order[i] = r
        <5>1. WaitsIn(p, r) <=> \E i \in 1..n : p.order[i] = r
          BY DEF OrderOK
        <5>2. (\E i \in 1..Len(m.order) : m.order[i] = r)
                <=> (\E i \in 1..n : p.order[i] = r) \/ t[1] = r
          <6>1. \A i : i \in 1..Len(m.order) <=> i \in 1..n \/ i = n + 1
            BY <3>1
          <6> QED
            BY <3>1, <6>1
        <5> QED
          BY <2>3, <5>1, <5>2
      <4> QED
        BY <4>1, <4>2 DEF OrderOK
    <3>4. ASSUME NEW r \in Requests, WaitsIn(p, r)
          PROVE  Position(m, r) = Position(p, r) /\ Position(p, r) \in 1..n
      <4>1. Position(p, r) \in 1..n /\ p.order[Position(p, r)] = r
        BY <3>4, PositionOf
      <4>2. Position(p, r) \in 1..Len(m.order) /\ m.order[Position(p, r)] = r
        BY <3>1, <4>1
      <4> QED
        BY <1>1, <3>3, <4>1, <4>2, PositionAt
    <3>5. Position(m, t[1]) = n + 1
      <4>1. n + 1 \in 1..Len(m.order)
        BY <3>1
      <4> QED
        BY <1>1, <3>1, <3>3, <4>1, PositionAt
    <3> QED
      BY <2>3, <3>1, <3>3, <3>4, <3>5
  <2> QED
    BY <2>4, <2>5
<1> QED
  BY <1>2, <1>3 DEF Upkeep

\* take() puts the groups it took from behind the others, and changes nothing else.
LEMMA TurnOrder ==
  ASSUME NEW p \in PoolType, OrderOK(p), NEW q \in PoolType, q.waiting \subseteq p.waiting,
         q.order \in TurnOrders(p, p.waiting \ q.waiting)
  PROVE  /\ OrderOK(q)
         /\ \A r, s \in Requests :
              /\ WaitsIn(q, r) /\ WaitsIn(q, s) /\ r # s
              /\ ~ \E t \in p.waiting \ q.waiting : t[1] = r
              /\ \/ \E t \in p.waiting \ q.waiting : t[1] = s
                 \/ Position(p, r) < Position(p, s)
              => Position(q, r) < Position(q, s)
<1> DEFINE T == p.waiting \ q.waiting
           S == {t[1] : t \in p.waiting \ T}
           o == q.order
           N == Cardinality(S)
           took(r) == \E t \in T : t[1] = r
           lastOf(r) == CHOOSE t \in T : t[1] = r /\ \A u \in T : u[1] = r => u[2] <= t[2]
           earlier(r, s) ==
             \/ ~took(r) /\ took(s)
             \/ ~took(r) /\ ~took(s) /\ Position(p, r) < Position(p, s)
             \/ took(r) /\ took(s) /\ Before(p, lastOf(r), lastOf(s))
<1>1. o \in SetToSeqs(S) /\ \A i, j \in 1..Len(o) : i < j => earlier(o[i], o[j])
  BY DEF TurnOrders, IsSorted
<1>2. /\ S \subseteq Requests /\ \A r \in Requests : r \in S <=> WaitsIn(q, r)
  BY TaskParts DEF PoolType, WaitsIn
<1>3. IsFiniteSet(S) /\ N \in Nat
  BY <1>2, PoolAssumption, FS_Subset, FS_CardinalityType
<1>4. o \in [1..N -> S] /\ \A i, j \in 1..N : i # j => o[i] # o[j]
  BY <1>1 DEF SetToSeqs
<1> HIDE DEF S, N, o, T, earlier
<1>5. Len(o) = N /\ DOMAIN o = 1..N
  <2>1. o \in Seq(Requests)
    BY DEF o, PoolType
  <2>2. DOMAIN o = 1..Len(o) /\ Len(o) \in Nat
    BY <2>1, LenProperties
  <2>3. 1..Len(o) = 1..N
    BY <1>4, <2>2
  <2> QED
    BY <1>3, <1>4, <2>2, <2>3
<1>6. \A r \in S : \E i \in 1..N : o[i] = r
  <2>1. o \in Injection(1..N, S)
    BY <1>4 DEF Injection, IsInjective
  <2>2. Cardinality(1..N) = N
    BY <1>3, FS_Interval
  <2>3. o \in Surjection(1..N, S)
    BY <1>3, <2>1, <2>2, FS_Injection DEF N
  <2> QED
    BY <2>3 DEF Surjection
<1>7. OrderOK(q)
  BY <1>2, <1>4, <1>5, <1>6 DEF OrderOK, o
<1>8. ASSUME NEW r \in Requests, NEW s \in Requests,
             WaitsIn(q, r), WaitsIn(q, s), r # s, ~took(r),
             took(s) \/ Position(p, r) < Position(p, s)
      PROVE  Position(q, r) < Position(q, s)
  <2> DEFINE i == Position(q, r)
             j == Position(q, s)
  <2>1. i \in 1..Len(o) /\ o[i] = r /\ j \in 1..Len(o) /\ o[j] = s
    BY <1>7, <1>8, PositionOf DEF o
  <2> HIDE DEF i, j
  <2>2. i # j
    BY <1>8, <2>1
  <2>3. ASSUME j < i
        PROVE  FALSE
    <3>1. earlier(s, r)
      BY <1>1, <2>1, <2>3
    <3>2. ~took(s) /\ Position(p, s) < Position(p, r)
      BY <1>8, <3>1 DEF earlier
    <3>3. WaitsIn(p, r) /\ WaitsIn(p, s)
      BY <1>8 DEF WaitsIn
    <3>4. Position(p, r) \in 1..Len(p.order) /\ Position(p, s) \in 1..Len(p.order)
      BY <1>8, <3>3, PositionOf
    <3>5. Len(p.order) \in Nat
      BY LenProperties DEF PoolType
    <3> QED
      BY <1>8, <3>2, <3>4, <3>5
  <2>4. i \in Int /\ j \in Int
    BY <1>3, <1>5, <2>1
  <2> QED
    BY <2>2, <2>3, <2>4 DEF i, j
<1> QED
  BY <1>7, <1>8 DEF T

\* Some task of every group waiting is the next of its group.
LEMMA NextOfGroup ==
  ASSUME NEW p \in PoolType, NEW r \in Requests, WaitsIn(p, r)
  PROVE  \E u \in p.waiting : u[1] = r /\ Rank(p, u) = 0
<1> DEFINE I == {u[2] : u \in {v \in p.waiting : v[1] = r}}
           R == OpToRel(<, Nat)
<1>1. I \subseteq Nat /\ I # {}
  <2>1. \A u \in p.waiting : u[2] \in Nat
    BY TaskParts DEF PoolType
  <2>2. PICK u \in p.waiting : u[1] = r
    BY DEF WaitsIn
  <2>3. u[2] \in I
    BY <2>2
  <2> QED
    BY <2>1, <2>3
<1>2. IsWellFoundedOn(R, Nat)
  BY NatLessThanWellFounded
<1>3. \A i, j \in Nat : <<j, i>> \in R <=> j < i
  BY DEF OpToRel
<1> HIDE DEF R
<1>4. PICK i \in I : \A j \in I : ~ (<<j, i>> \in R)
  <2> HIDE DEF I
  <2> QED
    BY <1>1, <1>2, WFMin
<1>5. PICK u \in p.waiting : u[1] = r /\ u[2] = i
  BY <1>4
<1>6. \A v \in p.waiting : v[1] = r => v[2] \in I
  OBVIOUS
<1>7. {v \in p.waiting : v[1] = u[1] /\ v[2] < u[2]} = {}
  BY <1>1, <1>3, <1>4, <1>5, <1>6
<1>8. Rank(p, u) = 0
  BY <1>7, FS_EmptySet DEF Rank
<1> QED
  BY <1>5, <1>8

\* A group with nothing in a worker is passed over only by one ahead of it in turn.
LEMMA ServedInTurn ==
  ASSUME NEW p \in PoolType, NEW t \in p.waiting, NEW q,
         \A u \in q.waiting : ~Before(p, u, t),
         NEW r \in Requests, WaitsIn(p, r), p.running[r] = 0,
         Position(p, r) < Position(p, t[1])
  PROVE  \E u \in p.waiting \ q.waiting : u[1] = r
<1>1. PICK u \in p.waiting : u[1] = r /\ Rank(p, u) = 0
  BY NextOfGroup
<1>2. t \in Task /\ t[1] \in Requests /\ p.running[t[1]] \in Nat
  BY TaskParts DEF PoolType
<1>3. Rank(p, t) \in Nat
  <2>1. p.waiting \subseteq Task
    BY DEF PoolType
  <2>2. IsFiniteSet({v \in p.waiting : v[1] = t[1] /\ v[2] < t[2]})
    BY <2>1, TaskFinite, FS_Subset
  <2> QED
    BY <2>2, FS_CardinalityType DEF Rank
<1>4. Before(p, u, t)
  BY <1>1, <1>2, <1>3 DEF Before
<1> QED
  BY <1>1, <1>4

\* Every step keeps the turn order, and a request passed over ahead in it.
LEMMA StepAhead ==
  ASSUME Inv, Inv', History, OrderOK(pool), Ahead, QueueStep(pool, pool'), Passing
  PROVE  OrderOK(pool') /\ Ahead'
<1> DEFINE C(s) == Cardinality({u \in Took : u[1] = s})
           hadTurn(r) == \E u \in pool.waiting \ pool'.waiting : u[1] = r
<1>1. PICK m : Upkeep(pool, m) /\ Turn(m, pool')
  BY DEF QueueStep
<1>2. pool \in PoolType /\ pool' \in PoolType /\ m \in PoolType
  BY <1>1 DEF Inv, Sound, Upkeep
<1>3. /\ OrderOK(m)
      /\ \A r, s \in Requests :
           /\ WaitsIn(pool, r) /\ WaitsIn(m, s)
           /\ WaitsIn(pool, s) => Position(pool, r) < Position(pool, s)
           => r = s \/ Position(m, r) < Position(m, s)
  BY <1>1, <1>2, UpkeepOrder
<1>4. \A r, s \in Requests : passed'[r][s] =
        IF ~(pool'.running[r] = 0 /\ WaitsIn(pool', r)) \/ hadTurn(r) THEN 0
        ELSE passed[r][s] + C(s)
  BY DEF Passing, WaitsIn
<1>5. \A r, s \in Requests : passed[r][s] \in {0, 1}
  <2> TAKE r, s \in Requests
  <2>1. passed[r][s] \in Nat /\ passed[r][s] <= 1
    BY DEF History, Ahead
  <2> QED
    BY <2>1
<1>0. \A r \in Requests : passed[r][r] # 1
  <2> SUFFICES ASSUME NEW r \in Requests, passed[r][r] = 1
               PROVE  FALSE
    OBVIOUS
  <2>1. WaitsIn(pool, r) /\ Position(pool, r) < Position(pool, r)
    BY DEF Ahead
  <2>2. Position(pool, r) \in 1..Len(pool.order)
    BY <1>2, <2>1, PositionOf
  <2>3. Position(pool, r) \in Int
    BY <2>2
  <2> QED
    BY <2>1, <2>3
<1>6. \A r, s \in Requests :
        passed[r][s] = 1 => WaitsIn(pool, r)
                            /\ (WaitsIn(m, s) => r = s \/ Position(m, r) < Position(m, s))
  BY <1>3 DEF Ahead
<1> HIDE DEF C, hadTurn
<1>7. CASE pool'.waiting = {} /\ pool'.order = <<>>
  <2>1. \A r \in Requests : ~WaitsIn(pool', r)
    BY <1>7 DEF WaitsIn
  <2>2. Len(pool'.order) = 0
    BY <1>7
  <2>3. OrderOK(pool')
    BY <2>1, <2>2 DEF OrderOK
  <2> QED
    BY <1>4, <2>1, <2>3 DEF Ahead
<1>8. CASE /\ pool'.waiting = m.waiting /\ pool'.order = m.order
           /\ pool'.held = m.held /\ pool'.running = m.running
  <2>1. Took = {}
    BY <1>1, <1>8 DEF Took, Upkeep
  <2>2. \A s \in Requests : C(s) = 0
    BY <2>1, FS_EmptySet DEF C
  <2>3. OrderOK(pool')
    BY <1>3, <1>8 DEF OrderOK, WaitsIn
  <2>4. \A r, s \in Requests : passed'[r][s] \in {0, 1} /\ (passed'[r][s] = 1 =>
          passed[r][s] = 1 /\ WaitsIn(pool', r))
    BY <1>4, <1>5, <2>2
  <2>5. \A r \in Requests : WaitsIn(pool', r) = WaitsIn(m, r) /\ Position(pool', r) = Position(m, r)
    BY <1>8 DEF WaitsIn, Position
  <2>6. \A r \in Requests : passed'[r][r] # 1
    BY <1>0, <2>4
  <2> QED
    BY <1>6, <2>3, <2>4, <2>5, <2>6 DEF Ahead
<1>9. ASSUME NEW w \in Idle(m), NEW t \in m.waiting,
             pool'.waiting \subseteq m.waiting \ {t},
             \A u \in pool'.waiting : ~Before(m, u, t),
             pool'.order \in TurnOrders(m, m.waiting \ pool'.waiting),
             pool'.held = [m.held EXCEPT ![w] = t],
             pool'.running = [m.running EXCEPT ![t[1]] = @ + 1]
      PROVE  OrderOK(pool') /\ Ahead'
  <2>1. t \in Task /\ t[1] \in Requests
    BY <1>2, TaskParts DEF PoolType
  <2>2. /\ OrderOK(pool')
        /\ \A r, s \in Requests :
             /\ WaitsIn(pool', r) /\ WaitsIn(pool', s) /\ r # s
             /\ ~ \E u \in m.waiting \ pool'.waiting : u[1] = r
             /\ \/ \E u \in m.waiting \ pool'.waiting : u[1] = s
                \/ Position(m, r) < Position(m, s)
             => Position(pool', r) < Position(pool', s)
    BY <1>2, <1>3, <1>9, TurnOrder
  <2>3. Took \subseteq {t}
    BY <1>1, <1>2, <1>9 DEF Took, Upkeep, PoolType
  <2>4. \A s \in Requests : C(s) \in {0, 1} /\ (C(s) = 1 => s = t[1])
    <3> TAKE s \in Requests
    <3>1. {u \in Took : u[1] = s} = {} \/ ({u \in Took : u[1] = s} = {t} /\ s = t[1])
      BY <2>3
    <3> QED
      BY <3>1, FS_EmptySet, FS_Singleton DEF C
  <2>5. ASSUME NEW r \in Requests, NEW s \in Requests, passed'[r][s] # 0
        PROVE  /\ passed'[r][s] = 1 /\ WaitsIn(pool', r)
               /\ WaitsIn(pool', s) => Position(pool', r) < Position(pool', s)
    <3>1. /\ pool'.running[r] = 0 /\ WaitsIn(pool', r) /\ ~hadTurn(r)
          /\ passed'[r][s] = passed[r][s] + C(s)
      BY <1>4, <2>5
    <3>2. r # t[1] /\ m.running[r] = 0
      BY <1>2, <1>9, <2>1, <3>1 DEF PoolType
    <3>3. WaitsIn(m, r)
      BY <1>9, <3>1 DEF WaitsIn
    <3>4. pool.waiting # {} => m.waiting = pool.waiting
      BY <1>1, <1>9 DEF Upkeep
    <3>5. ASSUME m.waiting = pool.waiting
          PROVE  /\ passed'[r][s] = 1
                 /\ WaitsIn(pool', s) => Position(pool', r) < Position(pool', s)
      <4>1. ~ \E u \in m.waiting \ pool'.waiting : u[1] = r
        BY <3>1, <3>5 DEF hadTurn
      <4>2. ~(Position(m, r) < Position(m, t[1]))
        BY <1>2, <1>9, <3>2, <3>3, <4>1, ServedInTurn
      <4>3. CASE s = t[1]
        <5>1. passed[r][s] # 1
          <6>1. WaitsIn(m, s)
            BY <4>3 DEF WaitsIn
          <6> QED
            BY <1>6, <3>2, <4>2, <4>3, <6>1
        <5>2. passed'[r][s] = 1
          BY <1>5, <2>4, <2>5, <3>1, <5>1
        <5>3. \E u \in m.waiting \ pool'.waiting : u[1] = s
          BY <1>9, <4>3
        <5> QED
          BY <2>2, <3>1, <3>2, <4>1, <4>3, <5>2, <5>3
      <4>4. CASE s # t[1]
        <5>1. passed[r][s] = 1 /\ passed'[r][s] = 1
          BY <1>5, <2>4, <2>5, <3>1, <4>4
        <5>2. r # s
          BY <1>0, <5>1
        <5>3. WaitsIn(pool', s) => Position(m, r) < Position(m, s)
          BY <1>6, <1>9, <5>1, <5>2 DEF WaitsIn
        <5> QED
          BY <2>2, <3>1, <4>1, <5>1, <5>2, <5>3
      <4> QED
        BY <4>3, <4>4
    <3>6. CASE pool.waiting # {}
      BY <3>1, <3>4, <3>5, <3>6
    <3>7. CASE pool.waiting = {}
      <4>1. PICK x \in Task : m.waiting \subseteq {x}
        BY <1>1, <2>1, <3>7 DEF Upkeep
      <4>2. pool'.waiting = {}
        BY <1>9, <4>1
      <4> QED
        BY <3>1, <4>2 DEF WaitsIn
    <3> QED
      BY <3>6, <3>7
  <2> QED
    BY <2>2, <2>5 DEF Ahead
<1> QED
  BY <1>1, <1>7, <1>8, <1>9 DEF Turn

\* Of the requests with nothing in a worker, the one that has waited longest goes next:
\* none sees another take a second object first (the round-robin order of take()).
THEOREM NobodyTakesTwoTurns == Spec => []OneTurnAhead
<1>1. Init => OrderOK(pool) /\ Ahead
  <2> SUFFICES ASSUME Init PROVE OrderOK(pool) /\ Ahead
    OBVIOUS
  <2>1. Len(pool.order) = 0 /\ \A r \in Requests : ~WaitsIn(pool, r)
    BY DEF Init, WaitsIn
  <2>2. \A r, s \in Requests : passed[r][s] = 0
    BY DEF Init
  <2> QED
    BY <2>1, <2>2 DEF OrderOK, Ahead
<1>2. Inv /\ History /\ OrderOK(pool) /\ Ahead /\ [Next]_vars => (OrderOK(pool) /\ Ahead)'
  <2>1. ASSUME Inv, History, OrderOK(pool), Ahead, Next
        PROVE  OrderOK(pool') /\ Ahead'
    BY <2>1, StepPool, StepAhead
  <2>2. ASSUME OrderOK(pool), Ahead, UNCHANGED vars
        PROVE  OrderOK(pool') /\ Ahead'
    <3>1. pool' = pool /\ passed' = passed
      BY <2>2 DEF vars
    <3>2. OrderOK(pool')
      BY <2>2, <3>1
    <3>3. Ahead'
      BY <2>2, <3>1 DEF Ahead
    <3> QED
      BY <3>2, <3>3
  <2> QED
    BY <2>1, <2>2
<1>3. Ahead => OneTurnAhead
  BY DEF Ahead, OneTurnAhead
<1> QED
  BY <1>1, <1>2, <1>3, Invariance, PTL DEF Spec

-----------------------------------------------------------------------------
(***************************************************************************)
(* What a task of the pool lists, and what writes make of it (Series), for *)
(* a day of any length and any times, lengths, moves and overrides of      *)
(* other programs.  All rest on one view of the listing (ListedOnce): it   *)
(* has one entry for every time the rule or an override names, which       *)
(* Occurrence gives.  A write is then judged one time after another.       *)
(***************************************************************************)

OverrideType == [rid : Int, range : BOOLEAN, start : Int, len : Nat, title : Titles, seq : Nat]

\* No override stands behind n, or is of a later revision.
Within(o, n) == \A i \in Overrides(o) : i <= n /\ o.overrides[i].seq <= n

Typed(o) ==
  /\ o = [master |-> o.master, overrides |-> o.overrides]
  /\ o.master \in MasterType \cup {None}
  /\ Overrides(o) \subseteq Nat
  /\ o.overrides \in [Overrides(o) -> OverrideType]
  /\ \E n \in Nat : Within(o, n)

\* An override that reaches further is of an occurrence there is, and its only
\* revision.
RangesBegin(o) ==
  \A i \in modifiesFuture(o) :
    /\ o.overrides[i].rid \in Starts(o)
    /\ \A j \in Overrides(o) : o.overrides[j].rid = o.overrides[i].rid => j = i

\* A rule that ends on a date has times of its own.
Dated(o) == o.master # None /\ o.master.rule.kind = "date" => o.master.rule.own

Whole(o) == Typed(o) /\ RangesBegin(o) /\ Dated(o)

OverriddenTimes(o) == {o.overrides[i].rid : i \in Overrides(o)}

Named(o) == Starts(o) \cup OverriddenTimes(o)

\* The override i speaks for t; it governs t.
Speaks(o, t, i) == i \in Current(o) /\ o.overrides[i].rid = t

Governs(o, t, g) ==
  /\ g \in modifiesFuture(o) /\ o.overrides[g].rid <= t
  /\ \A j \in modifiesFuture(o) :
       o.overrides[j].rid <= t => o.overrides[j].rid <= o.overrides[g].rid

-----------------------------------------------------------------------------
(* Greatest and least elements *)

LEMMA LeastNat ==
  ASSUME NEW T \in SUBSET Nat, T # {}
  PROVE  \E i \in T : \A j \in T : i <= j
<1>1. PICK i \in T : \A j \in T : ~(<<j, i>> \in OpToRel(<, Nat))
  BY NatLessThanWellFounded, WFMin
<1>2. \A j \in T : ~(j < i)
  BY <1>1 DEF OpToRel
<1> QED
  BY <1>2

\* S has members, and none above n; none below n.
AtMost(S, n) == S \subseteq Int /\ S # {} /\ n \in Int /\ \A x \in S : x <= n
AtLeast(S, n) == S \subseteq Int /\ S # {} /\ n \in Int /\ \A x \in S : n <= x

LEMMA GreatestIs ==
  ASSUME NEW S, NEW n, AtMost(S, n)
  PROVE  MaxOf(S) \in S /\ \A y \in S : y <= MaxOf(S)
<1> DEFINE T == {k \in Nat : n - k \in S}
<1>1. T \in SUBSET Nat /\ T # {}
  <2>1. PICK x \in S : TRUE
    BY DEF AtMost
  <2>2. n - x \in T
    BY DEF AtMost
  <2> QED
    BY <2>2
<1>2. PICK i \in T : \A j \in T : i <= j
  <2> HIDE DEF T
  <2> QED
    BY <1>1, LeastNat
<1>3. PICK x \in S : i = n - x
  BY <1>2 DEF AtMost
<1>4. ASSUME NEW y \in S
      PROVE  y <= x
  <2>1. n - y \in T
    BY DEF AtMost
  <2> QED
    BY <1>2, <1>3, <2>1 DEF AtMost
<1> QED
  BY <1>4 DEF MaxOf

LEMMA LeastIs ==
  ASSUME NEW S, NEW n, AtLeast(S, n)
  PROVE  MinOf(S) \in S /\ \A y \in S : MinOf(S) <= y
<1> DEFINE T == {k \in Nat : n + k \in S}
<1>1. T \in SUBSET Nat /\ T # {}
  <2>1. PICK x \in S : TRUE
    BY DEF AtLeast
  <2>2. x - n \in T
    BY DEF AtLeast
  <2> QED
    BY <2>2
<1>2. PICK i \in T : \A j \in T : i <= j
  <2> HIDE DEF T
  <2> QED
    BY <1>1, LeastNat
<1>3. PICK x \in S : i = x - n
  BY <1>2 DEF AtLeast
<1>4. ASSUME NEW y \in S
      PROVE  x <= y
  <2>1. y - n \in T
    BY DEF AtLeast
  <2> QED
    BY <1>2, <1>3, <2>1 DEF AtLeast
<1> QED
  BY <1>4 DEF MinOf

-----------------------------------------------------------------------------
(* Which override speaks for a time *)

LEMMA TypedOverride ==
  ASSUME NEW o, Typed(o), NEW i \in Overrides(o)
  PROVE  i \in Nat /\ o.overrides[i] \in OverrideType
BY DEF Typed

LEMMA OneSpeaks ==
  ASSUME NEW o, Typed(o), NEW t, NEW i, NEW j, Speaks(o, t, i), Speaks(o, t, j)
  PROVE  i = j
<1>1. i \in Revisions(o, t) /\ j \in Revisions(o, t) /\ i \in Overrides(o) /\ j \in Overrides(o)
  BY DEF Speaks, Current, Revisions
<1>2. \/ o.overrides[j].seq < o.overrides[i].seq
      \/ o.overrides[j].seq = o.overrides[i].seq /\ j <= i
  BY <1>1 DEF Speaks, Current
<1>3. \/ o.overrides[i].seq < o.overrides[j].seq
      \/ o.overrides[i].seq = o.overrides[j].seq /\ i <= j
  BY <1>1 DEF Speaks, Current
<1>4. i \in Nat /\ j \in Nat /\ o.overrides[i].seq \in Nat /\ o.overrides[j].seq \in Nat
  BY <1>1, TypedOverride DEF OverrideType
<1> QED
  BY <1>2, <1>3, <1>4

LEMMA SomeSpeaks ==
  ASSUME NEW o, Typed(o), NEW t, Overridden(o, t)
  PROVE  Speaks(o, t, currentOf(o, t))
<1> DEFINE R == Revisions(o, t)
           Q == {o.overrides[i].seq : i \in R}
           q == MaxOf(Q)
           L == {i \in R : o.overrides[i].seq = q}
           l == MaxOf(L)
<1>1. R \subseteq Overrides(o) /\ R # {} /\ \A i \in R : o.overrides[i].rid = t
  BY DEF Revisions, Overridden
<1>2. PICK n \in Nat : Within(o, n)
  BY DEF Typed
<1>3. \A i \in R : i \in Int /\ o.overrides[i].seq \in Int /\ i <= n /\ o.overrides[i].seq <= n
  BY <1>1, <1>2, TypedOverride DEF OverrideType, Within
<1>4. AtMost(Q, n)
  BY <1>1, <1>3 DEF AtMost
<1>5. q \in Q /\ \A y \in Q : y <= q
  <2> HIDE DEF Q
  <2> QED
    BY <1>4, GreatestIs
<1>6. AtMost(L, n)
  <2>1. \E i \in R : o.overrides[i].seq = q
    BY <1>5
  <2> HIDE DEF q
  <2> QED
    BY <1>3, <2>1 DEF AtMost
<1>7. l \in L /\ \A y \in L : y <= l
  <2> HIDE DEF L
  <2> QED
    BY <1>6, GreatestIs
<1> HIDE DEF q, l
<1>8. \A j \in R : \/ o.overrides[j].seq < o.overrides[l].seq
                   \/ o.overrides[j].seq = o.overrides[l].seq /\ j <= l
  <2> SUFFICES ASSUME NEW j \in R, ~(o.overrides[j].seq < o.overrides[l].seq)
               PROVE  o.overrides[j].seq = o.overrides[l].seq /\ j <= l
    OBVIOUS
  <2>1. o.overrides[j].seq \in Q /\ o.overrides[l].seq = q
    BY <1>7
  <2>2. o.overrides[j].seq = q
    <3> HIDE DEF Q
    <3> QED
      BY <2>1, <1>3, <1>5, <1>7
  <2> QED
    BY <2>1, <2>2, <1>7
<1>9. l \in Current(o) /\ o.overrides[l].rid = t
  BY <1>1, <1>7, <1>8 DEF Current
<1> QED
  BY <1>9 DEF currentOf, Speaks

LEMMA SpeakerIs ==
  ASSUME NEW o, Typed(o), NEW t, NEW i, Speaks(o, t, i)
  PROVE  Overridden(o, t) /\ currentOf(o, t) = i
<1>1. Overridden(o, t)
  BY DEF Speaks, Current, Overridden, Revisions
<1> QED
  BY <1>1, SomeSpeaks, OneSpeaks

-----------------------------------------------------------------------------
LEMMA OneRevision ==
  ASSUME NEW o, Typed(o), NEW t, NEW i, Revisions(o, t) = {i}
  PROVE  Speaks(o, t, i)
<1>1. i \in Overrides(o) /\ o.overrides[i].rid = t
  BY DEF Revisions
<1>2. i <= i
  BY <1>1, TypedOverride
<1> QED
  BY <1>1, <1>2 DEF Speaks, Current

LEMMA SpokenFor ==
  ASSUME NEW o, Typed(o), NEW t, NEW i, Speaks(o, t, i)
  PROVE  Occurrence(o, t) = Shown(t, o.overrides[i])
BY SpeakerIs DEF Occurrence

LEMMA SomeGoverns ==
  ASSUME NEW o, Typed(o), NEW t \in Int, Governed(o, t)
  PROVE  Governs(o, t, governingRange(o, t))
<1> DEFINE B == {i \in modifiesFuture(o) : o.overrides[i].rid <= t}
           Q == {o.overrides[i].rid : i \in B}
           q == MaxOf(Q)
           L == {i \in B : o.overrides[i].rid = q}
           l == MaxOf(L)
<1>1. B \subseteq Overrides(o) /\ B # {}
  BY DEF modifiesFuture, Governed
<1>2. PICK n \in Nat : Within(o, n)
  BY DEF Typed
<1>3. \A i \in B : i \in Int /\ o.overrides[i].rid \in Int /\ i <= n /\ o.overrides[i].rid <= t
  BY <1>1, <1>2, TypedOverride DEF OverrideType, Within
<1>4. AtMost(Q, t)
  BY <1>1, <1>3 DEF AtMost
<1>5. q \in Q /\ \A y \in Q : y <= q
  <2> HIDE DEF Q
  <2> QED
    BY <1>4, GreatestIs
<1>6. AtMost(L, n)
  <2>1. \E i \in B : o.overrides[i].rid = q
    BY <1>5
  <2> HIDE DEF q, B
  <2> QED
    BY <1>3, <2>1 DEF AtMost
<1>7. l \in L
  <2> HIDE DEF L
  <2> QED
    BY <1>6, GreatestIs
<1>8. l = governingRange(o, t)
  BY DEF governingRange
<1> HIDE DEF l
<1>9. l \in B /\ o.overrides[l].rid = q
  BY <1>7
<1>10. \A j \in B : o.overrides[j].rid <= q
  BY <1>5
<1> QED
  BY <1>8, <1>9, <1>10 DEF Governs

LEMMA GovernorIs ==
  ASSUME NEW o, Typed(o), RangesBegin(o), NEW t \in Int, NEW g, Governs(o, t, g)
  PROVE  Governed(o, t) /\ governingRange(o, t) = g
<1>1. Governed(o, t)
  BY DEF Governs, Governed
<1> DEFINE h == governingRange(o, t)
<1>2. Governs(o, t, h)
  BY <1>1, SomeGoverns
<1> HIDE DEF h
<1>3. g \in modifiesFuture(o) /\ h \in modifiesFuture(o) /\ g \in Overrides(o) /\ h \in Overrides(o)
  BY <1>2 DEF Governs, modifiesFuture
<1>4. o.overrides[g].rid \in Int /\ o.overrides[h].rid \in Int
  BY <1>3, TypedOverride DEF OverrideType
<1>5. o.overrides[g].rid <= o.overrides[h].rid /\ o.overrides[h].rid <= o.overrides[g].rid
  BY <1>2, <1>3 DEF Governs
<1>6. g = h
  BY <1>3, <1>4, <1>5 DEF RangesBegin
<1> QED
  BY <1>1, <1>6 DEF h

LEMMA Reached ==
  ASSUME NEW o, Typed(o), RangesBegin(o), NEW t \in Int, ~Overridden(o, t), NEW g, Governs(o, t, g)
  PROVE  Occurrence(o, t) = Shown(t, rangeShifted(o.overrides[g], t))
BY GovernorIs DEF Occurrence

LEMMA OfTheMaster ==
  ASSUME NEW o, NEW t, FromMaster(o, t)
  PROVE  Occurrence(o, t) = Shown(t, [o.master EXCEPT !.start = t])
BY DEF Occurrence, FromMaster

-----------------------------------------------------------------------------
(* The listing, time by time *)

LEMMA OccurrenceNamed ==
  ASSUME NEW o, NEW t
  PROVE  Occurrence(o, t).rid = t
BY DEF Occurrence, Shown

\* However far the walk went, one entry for each time it met or an override
\* names.
LEMMA ListedOnce ==
  ASSUME NEW o, Typed(o), NEW W
  PROVE  ListedWalking(o, W) = {Occurrence(o, t) : t \in W \cup OverriddenTimes(o)}
<1>1. ASSUME NEW i \in Current(o)
      PROVE  /\ o.overrides[i].rid \in OverriddenTimes(o)
             /\ Shown(o.overrides[i].rid, o.overrides[i]) = Occurrence(o, o.overrides[i].rid)
  <2>1. Speaks(o, o.overrides[i].rid, i)
    BY DEF Speaks
  <2>2. i \in Overrides(o)
    BY DEF Current
  <2> QED
    BY <2>1, <2>2, SpokenFor DEF OverriddenTimes
<1>2. ASSUME NEW t \in OverriddenTimes(o)
      PROVE  \E i \in Current(o) : o.overrides[i].rid = t /\ Occurrence(o, t) = Shown(o.overrides[i].rid, o.overrides[i])
  <2>1. Overridden(o, t)
    BY DEF OverriddenTimes, Overridden, Revisions
  <2>2. Speaks(o, t, currentOf(o, t))
    BY <2>1, SomeSpeaks
  <2> QED
    BY <2>2, SpokenFor DEF Speaks
<1> DEFINE Once == {Occurrence(o, t) : t \in W \cup OverriddenTimes(o)}
<1>3. ASSUME NEW e \in ListedWalking(o, W)
      PROVE  e \in Once
  <2>1. CASE e \in {Occurrence(o, t) : t \in W}
    BY <2>1
  <2>2. ASSUME NEW i \in Current(o), e = Shown(o.overrides[i].rid, o.overrides[i])
        PROVE  e \in Once
    BY <1>1, <2>2
  <2> QED
    BY <1>3, <2>1, <2>2 DEF ListedWalking
<1>4. ASSUME NEW t \in W \cup OverriddenTimes(o)
      PROVE  Occurrence(o, t) \in ListedWalking(o, W)
  <2>1. CASE t \in W
    BY <2>1 DEF ListedWalking
  <2>2. CASE t \notin W
    <3>1. PICK i \in Current(o) : o.overrides[i].rid = t /\ Occurrence(o, t) = Shown(o.overrides[i].rid, o.overrides[i])
      BY <1>2, <2>2
    <3> QED
      BY <2>2, <3>1 DEF ListedWalking
  <2> QED
    BY <2>1, <2>2
<1> QED
  BY <1>3, <1>4

LEMMA ListingIs ==
  ASSUME NEW o, Typed(o)
  PROVE  Listing(o) = {Occurrence(o, t) : t \in Named(o)} /\ Rids(o) = Named(o)
<1>1. Listing(o) = {Occurrence(o, t) : t \in Named(o)}
  BY ListedOnce DEF Listing, Named
<1> QED
  BY <1>1, OccurrenceNamed DEF Rids

LEMMA TypedMaster ==
  ASSUME NEW o, Typed(o), o.master # None
  PROVE  o.master \in MasterType /\ Starts(o) = Walk(o.master)
BY MasterAssumption DEF Typed, Starts

LEMMA TypedStarts ==
  ASSUME NEW o, Typed(o)
  PROVE  Starts(o) \subseteq Int /\ OverriddenTimes(o) \subseteq Int /\ Named(o) \subseteq Int
<1>1. Starts(o) \subseteq Int
  <2>1. CASE o.master = None
    BY <2>1 DEF Starts
  <2>2. CASE o.master # None
    <3>1. RuleTimes(o.master) \subseteq Int
      <4>1. \A i \in 0 .. Days - 1 : o.master.start + i * Day \in Int
        BY <2>2, TypedMaster, SeriesAssumption DEF MasterType
      <4> QED
        BY <4>1 DEF RuleTimes
    <3> QED
      BY <2>2, <3>1, TypedMaster DEF MasterType, Walk
  <2> QED
    BY <2>1, <2>2
<1>2. OverriddenTimes(o) \subseteq Int
  BY TypedOverride DEF OverriddenTimes, OverrideType
<1> QED
  BY <1>1, <1>2 DEF Named

EntryType == [rid : Int, start : Int, len : Nat, title : Titles]

LEMMA OccurrenceTyped ==
  ASSUME NEW o, Typed(o), NEW t \in Named(o)
  PROVE  Occurrence(o, t) \in EntryType
<1>1. t \in Int
  BY TypedStarts
<1>2. CASE Overridden(o, t)
  <2> DEFINE i == currentOf(o, t)
  <2>1. Speaks(o, t, i) /\ i \in Overrides(o)
    BY <1>2, SomeSpeaks DEF Speaks, Current
  <2>2. o.overrides[i] \in OverrideType
    BY <2>1, TypedOverride
  <2>3. Occurrence(o, t) = Shown(t, o.overrides[i])
    BY <2>1, SpokenFor
  <2> HIDE DEF i
  <2> QED
    BY <1>1, <2>2, <2>3 DEF Shown, OverrideType, EntryType
<1>3. CASE ~Overridden(o, t) /\ Governed(o, t)
  <2> DEFINE g == governingRange(o, t)
  <2>1. g \in Overrides(o)
    BY <1>1, <1>3, SomeGoverns DEF Governs, modifiesFuture
  <2>2. o.overrides[g] \in OverrideType
    BY <2>1, TypedOverride
  <2>3. Occurrence(o, t) = Shown(t, rangeShifted(o.overrides[g], t))
    BY <1>3 DEF Occurrence
  <2> HIDE DEF g
  <2> QED
    BY <1>1, <2>2, <2>3 DEF Shown, OverrideType, EntryType, rangeShifted
<1>4. CASE FromMaster(o, t)
  <2>1. t \in Starts(o)
    BY <1>4 DEF FromMaster, Named, OverriddenTimes, Overridden, Revisions
  <2>2. o.master \in MasterType
    BY <2>1, TypedMaster DEF Starts
  <2>3. Occurrence(o, t) = Shown(t, [o.master EXCEPT !.start = t])
    BY <1>4, OfTheMaster
  <2> QED
    BY <1>1, <2>2, <2>3 DEF Shown, MasterType, EntryType
<1> QED
  BY <1>2, <1>3, <1>4 DEF FromMaster

-----------------------------------------------------------------------------
(* Windows *)

ForwardOnly(o) == \A i \in modifiesFuture(o) : o.overrides[i].start >= o.overrides[i].rid

\* An occurrence after the window's end that no override is of starts after it.
LEMMA BeyondTheWindow ==
  ASSUME NEW o, Typed(o), ForwardOnly(o), NEW t \in Starts(o), t \notin OverriddenTimes(o)
  PROVE  Occurrence(o, t).start >= t
<1>1. t \in Int /\ o.master # None
  BY TypedStarts DEF Starts
<1>2. ~Overridden(o, t)
  BY DEF OverriddenTimes, Overridden, Revisions
<1>3. CASE Governed(o, t)
  <2> DEFINE g == governingRange(o, t)
  <2>1. g \in modifiesFuture(o)
    BY <1>1, <1>3, SomeGoverns DEF Governs
  <2>2. g \in Overrides(o)
    BY <2>1 DEF modifiesFuture
  <2>3. o.overrides[g] \in OverrideType /\ o.overrides[g].start >= o.overrides[g].rid
    BY <2>1, <2>2, TypedOverride DEF ForwardOnly
  <2>4. Occurrence(o, t) = Shown(t, rangeShifted(o.overrides[g], t))
    BY <1>2, <1>3 DEF Occurrence
  <2> HIDE DEF g
  <2>5. Occurrence(o, t).start = t + (o.overrides[g].start - o.overrides[g].rid)
    BY <2>3, <2>4 DEF Shown, rangeShifted, OverrideType
  <2> QED
    BY <1>1, <2>3, <2>5 DEF OverrideType
<1>4. CASE ~Governed(o, t)
  <2>1. Occurrence(o, t) = Shown(t, [o.master EXCEPT !.start = t])
    BY <1>2, <1>4, OfTheMaster DEF FromMaster
  <2>2. Occurrence(o, t).start = t
    BY <1>1, <2>1, TypedMaster DEF Shown, MasterType
  <2> QED
    BY <1>1, <2>2
<1> QED
  BY <1>3, <1>4

LEMMA WindowHolds ==
  ASSUME NEW o, Typed(o), ForwardOnly(o), NEW from, NEW to \in Int
  PROVE  Window(o, from, to) = {e \in Listing(o) : inWindow(e, from, to)}
<1> DEFINE W == {t \in Starts(o) : t < to}
<1>1. ListedWalking(o, W) = {Occurrence(o, t) : t \in W \cup OverriddenTimes(o)}
  BY ListedOnce
<1>2. Listing(o) = {Occurrence(o, t) : t \in Starts(o) \cup OverriddenTimes(o)}
  BY ListingIs DEF Named
<1>3. ASSUME NEW t \in Starts(o), t \notin W, t \notin OverriddenTimes(o)
      PROVE  ~inWindow(Occurrence(o, t), from, to)
  <2>1. t \in Int /\ t >= to
    BY <1>3, TypedStarts
  <2>2. Occurrence(o, t).start >= t
    BY <1>3, BeyondTheWindow
  <2>3. Occurrence(o, t) \in EntryType
    BY OccurrenceTyped DEF Named
  <2>4. ~(Occurrence(o, t).start < to)
    BY <2>1, <2>2, <2>3 DEF EntryType
  <2> QED
    BY <2>4 DEF inWindow
<1>4. W \subseteq Starts(o)
  OBVIOUS
<1> HIDE DEF W
<1>5. {e \in ListedWalking(o, W) : inWindow(e, from, to)} = {e \in Listing(o) : inWindow(e, from, to)}
  BY <1>1, <1>2, <1>3, <1>4
<1> QED
  BY <1>5 DEF Window, W

-----------------------------------------------------------------------------
(* Objects that differ in one override *)

Replaced(o, i, v) == [o EXCEPT !.overrides[i] = v]

LEMMA PutIs ==
  ASSUME NEW o, Typed(o), NEW i \in Overrides(o), NEW v \in OverrideType
  PROVE  /\ Typed(Replaced(o, i, v))
         /\ Replaced(o, i, v).master = o.master
         /\ Overrides(Replaced(o, i, v)) = Overrides(o)
         /\ \A j \in Overrides(o) : Replaced(o, i, v).overrides[j] = IF j = i THEN v ELSE o.overrides[j]
<1> DEFINE w == Replaced(o, i, v)
           f == [o.overrides EXCEPT ![i] = v]
<1>1. w = [master |-> o.master, overrides |-> f]
  BY DEF Typed, Replaced
<1>2. f \in [Overrides(o) -> OverrideType] /\ DOMAIN f = Overrides(o)
  BY DEF Typed
<1>3. w.master = o.master /\ w.overrides = f /\ Overrides(w) = Overrides(o)
  BY <1>1, <1>2 DEF Overrides
<1>4. \A j \in Overrides(o) : w.overrides[j] = IF j = i THEN v ELSE o.overrides[j]
  BY <1>3 DEF Typed
<1> HIDE DEF w
<1>5. PICK n \in Nat : Within(o, n)
  BY DEF Typed
<1>6. Within(w, n + v.seq) /\ n + v.seq \in Nat
  BY <1>3, <1>4, <1>5, TypedOverride DEF Within, OverrideType
<1> HIDE DEF f
<1>7. Typed(w)
  BY <1>1, <1>2, <1>3, <1>6 DEF Typed
<1> QED
  BY <1>3, <1>4, <1>7 DEF w

LEMMA BehindIs ==
  ASSUME NEW o, Typed(o)
  PROVE  Behind(o) \in Nat /\ \A j \in Overrides(o) : j < Behind(o)
<1> DEFINE S == {0} \cup Overrides(o)
<1>1. PICK n \in Nat : Within(o, n)
  BY DEF Typed
<1>2. AtMost(S, n)
  BY <1>1 DEF AtMost, Typed, Within
<1>3. S \subseteq Nat
  BY DEF Typed
<1>4. MaxOf(S) \in S /\ \A y \in S : y <= MaxOf(S)
  <2> HIDE DEF S
  <2> QED
    BY <1>2, GreatestIs
<1> QED
  BY <1>3, <1>4 DEF Behind

LEMMA AddedIs ==
  ASSUME NEW o, Typed(o), NEW v \in OverrideType
  PROVE  /\ Typed(Added(o, v))
         /\ Added(o, v).master = o.master
         /\ Overrides(Added(o, v)) = Overrides(o) \cup {Behind(o)}
         /\ Behind(o) \notin Overrides(o)
         /\ Added(o, v).overrides[Behind(o)] = v
         /\ \A j \in Overrides(o) : Added(o, v).overrides[j] = o.overrides[j]
<1> DEFINE w == Added(o, v)
           b == Behind(o)
           f == [i \in Overrides(o) \cup {b} |-> IF i \in Overrides(o) THEN o.overrides[i] ELSE v]
<1>1. w = [master |-> o.master, overrides |-> f]
  BY DEF Typed, Added
<1>2. b \in Nat /\ b \notin Overrides(o) /\ \A j \in Overrides(o) : j < b
  BY BehindIs DEF Typed
<1> HIDE DEF b
<1>3. DOMAIN f = Overrides(o) \cup {b} /\ f \in [Overrides(o) \cup {b} -> OverrideType]
  BY TypedOverride
<1>4. w.master = o.master /\ w.overrides = f /\ Overrides(w) = Overrides(o) \cup {b}
  BY <1>1, <1>3 DEF Overrides
<1>5. w.overrides[b] = v /\ \A j \in Overrides(o) : w.overrides[j] = o.overrides[j]
  BY <1>2, <1>4
<1> HIDE DEF w
<1>6. PICK n \in Nat : Within(o, n)
  BY DEF Typed
<1>7. Within(w, n + b + v.seq) /\ n + b + v.seq \in Nat
  BY <1>2, <1>4, <1>5, <1>6, TypedOverride DEF Within, OverrideType
<1> HIDE DEF f
<1>8. Typed(w)
  BY <1>1, <1>2, <1>3, <1>4, <1>7 DEF Typed
<1> QED
  BY <1>2, <1>4, <1>5, <1>8 DEF w, b

\* The same revisions of t; the same overrides that reach further.
Alike(o, w, t) ==
  Revisions(w, t) = Revisions(o, t) /\ \A i \in Revisions(o, t) : w.overrides[i] = o.overrides[i]

RangesAlike(o, w) ==
  modifiesFuture(w) = modifiesFuture(o) /\ \A i \in modifiesFuture(o) : w.overrides[i] = o.overrides[i]

\* A main VEVENT that shows as another.
MasterAlike(m, n) == m \in MasterType /\ n \in MasterType /\ n.len = m.len /\ n.title = m.title

LEMMA SameRevisions ==
  ASSUME NEW o, NEW w, Typed(o), Typed(w), NEW t, Alike(o, w, t), Overridden(o, t)
  PROVE  Overridden(w, t) /\ Occurrence(w, t) = Occurrence(o, t)
<1> DEFINE i == currentOf(o, t)
<1>1. Speaks(o, t, i)
  BY SomeSpeaks
<1> HIDE DEF i
<1>2. i \in Revisions(o, t) /\ o.overrides[i].rid = t
  BY <1>1 DEF Speaks, Current, Revisions
<1>3. Speaks(w, t, i)
  BY <1>1, <1>2 DEF Speaks, Current, Alike, Revisions
<1> QED
  BY <1>1, <1>2, <1>3, SpokenFor, SpeakerIs DEF Alike

LEMMA FromMasterIs ==
  ASSUME NEW o, Typed(o), NEW t \in Named(o), FromMaster(o, t)
  PROVE  t \in Starts(o) /\ o.master \in MasterType
<1>1. t \in Starts(o)
  BY DEF FromMaster, Named, OverriddenTimes, Overridden, Revisions
<1> QED
  BY <1>1, TypedMaster DEF Starts

LEMMA Undisturbed ==
  ASSUME NEW o, NEW w, Typed(o), Typed(w), RangesBegin(o), RangesBegin(w), NEW t \in Int,
         Alike(o, w, t), RangesAlike(o, w), FromMaster(o, t) => MasterAlike(o.master, w.master)
  PROVE  Occurrence(w, t) = Occurrence(o, t)
<1>1. CASE Overridden(o, t)
  BY <1>1, SameRevisions
<1>2. ASSUME ~Overridden(o, t)
      PROVE  ~Overridden(w, t)
  BY <1>2 DEF Alike, Overridden
<1>3. CASE ~Overridden(o, t) /\ Governed(o, t)
  <2> DEFINE g == governingRange(o, t)
  <2>1. Governs(o, t, g)
    BY <1>3, SomeGoverns
  <2> HIDE DEF g
  <2>2. g \in modifiesFuture(o) /\ Governs(w, t, g)
    BY <2>1 DEF Governs, RangesAlike
  <2> QED
    BY <1>2, <1>3, <2>1, <2>2, Reached DEF RangesAlike
<1>4. CASE FromMaster(o, t)
  <2>1. FromMaster(w, t)
    BY <1>2, <1>4 DEF FromMaster, Governed, RangesAlike
  <2> QED
    BY <1>4, <2>1, OfTheMaster DEF MasterAlike, MasterType, Shown
<1> QED
  BY <1>1, <1>3, <1>4 DEF FromMaster

-----------------------------------------------------------------------------
(* Changing and removing an override that reaches no further *)

PlainAt(o, t) == \A i \in Revisions(o, t) : ~o.overrides[i].range

LEMMA NotBegun ==
  ASSUME NEW o, Whole(o), NEW t, ~BeginsRange(o, t)
  PROVE  PlainAt(o, t)
<1> SUFFICES ASSUME NEW i \in Revisions(o, t), o.overrides[i].range
             PROVE  FALSE
  BY DEF PlainAt
<1>1. i \in modifiesFuture(o) /\ o.overrides[i].rid = t /\ Overridden(o, t)
  BY DEF Revisions, modifiesFuture, Overridden
<1>2. o.master # None
  BY <1>1 DEF Whole, RangesBegin, Starts
<1>3. Speaks(o, t, currentOf(o, t))
  BY <1>1, SomeSpeaks DEF Whole
<1>4. currentOf(o, t) = i
  BY <1>1, <1>3 DEF Whole, RangesBegin, Speaks, Current
<1> QED
  BY <1>1, <1>2, <1>4 DEF BeginsRange

\* An override with another title, start and length.
Retold(v, title, start, len) == [v EXCEPT !.title = title, !.start = start, !.len = len]

LEMMA RetoldIs ==
  ASSUME NEW v \in OverrideType, NEW title, NEW start, NEW len
  PROVE  /\ Retold(v, title, start, len) =
              [rid |-> v.rid, range |-> v.range, start |-> start, len |-> len, title |-> title, seq |-> v.seq]
         /\ Retold(Shown(v.rid, v), title, start, len) =
              [rid |-> v.rid, start |-> start, len |-> len, title |-> title]
<1> DEFINE withTitle(w) == [w EXCEPT !.title = title]
           withStart(w) == [w EXCEPT !.start = start]
           withLen(w) == [w EXCEPT !.len = len]
<1>1. \A w : Retold(w, title, start, len) = withLen(withStart(withTitle(w)))
  BY DEF Retold
<1>2. v = [rid |-> v.rid, range |-> v.range, start |-> v.start, len |-> v.len, title |-> v.title, seq |-> v.seq]
  BY DEF OverrideType
<1> DEFINE full(st, ln, ti) ==
             [rid |-> v.rid, range |-> v.range, start |-> st, len |-> ln, title |-> ti, seq |-> v.seq]
           part(st, ln, ti) == [rid |-> v.rid, start |-> st, len |-> ln, title |-> ti]
<1>3. /\ withTitle(full(v.start, v.len, v.title)) = full(v.start, v.len, title)
      /\ withStart(full(v.start, v.len, title)) = full(start, v.len, title)
      /\ withLen(full(start, v.len, title)) = full(start, len, title)
  OBVIOUS
<1>4. /\ withTitle(part(v.start, v.len, v.title)) = part(v.start, v.len, title)
      /\ withStart(part(v.start, v.len, title)) = part(start, v.len, title)
      /\ withLen(part(start, v.len, title)) = part(start, len, title)
  OBVIOUS
<1>5. v = full(v.start, v.len, v.title) /\ Shown(v.rid, v) = part(v.start, v.len, v.title)
  BY <1>2 DEF Shown
<1>6. /\ full(start, len, title) =
           [rid |-> v.rid, range |-> v.range, start |-> start, len |-> len, title |-> title, seq |-> v.seq]
      /\ part(start, len, title) = [rid |-> v.rid, start |-> start, len |-> len, title |-> title]
  OBVIOUS
<1> HIDE DEF full, part, withTitle, withStart, withLen
<1>7. Retold(full(v.start, v.len, v.title), title, start, len) = full(start, len, title)
  BY <1>1, <1>3
<1>8. Retold(part(v.start, v.len, v.title), title, start, len) = part(start, len, title)
  BY <1>1, <1>4
<1> QED
  BY <1>5, <1>6, <1>7, <1>8

LEMMA TypedPatch ==
  ASSUME NEW v \in OverrideType, NEW p \in Patch
  PROVE  /\ stampRevision(Patched(v, p)) \in OverrideType
         /\ stampRevision(Patched(v, p)).rid = v.rid
         /\ stampRevision(Patched(v, p)).range = v.range
         /\ stampRevision(Patched(v, p)).seq = v.seq + 1
         /\ Shown(v.rid, stampRevision(Patched(v, p))) = Patched(Shown(v.rid, v), p)
<1> DEFINE title == IF p.title = None THEN v.title ELSE p.title
           start == IF p.move = None THEN v.start ELSE v.start + p.move
           len == IF p.len = None THEN v.len ELSE p.len
           w == [rid |-> v.rid, range |-> v.range, start |-> start, len |-> len, title |-> title, seq |-> v.seq]
<1>1. p.title \in {None, Ours} /\ p.move \in Moves \cup {None} /\ p.len \in Lengths \cup {None}
  BY DEF Patch
<1>2. title \in Titles
  BY <1>1 DEF Titles, OverrideType
<1>3. start \in Int
  <2>1. v.start \in Int
    BY DEF OverrideType
  <2>2. p.move # None => p.move \in Int
    BY <1>1, SeriesAssumption
  <2> QED
    BY <2>1, <2>2
<1>4. len \in Nat
  <2>1. v.len \in Nat
    BY DEF OverrideType
  <2>2. p.len # None => p.len \in Nat
    BY <1>1, SeriesAssumption
  <2> QED
    BY <2>1, <2>2
<1>5. Patched(v, p) = Retold(v, title, start, len)
  BY DEF Patched, Retold
<1>6. Patched(Shown(v.rid, v), p) = Retold(Shown(v.rid, v), title, start, len)
  <2>1. /\ Shown(v.rid, v).title = v.title /\ Shown(v.rid, v).start = v.start
        /\ Shown(v.rid, v).len = v.len
    BY DEF Shown
  <2> QED
    BY <2>1 DEF Patched, Retold
<1>7. v.rid \in Int /\ v.range \in BOOLEAN /\ v.seq \in Nat
  BY DEF OverrideType
<1> HIDE DEF start, len, title
<1>8. Patched(v, p) = w /\ Patched(Shown(v.rid, v), p) = [rid |-> v.rid, start |-> start, len |-> len, title |-> title]
  BY <1>5, <1>6, RetoldIs
<1>9. stampRevision(w) = [rid |-> v.rid, range |-> v.range, start |-> start, len |-> len, title |-> title, seq |-> v.seq + 1]
  BY DEF stampRevision
<1>10. stampRevision(w) \in OverrideType
  BY <1>2, <1>3, <1>4, <1>7, <1>9 DEF OverrideType
<1> QED
  BY <1>8, <1>9, <1>10 DEF Shown

\* Only the override of t that speaks for it is written: it speaks for it still,
\* and nothing else is listed otherwise.
LEMMA PutOnly ==
  ASSUME NEW o, Whole(o), NEW t, NEW i, Speaks(o, t, i), PlainAt(o, t),
         NEW v \in OverrideType, v.rid = t, ~v.range, v.seq >= o.overrides[i].seq
  PROVE  /\ Whole(Replaced(o, i, v)) /\ Named(Replaced(o, i, v)) = Named(o)
         /\ Occurrence(Replaced(o, i, v), t) = Shown(t, v)
         /\ \A s \in Named(o) : s # t => Occurrence(Replaced(o, i, v), s) = Occurrence(o, s)
<1> DEFINE u == o.overrides[i]
           w == Replaced(o, i, v)
<1>1. i \in Overrides(o) /\ i \in Revisions(o, t) /\ u.rid = t
  BY DEF Speaks, Current, Revisions
<1>2. u \in OverrideType /\ ~u.range
  BY <1>1, TypedOverride DEF Whole, PlainAt
<1>5. /\ Typed(w) /\ w.master = o.master /\ Overrides(w) = Overrides(o)
      /\ \A j \in Overrides(o) : w.overrides[j] = IF j = i THEN v ELSE o.overrides[j]
  BY <1>1, PutIs DEF Whole
<1> HIDE DEF w
<1>6. \A j \in Overrides(o) : w.overrides[j].rid = o.overrides[j].rid /\ w.overrides[j].range = o.overrides[j].range
  BY <1>1, <1>2, <1>5, TypedOverride DEF Whole, OverrideType
<1>7. Starts(w) = Starts(o) /\ OverriddenTimes(w) = OverriddenTimes(o) /\ Named(w) = Named(o)
  BY <1>5, <1>6 DEF Starts, OverriddenTimes, Named
<1>8. RangesAlike(o, w)
  BY <1>2, <1>5, <1>6 DEF RangesAlike, modifiesFuture
<1>9. Whole(w)
  BY <1>5, <1>6, <1>7, <1>8 DEF Whole, RangesBegin, Dated, RangesAlike, modifiesFuture
<1>10. \A s : Revisions(w, s) = Revisions(o, s)
  BY <1>5, <1>6 DEF Revisions
<1>11. Speaks(w, t, i)
  <2> SUFFICES ASSUME NEW j \in Revisions(o, t)
               PROVE  \/ w.overrides[j].seq < v.seq
                      \/ w.overrides[j].seq = v.seq /\ j <= i
    BY <1>1, <1>5, <1>10 DEF Speaks, Current
  <2>1. /\ j \in Overrides(o) /\ j \in Nat /\ i \in Nat
        /\ o.overrides[j].seq \in Nat /\ u.seq \in Nat /\ v.seq \in Nat
    BY <1>1, <1>2, TypedOverride DEF Revisions, Whole, OverrideType
  <2>2. \/ o.overrides[j].seq < u.seq
        \/ o.overrides[j].seq = u.seq /\ j <= i
    BY <1>1, <2>1 DEF Speaks, Current
  <2> QED
    BY <1>5, <2>1, <2>2
<1>12. Occurrence(w, t) = Shown(t, v)
  BY <1>1, <1>5, <1>11, SpokenFor
<1>13. ASSUME NEW s \in Named(o), s # t
       PROVE  Occurrence(w, s) = Occurrence(o, s)
  <2>1. Alike(o, w, s)
    BY <1>1, <1>5, <1>10, <1>13 DEF Alike, Revisions
  <2>2. s \in Int
    BY TypedStarts DEF Whole
  <2>3. FromMaster(o, s) => MasterAlike(o.master, w.master)
    BY <1>5, FromMasterIs DEF Whole, MasterAlike
  <2> QED
    BY <1>5, <1>8, <1>9, <2>1, <2>2, <2>3, Undisturbed DEF Whole
<1> QED
  BY <1>7, <1>9, <1>12, <1>13 DEF w

-----------------------------------------------------------------------------
(* Taking an occurrence out *)

LEMMA ExcludedIs ==
  ASSUME NEW m \in MasterType, m # None, NEW t \in Int
  PROVE  /\ MasterAlike(m, Excluded(m, t))
         /\ Excluded(m, t).rule = m.rule
         /\ Walk(Excluded(m, t)) = Walk(m) \ {t}
<1> DEFINE x == [m EXCEPT !.exdate = @ \cup {t}]
           e == Excluded(m, t)
<1>1. e = [x EXCEPT !.seq = @ + 1]
  BY DEF Excluded, stampRevision
<1>2. /\ x \in MasterType /\ x.start = m.start /\ x.len = m.len /\ x.title = m.title
      /\ x.rule = m.rule /\ x.rdate = m.rdate /\ x.exdate = m.exdate \cup {t}
  BY DEF MasterType
<1> HIDE DEF x, e
<1>3. /\ e \in MasterType /\ e.start = m.start /\ e.len = m.len /\ e.title = m.title
      /\ e.rule = m.rule /\ e.rdate = m.rdate /\ e.exdate = m.exdate \cup {t}
  BY <1>1, <1>2 DEF MasterType
<1>4. RuleTimes(e) = RuleTimes(m)
  BY <1>3 DEF RuleTimes
<1>5. Walk(e) = Walk(m) \ {t}
  BY <1>3, <1>4 DEF Walk
<1> QED
  BY <1>3, <1>5 DEF MasterAlike, e

LEMMA WithoutOnly ==
  ASSUME NEW o, Whole(o), NEW t \in Int, PlainAt(o, t)
  PROVE  /\ Whole(Without(o, t)) /\ Named(Without(o, t)) = Named(o) \ {t}
         /\ \A s \in Named(Without(o, t)) : Occurrence(Without(o, t), s) = Occurrence(o, s)
<1> DEFINE w == Without(o, t)
           K == Overrides(o) \ Revisions(o, t)
           f == [i \in K |-> o.overrides[i]]
<1>1. w = [master |-> Excluded(o.master, t), overrides |-> f] /\ DOMAIN f = K
  BY DEF Without
<1>2. /\ w.master = Excluded(o.master, t) /\ w.overrides = f /\ Overrides(w) = K
      /\ \A i \in K : w.overrides[i] = o.overrides[i]
  BY <1>1 DEF Overrides
<1>3. K \subseteq Overrides(o) /\ \A i \in K : o.overrides[i].rid # t
  BY DEF Revisions
<1>4. f \in [K -> OverrideType]
  BY <1>3, TypedOverride DEF Whole
<1> HIDE DEF w, f, K
<1>5. o.master # None => MasterAlike(o.master, w.master) /\ w.master.rule = o.master.rule /\ w.master \in MasterType
  BY <1>2, ExcludedIs, TypedMaster DEF Whole, MasterAlike
<1>6. Starts(w) = Starts(o) \ {t} /\ w.master \in MasterType \cup {None} /\ (o.master = None <=> w.master = None)
  <2>1. CASE o.master = None
    BY <1>2, <2>1 DEF Starts, Excluded
  <2>2. CASE o.master # None
    <3>1. w.master # None
      BY <1>5, <2>2, MasterAssumption
    <3> QED
      BY <1>2, <1>5, <2>2, <3>1, ExcludedIs, TypedMaster DEF Whole, Starts
  <2> QED
    BY <2>1, <2>2
<1>7. PICK n \in Nat : Within(o, n)
  BY DEF Whole, Typed
<1>8. Within(w, n)
  BY <1>2, <1>3, <1>7 DEF Within
<1>9. Typed(w)
  BY <1>1, <1>2, <1>3, <1>4, <1>6, <1>8 DEF Typed, Whole
<1>10. \A i \in Overrides(o) : i \in K <=> o.overrides[i].rid # t
  BY DEF K, Revisions
<1>11. modifiesFuture(w) = modifiesFuture(o) /\ RangesAlike(o, w)
  <2>1. \A i \in modifiesFuture(o) : i \in K
    BY <1>10 DEF modifiesFuture, PlainAt, Revisions
  <2> QED
    BY <1>2, <1>3, <2>1 DEF modifiesFuture, RangesAlike
<1>12. RangesBegin(w)
  BY <1>2, <1>3, <1>6, <1>10, <1>11 DEF RangesBegin, Whole, modifiesFuture, RangesAlike
<1>13. Whole(w)
  BY <1>5, <1>6, <1>9, <1>12 DEF Whole, Dated
<1>14. Named(w) = Named(o) \ {t}
  BY <1>2, <1>3, <1>6, <1>10 DEF Named, OverriddenTimes
<1>15. ASSUME NEW s \in Named(w)
       PROVE  Occurrence(w, s) = Occurrence(o, s)
  <2>1. s # t /\ s \in Int /\ s \in Named(o)
    BY <1>14, TypedStarts DEF Whole
  <2>2. Alike(o, w, s)
    BY <1>2, <1>3, <1>10, <2>1 DEF Alike, Revisions
  <2>3. FromMaster(o, s) => MasterAlike(o.master, w.master)
    BY <1>5, <2>1, FromMasterIs DEF Whole, Starts
  <2> QED
    BY <1>11, <1>13, <2>1, <2>2, <2>3, Undisturbed DEF Whole
<1> QED
  BY <1>13, <1>14, <1>15 DEF w

-----------------------------------------------------------------------------
(* Adding an override *)

\* An override that may be added: one that reaches further begins at an
\* occurrence that has none, and no other is a revision of such a one.
Fits(o, v) ==
  /\ v \in OverrideType
  /\ v.range => v.rid \in Starts(o) /\ ~Overridden(o, v.rid)
  /\ PlainAt(o, v.rid)

LEMMA AddedWhole ==
  ASSUME NEW o, Whole(o), NEW v, Fits(o, v)
  PROVE  Whole(Added(o, v)) /\ Starts(Added(o, v)) = Starts(o)
<1> DEFINE w == Added(o, v)
           b == Behind(o)
<1>1. /\ Typed(w) /\ w.master = o.master /\ Overrides(w) = Overrides(o) \cup {b} /\ b \notin Overrides(o)
      /\ w.overrides[b] = v /\ \A j \in Overrides(o) : w.overrides[j] = o.overrides[j]
  BY AddedIs DEF Whole, Fits
<1> HIDE DEF w, b
<1>2. Starts(w) = Starts(o) /\ Dated(w)
  BY <1>1 DEF Starts, Dated, Whole
<1>3. ASSUME NEW i \in modifiesFuture(w)
      PROVE  /\ w.overrides[i].rid \in Starts(w)
             /\ \A j \in Overrides(w) : w.overrides[j].rid = w.overrides[i].rid => j = i
  <2>1. CASE i = b
    <3>1. v.range /\ v.rid \in Starts(o) /\ \A j \in Overrides(o) : o.overrides[j].rid # v.rid
      BY <1>1, <2>1 DEF modifiesFuture, Fits, Overridden, Revisions
    <3> QED
      BY <1>1, <1>2, <2>1, <3>1
  <2>2. CASE i # b
    <3>1. i \in modifiesFuture(o)
      BY <1>1, <2>2 DEF modifiesFuture
    <3>2. v.rid # o.overrides[i].rid
      BY <3>1 DEF Fits, PlainAt, Revisions, modifiesFuture
    <3> QED
      BY <1>1, <1>2, <2>2, <3>1, <3>2 DEF Whole, RangesBegin, modifiesFuture
  <2> QED
    BY <2>1, <2>2
<1> QED
  BY <1>1, <1>2, <1>3 DEF Whole, RangesBegin, w

\* An override like the occurrence it is of, where there was none.
LEMMA AddedOnly ==
  ASSUME NEW o, Whole(o), NEW t \in Starts(o), ~Overridden(o, t),
         NEW v \in OverrideType, v.rid = t, ~v.range, Shown(t, v) = Occurrence(o, t)
  PROVE  /\ Whole(Added(o, v)) /\ Named(Added(o, v)) = Named(o)
         /\ Overridden(Added(o, v), t) /\ PlainAt(Added(o, v), t)
         /\ \A s \in Named(o) : Occurrence(Added(o, v), s) = Occurrence(o, s)
<1> DEFINE w == Added(o, v)
           b == Behind(o)
<1>1. Fits(o, v)
  BY DEF Fits, PlainAt, Overridden
<1>2. Whole(w) /\ Starts(w) = Starts(o)
  BY <1>1, AddedWhole
<1>3. /\ Typed(w) /\ w.master = o.master /\ Overrides(w) = Overrides(o) \cup {b} /\ b \notin Overrides(o)
      /\ w.overrides[b] = v /\ \A j \in Overrides(o) : w.overrides[j] = o.overrides[j]
  BY AddedIs DEF Whole
<1> HIDE DEF w, b
<1>4. Named(w) = Named(o)
  BY <1>2, <1>3 DEF Named, OverriddenTimes
<1>5. Revisions(w, t) = {b}
  BY <1>3 DEF Revisions, Overridden
<1>6. Overridden(w, t) /\ PlainAt(w, t)
  BY <1>3, <1>5 DEF Overridden, PlainAt
<1>7. Speaks(w, t, b)
  BY <1>3, <1>5, OneRevision
<1>8. RangesAlike(o, w)
  BY <1>3 DEF RangesAlike, modifiesFuture
<1>9. ASSUME NEW s \in Named(o)
      PROVE  Occurrence(w, s) = Occurrence(o, s)
  <2>1. CASE s = t
    BY <1>3, <1>7, <2>1, SpokenFor
  <2>2. CASE s # t
    <3>1. s \in Int
      BY TypedStarts DEF Whole
    <3>2. Alike(o, w, s)
      BY <1>3, <2>2 DEF Alike, Revisions
    <3>3. FromMaster(o, s) => MasterAlike(o.master, w.master)
      BY <1>3, FromMasterIs DEF Whole, MasterAlike
    <3> QED
      BY <1>2, <1>8, <3>1, <3>2, <3>3, Undisturbed DEF Whole
  <2> QED
    BY <2>1, <2>2
<1> QED
  BY <1>2, <1>4, <1>6, <1>9 DEF w

-----------------------------------------------------------------------------
(* Taking an occurrence out of the override that begins at it *)

\* An occurrence that has no override is one the rule names.
LEMMA NamedByTheRule ==
  ASSUME NEW o, NEW s \in Named(o), ~Overridden(o, s)
  PROVE  s \in Starts(o)
BY DEF Named, OverriddenTimes, Overridden, Revisions

LEMMA SameReach ==
  ASSUME NEW o, NEW w, Typed(o), Typed(w), RangesBegin(o), RangesBegin(w),
         w.master = o.master, NEW s \in Named(o), ~Overridden(o, s), ~Overridden(w, s),
         Governed(w, s) => Governed(o, s),
         \A g : Governs(o, s, g) =>
           /\ Governs(w, s, g)
           /\ Shown(s, rangeShifted(w.overrides[g], s)) = Shown(s, rangeShifted(o.overrides[g], s))
  PROVE  Occurrence(w, s) = Occurrence(o, s)
<1>1. s \in Int
  BY TypedStarts
<1>2. CASE Governed(o, s)
  <2> DEFINE g == governingRange(o, s)
  <2>1. Governs(o, s, g)
    BY <1>1, <1>2, SomeGoverns
  <2> HIDE DEF g
  <2>2. Governs(w, s, g)
    BY <2>1
  <2>3. Occurrence(o, s) = Shown(s, rangeShifted(o.overrides[g], s))
    BY <1>1, <2>1, Reached
  <2>4. Occurrence(w, s) = Shown(s, rangeShifted(w.overrides[g], s))
    BY <1>1, <2>2, Reached
  <2> QED
    BY <2>1, <2>3, <2>4
<1>3. CASE ~Governed(o, s)
  BY <1>3, OfTheMaster DEF FromMaster
<1> QED
  BY <1>2, <1>3

\* The same override, for its own occurrence alone.
PlainOf(u, v) ==
  /\ v \in OverrideType /\ v.rid = u.rid /\ ~v.range
  /\ v.start = u.start /\ v.len = u.len /\ v.title = u.title

LEMMA PlainOfIs ==
  ASSUME NEW u \in OverrideType
  PROVE  PlainOf(u, [u EXCEPT !.range = FALSE])
BY DEF PlainOf, OverrideType

\* Its last occurrence: the override reaches no further.
LEMMA PlainOnly ==
  ASSUME NEW o, Whole(o), NEW i \in modifiesFuture(o),
         NEW t, t = o.overrides[i].rid, Following(o, t) = {}, NEW v, PlainOf(o.overrides[i], v)
  PROVE  /\ Whole(Replaced(o, i, v)) /\ Named(Replaced(o, i, v)) = Named(o)
         /\ Overridden(Replaced(o, i, v), t) /\ PlainAt(Replaced(o, i, v), t)
         /\ \A s \in Named(o) : Occurrence(Replaced(o, i, v), s) = Occurrence(o, s)
<1> DEFINE u == o.overrides[i]
           w == Replaced(o, i, v)
<1>1. i \in Overrides(o) /\ u \in OverrideType /\ u.range
  BY TypedOverride DEF modifiesFuture, Whole
<1>2. /\ v \in OverrideType /\ v.rid = t /\ ~v.range
      /\ v.start = u.start /\ v.len = u.len /\ v.title = u.title
  BY DEF PlainOf
<1>3. /\ Typed(w) /\ w.master = o.master /\ Overrides(w) = Overrides(o)
      /\ \A j \in Overrides(o) : w.overrides[j] = IF j = i THEN v ELSE o.overrides[j]
  BY <1>1, <1>2, PutIs DEF Whole
<1> HIDE DEF w
<1>4. \A j \in Overrides(o) : w.overrides[j].rid = o.overrides[j].rid
  BY <1>2, <1>3
<1>5. Starts(w) = Starts(o) /\ Named(w) = Named(o)
  BY <1>3, <1>4 DEF Starts, OverriddenTimes, Named
<1>6. modifiesFuture(w) = modifiesFuture(o) \ {i}
  BY <1>1, <1>2, <1>3 DEF modifiesFuture
<1>7. RangesBegin(w) /\ Dated(w)
  BY <1>3, <1>4, <1>5, <1>6 DEF Whole, RangesBegin, Dated, modifiesFuture
<1>8. \A s : Revisions(w, s) = Revisions(o, s)
  BY <1>3, <1>4 DEF Revisions
<1>9. Revisions(o, t) = {i}
  BY <1>1 DEF Revisions, Whole, RangesBegin
<1>10. Overridden(w, t) /\ PlainAt(w, t)
  BY <1>1, <1>2, <1>3, <1>8, <1>9 DEF Overridden, PlainAt
<1>11. ASSUME NEW s \in Named(o)
       PROVE  Occurrence(w, s) = Occurrence(o, s)
  <2>1. CASE s = t
    <3>1. Speaks(o, t, i) /\ Speaks(w, t, i)
      BY <1>3, <1>8, <1>9, OneRevision DEF Whole
    <3>2. Occurrence(o, t) = Shown(t, u) /\ Occurrence(w, t) = Shown(t, v)
      BY <1>1, <1>3, <3>1, SpokenFor DEF Whole
    <3> QED
      BY <1>2, <2>1, <3>2 DEF Shown
  <2>2. CASE s # t /\ Overridden(o, s)
    <3>1. Alike(o, w, s)
      BY <1>3, <1>8, <1>9, <2>2 DEF Alike, Revisions
    <3> QED
      BY <1>3, <2>2, <3>1, SameRevisions DEF Whole
  <2>3. CASE ~Overridden(o, s)
    <3>1. s \in Starts(o) /\ s \in Int /\ t \in Int /\ ~Overridden(w, s) /\ s # t
      BY <1>1, <1>8, <1>9, <2>3, NamedByTheRule, TypedStarts DEF Whole, Overridden, OverrideType
    <3>2. s < t
      BY <3>1 DEF Following
    <3>3. \A j \in modifiesFuture(o) : o.overrides[j].rid <= s => j # i
      BY <3>1, <3>2
    <3>4. Governed(w, s) => Governed(o, s)
      BY <1>4, <1>6 DEF Governed, modifiesFuture
    <3>5. ASSUME NEW g, Governs(o, s, g)
          PROVE  Governs(w, s, g) /\ w.overrides[g] = o.overrides[g]
      <4>1. g \in modifiesFuture(w)
        BY <1>6, <3>3, <3>5 DEF Governs
      <4> QED
        BY <1>3, <1>4, <1>6, <3>5, <4>1 DEF Governs, modifiesFuture
    <3> QED
      BY <1>3, <1>7, <2>3, <3>1, <3>4, <3>5, SameReach DEF Whole
  <2> QED
    BY <2>1, <2>2, <2>3
<1> QED
  BY <1>3, <1>5, <1>7, <1>10, <1>11 DEF Whole, w

\* The same override, for the occurrence n and those after it.
MovedOn(u, v, n) ==
  /\ v \in OverrideType /\ v.rid = n /\ v.range
  /\ v.start = n + (u.start - u.rid) /\ v.len = u.len /\ v.title = u.title

LEMMA MovedOnIs ==
  ASSUME NEW u \in OverrideType, u.range, NEW n \in Int
  PROVE  MovedOn(u, stampRevision([rangeShifted(u, n) EXCEPT !.rid = n]), n)
<1> DEFINE a == rangeShifted(u, n)
           b == [a EXCEPT !.rid = n]
           c == stampRevision(b)
<1>1. /\ a \in OverrideType /\ a.range /\ a.start = n + (u.start - u.rid) /\ a.len = u.len
      /\ a.title = u.title
  BY DEF OverrideType, rangeShifted
<1> HIDE DEF a
<1>2. /\ b \in OverrideType /\ b.rid = n /\ b.range /\ b.start = n + (u.start - u.rid) /\ b.len = u.len
      /\ b.title = u.title
  BY <1>1 DEF OverrideType
<1> HIDE DEF b
<1>3. MovedOn(u, c, n)
  BY <1>2 DEF OverrideType, stampRevision, MovedOn
<1> QED
  BY <1>3 DEF a, b

LEMMA MovedOnOnly ==
  ASSUME NEW o, Whole(o), NEW i \in modifiesFuture(o), NEW t, t = o.overrides[i].rid,
         NEW n \in Starts(o), n > t, ~Overridden(o, n), \A s \in Starts(o) : s > t => s >= n,
         NEW v, MovedOn(o.overrides[i], v, n), NEW p, PlainOf(o.overrides[i], p)
  PROVE  /\ Whole(Added(Replaced(o, i, v), p)) /\ Named(Added(Replaced(o, i, v), p)) = Named(o)
         /\ Overridden(Added(Replaced(o, i, v), p), t) /\ PlainAt(Added(Replaced(o, i, v), p), t)
         /\ \A s \in Named(o) : Occurrence(Added(Replaced(o, i, v), p), s) = Occurrence(o, s)
<1> DEFINE u == o.overrides[i]
           x == Replaced(o, i, v)
           w == Added(x, p)
           b == Behind(x)
<1>1. i \in Overrides(o) /\ u \in OverrideType /\ u.range
  BY TypedOverride DEF modifiesFuture, Whole
<1>2. /\ v \in OverrideType /\ v.rid = n /\ v.range
      /\ v.start = n + (u.start - t) /\ v.len = u.len /\ v.title = u.title
  BY DEF MovedOn
<1>3. /\ p \in OverrideType /\ p.rid = t /\ ~p.range
      /\ p.start = u.start /\ p.len = u.len /\ p.title = u.title
  BY DEF PlainOf
<1>4. /\ Typed(x) /\ x.master = o.master /\ Overrides(x) = Overrides(o)
      /\ \A j \in Overrides(o) : x.overrides[j] = IF j = i THEN v ELSE o.overrides[j]
  BY <1>1, <1>2, PutIs DEF Whole
<1> HIDE DEF x
<1>5. /\ Typed(w) /\ w.master = x.master /\ Overrides(w) = Overrides(x) \cup {b} /\ b \notin Overrides(x)
      /\ w.overrides[b] = p /\ \A j \in Overrides(x) : w.overrides[j] = x.overrides[j]
  BY <1>3, <1>4, AddedIs
<1> HIDE DEF w, b
<1>6. /\ w.master = o.master /\ Overrides(w) = Overrides(o) \cup {b} /\ b \notin Overrides(o)
      /\ w.overrides[b] = p /\ w.overrides[i] = v
      /\ \A j \in Overrides(o) : j # i => w.overrides[j] = o.overrides[j]
  BY <1>1, <1>4, <1>5
<1>7. t \in Int /\ n \in Int /\ Starts(o) \subseteq Int /\ t \in Starts(o)
  BY <1>1, TypedStarts DEF Whole, OverrideType, RangesBegin
<1>8. \A j \in Overrides(o) : j # i => o.overrides[j].rid # t
  BY <1>1 DEF Whole, RangesBegin
<1>9. \A j \in Overrides(o) : o.overrides[j].rid # n
  BY DEF Overridden, Revisions
<1>10. Starts(w) = Starts(o) /\ Dated(w)
  BY <1>6 DEF Starts, Dated, Whole
<1>11. modifiesFuture(w) = modifiesFuture(o)
  BY <1>1, <1>2, <1>3, <1>6 DEF modifiesFuture
<1>12. RangesBegin(w)
  <2>1. ASSUME NEW j \in modifiesFuture(w)
        PROVE  /\ w.overrides[j].rid \in Starts(w)
               /\ \A k \in Overrides(w) : w.overrides[k].rid = w.overrides[j].rid => k = j
    <3>1. j \in modifiesFuture(o) /\ j \in Overrides(o)
      BY <1>11, <2>1 DEF modifiesFuture
    <3>2. CASE j = i
      BY <1>2, <1>3, <1>6, <1>7, <1>9, <1>10, <3>2
    <3>3. CASE j # i
      <4>1. o.overrides[j].rid \in Starts(o) /\ \A k \in Overrides(o) : o.overrides[k].rid = o.overrides[j].rid => k = j
        BY <3>1 DEF Whole, RangesBegin
      <4> QED
        BY <1>2, <1>3, <1>6, <1>8, <1>9, <1>10, <3>1, <3>3, <4>1
    <3> QED
      BY <3>2, <3>3
  <2> QED
    BY <2>1 DEF RangesBegin
<1>13. Whole(w)
  BY <1>5, <1>10, <1>12 DEF Whole
<1>14. \A s : s # t /\ s # n => Revisions(w, s) = Revisions(o, s) /\ i \notin Revisions(o, s)
  BY <1>1, <1>2, <1>3, <1>6 DEF Revisions
<1>15. Revisions(w, t) = {b} /\ Revisions(w, n) = {i} /\ Revisions(o, t) = {i}
  BY <1>1, <1>2, <1>3, <1>6, <1>7, <1>8, <1>9 DEF Revisions
<1>16. Overridden(w, t) /\ PlainAt(w, t)
  BY <1>3, <1>6, <1>15 DEF Overridden, PlainAt
<1>17. Named(w) = Named(o)
  <2>1. OverriddenTimes(w) = OverriddenTimes(o) \cup {n}
    BY <1>1, <1>2, <1>3, <1>6 DEF OverriddenTimes
  <2> QED
    BY <1>10, <2>1 DEF Named
<1>18. Speaks(w, t, b) /\ Speaks(w, n, i) /\ Speaks(o, t, i)
  BY <1>5, <1>15, OneRevision DEF Whole
<1>19. Occurrence(w, t) = Occurrence(o, t)
  <2>1. Occurrence(w, t) = Shown(t, p) /\ Occurrence(o, t) = Shown(t, u)
    BY <1>5, <1>6, <1>18, SpokenFor DEF Whole
  <2> QED
    BY <1>3, <2>1 DEF Shown
<1>20. Occurrence(w, n) = Occurrence(o, n)
  <2>1. Occurrence(w, n) = Shown(n, v)
    BY <1>5, <1>6, <1>18, SpokenFor
  <2>2. ASSUME NEW j \in modifiesFuture(o), o.overrides[j].rid <= n
        PROVE  o.overrides[j].rid <= t
    <3>1. o.overrides[j].rid \in Starts(o) /\ o.overrides[j].rid # n
      BY <1>9 DEF Whole, RangesBegin, modifiesFuture
    <3> QED
      BY <1>7, <2>2, <3>1
  <2>3. Governs(o, n, i)
    BY <1>7, <2>2 DEF Governs
  <2>4. Occurrence(o, n) = Shown(n, rangeShifted(u, n))
    BY <1>7, <2>3, Reached DEF Whole
  <2> QED
    BY <1>1, <1>2, <2>1, <2>4 DEF Shown, rangeShifted, OverrideType
<1>21. ASSUME NEW s \in Named(o), s # t, s # n
       PROVE  Occurrence(w, s) = Occurrence(o, s)
  <2>1. CASE Overridden(o, s)
    <3>1. Alike(o, w, s)
      BY <1>6, <1>14, <1>21 DEF Alike, Revisions
    <3> QED
      BY <1>5, <2>1, <3>1, SameRevisions DEF Whole
  <2>2. CASE ~Overridden(o, s)
    <3>1. s \in Starts(o) /\ s \in Int /\ ~Overridden(w, s)
      BY <1>7, <1>14, <1>21, <2>2, NamedByTheRule DEF Overridden
    <3>2. s < t \/ s > n
      BY <1>7, <1>21, <3>1
    <3>3. ASSUME NEW j \in modifiesFuture(o)
          PROVE  /\ j \in Overrides(o) /\ o.overrides[j].rid \in Int /\ w.overrides[j].rid \in Int
                 /\ j = i => o.overrides[j].rid = t /\ w.overrides[j].rid = n
                 /\ j # i => /\ w.overrides[j] = o.overrides[j]
                             /\ o.overrides[j].rid < t \/ o.overrides[j].rid > n
      <4>1. j \in Overrides(o) /\ o.overrides[j].rid \in Starts(o)
        BY DEF Whole, RangesBegin, modifiesFuture
      <4> QED
        BY <1>2, <1>6, <1>7, <1>8, <1>9, <4>1
    <3>4. Governed(w, s) => Governed(o, s)
      BY <1>7, <1>11, <3>1, <3>3 DEF Governed
    <3>5. ASSUME NEW g, Governs(o, s, g)
          PROVE  /\ Governs(w, s, g)
                 /\ Shown(s, rangeShifted(w.overrides[g], s)) = Shown(s, rangeShifted(o.overrides[g], s))
      <4>1. g \in modifiesFuture(o) /\ o.overrides[g].rid <= s
        BY <3>5 DEF Governs
      <4>2. CASE s < t
        <5>1. g # i
          BY <1>7, <3>1, <3>3, <4>1, <4>2
        <5>2. \A j \in modifiesFuture(o) : w.overrides[j].rid <= s => j # i /\ w.overrides[j] = o.overrides[j]
          BY <1>7, <3>1, <3>3, <4>2
        <5> QED
          BY <1>11, <3>3, <3>5, <4>1, <5>1, <5>2 DEF Governs
      <4>3. CASE s > n
        <5>1. t <= o.overrides[g].rid
          BY <1>7, <3>1, <3>5, <4>3 DEF Governs
        <5>2. w.overrides[g].rid <= s /\ w.overrides[g].rid >= n
          BY <1>7, <3>1, <3>3, <4>1, <4>3, <5>1
        <5>3. ASSUME NEW j \in modifiesFuture(o), w.overrides[j].rid <= s
              PROVE  w.overrides[j].rid <= w.overrides[g].rid
          <6>1. CASE j = i
            BY <3>3, <5>2, <6>1
          <6>2. CASE j # i
            <7>1. o.overrides[j].rid <= o.overrides[g].rid
              BY <3>3, <3>5, <5>3, <6>2 DEF Governs
            <7> QED
              BY <1>7, <3>3, <4>1, <5>2, <6>2, <7>1
          <6> QED
            BY <6>1, <6>2
        <5>4. Governs(w, s, g)
          BY <1>11, <4>1, <5>2, <5>3 DEF Governs
        <5>5. CASE g = i
          <6>1. s + (v.start - v.rid) = s + (u.start - u.rid)
            BY <1>1, <1>2, <1>7, <3>1 DEF OverrideType
          <6> QED
            BY <1>1, <1>2, <1>6, <5>4, <5>5, <6>1 DEF Shown, rangeShifted, OverrideType
        <5>6. CASE g # i
          BY <3>3, <4>1, <5>4, <5>6
        <5> QED
          BY <5>5, <5>6
      <4> QED
        BY <3>2, <4>2, <4>3
    <3> QED
      BY <1>5, <1>6, <1>12, <2>2, <3>1, <3>4, <3>5, SameReach DEF Whole
  <2> QED
    BY <2>1, <2>2
<1> QED
  BY <1>13, <1>16, <1>17, <1>19, <1>20, <1>21 DEF w, x

-----------------------------------------------------------------------------
(* One occurrence is written *)

\* What is listed stays, and t has an override for itself alone.
Prepared(o, w, t) ==
  /\ Whole(w) /\ Named(w) = Named(o)
  /\ Overridden(w, t) /\ PlainAt(w, t)
  /\ \A s \in Named(o) : Occurrence(w, s) = Occurrence(o, s)

LEMMA DetachIs ==
  ASSUME NEW o, Whole(o), NEW t, BeginsRange(o, t), Detachable(o, t)
  PROVE  Prepared(o, detachRangeAnchor(o, t), t)
<1> DEFINE i == currentOf(o, t)
           u == o.overrides[i]
           p == [u EXCEPT !.range = FALSE]
           n == MinOf(Following(o, t))
           v == stampRevision([rangeShifted(u, n) EXCEPT !.rid = n])
<1>1. Speaks(o, t, i) /\ i \in modifiesFuture(o) /\ i \in Overrides(o) /\ u.rid = t
  BY SomeSpeaks DEF BeginsRange, Whole, Speaks, Current, modifiesFuture
<1>2. u \in OverrideType /\ u.range
  BY <1>1, TypedOverride DEF Whole, modifiesFuture
<1>3. PlainOf(u, p)
  BY <1>2, PlainOfIs
<1>4. t \in Int /\ Starts(o) \subseteq Int
  BY <1>1, <1>2, TypedStarts DEF Whole, OverrideType
<1>5. detachRangeAnchor(o, t) = IF next(o, t) = "none" THEN Replaced(o, i, p) ELSE Added(Replaced(o, i, v), p)
  BY DEF detachRangeAnchor, Replaced
<1> HIDE DEF i, p, n, v
<1>6. CASE Following(o, t) = {}
  <2>1. next(o, t) = "none"
    BY <1>6 DEF Detachable, next
  <2> QED
    BY <1>1, <1>3, <1>5, <1>6, <2>1, PlainOnly DEF Prepared
<1>7. CASE Following(o, t) # {}
  <2>1. AtLeast(Following(o, t), t)
    BY <1>4, <1>7 DEF AtLeast, Following
  <2>2. n \in Following(o, t) /\ \A s \in Following(o, t) : n <= s
    BY <2>1, LeastIs DEF n
  <2>3. next(o, t) # "none" /\ ~Overridden(o, n)
    BY <1>7 DEF Detachable, next, n
  <2>4. n \in Starts(o) /\ n > t /\ n \in Int /\ \A s \in Starts(o) : s > t => s >= n
    BY <1>4, <2>2 DEF Following
  <2>5. MovedOn(u, v, n)
    BY <1>2, <2>4, MovedOnIs DEF v
  <2> QED
    BY <1>1, <1>3, <1>5, <2>3, <2>4, <2>5, MovedOnOnly DEF Prepared
<1> QED
  BY <1>6, <1>7

LEMMA FromMasterLike ==
  ASSUME NEW o, NEW t \in Int, o.master \in MasterType
  PROVE  /\ overrideFrom(o, t) \in OverrideType /\ overrideFrom(o, t).rid = t /\ ~overrideFrom(o, t).range
         /\ Shown(t, overrideFrom(o, t)) = Shown(t, [o.master EXCEPT !.start = t])
BY DEF overrideFrom, MasterType, OverrideType, Shown

OfOne(u, t) == [rangeShifted(u, t) EXCEPT !.rid = t, !.range = FALSE]

LEMMA FromRangeLike ==
  ASSUME NEW u \in OverrideType, NEW t \in Int
  PROVE  /\ OfOne(u, t) \in OverrideType /\ OfOne(u, t).rid = t /\ ~OfOne(u, t).range
         /\ Shown(t, OfOne(u, t)) = Shown(t, rangeShifted(u, t))
<1> DEFINE v == OfOne(u, t)
           a == rangeShifted(u, t)
           b == [a EXCEPT !.rid = t]
<1>1. a \in OverrideType
  BY DEF OverrideType, rangeShifted
<1>2. v = [b EXCEPT !.range = FALSE]
  BY DEF OfOne
<1> HIDE DEF a, v
<1>3. b \in OverrideType /\ b.rid = t /\ b.start = a.start /\ b.len = a.len /\ b.title = a.title
  BY <1>1 DEF OverrideType
<1> HIDE DEF b
<1>4. v \in OverrideType /\ v.rid = t /\ ~v.range /\ v.start = b.start /\ v.len = b.len /\ v.title = b.title
  BY <1>2, <1>3 DEF OverrideType
<1> QED
  BY <1>3, <1>4 DEF Shown, a, v

LEMMA WithOverrideIs ==
  ASSUME NEW o, Whole(o), NEW t \in Named(o), BeginsRange(o, t) => Detachable(o, t)
  PROVE  Prepared(o, WithOverride(o, t), t)
<1>1. CASE BeginsRange(o, t)
  BY <1>1, DetachIs DEF WithOverride
<1>2. CASE ~BeginsRange(o, t) /\ Overridden(o, t)
  BY <1>2, NotBegun DEF WithOverride, Prepared
<1>3. CASE ~Overridden(o, t)
  <2>1. t \in Starts(o) /\ t \in Int /\ o.master \in MasterType
    BY <1>3, NamedByTheRule, TypedStarts, TypedMaster DEF Whole, Starts
  <2>2. CASE Governed(o, t)
    <3> DEFINE g == governingRange(o, t)
               v == overrideFromRange(o, t)
    <3>1. o.overrides[g] \in OverrideType
      BY <2>1, <2>2, SomeGoverns, TypedOverride DEF Whole, Governs, modifiesFuture
    <3>2. v = OfOne(o.overrides[g], t)
      BY DEF overrideFromRange, OfOne
    <3>3. Occurrence(o, t) = Shown(t, rangeShifted(o.overrides[g], t))
      BY <1>3, <2>2 DEF Occurrence
    <3>4. WithOverride(o, t) = Added(o, v)
      BY <1>3, <2>2 DEF WithOverride, BeginsRange
    <3> HIDE DEF g, v
    <3>5. v \in OverrideType /\ v.rid = t /\ ~v.range /\ Shown(t, v) = Occurrence(o, t)
      BY <2>1, <3>1, <3>2, <3>3, FromRangeLike
    <3> QED
      BY <1>3, <2>1, <3>4, <3>5, AddedOnly DEF Prepared
  <2>3. CASE ~Governed(o, t)
    <3> DEFINE v == overrideFrom(o, t)
    <3>1. Occurrence(o, t) = Shown(t, [o.master EXCEPT !.start = t])
      BY <1>3, <2>3, OfTheMaster DEF FromMaster
    <3>2. WithOverride(o, t) = Added(o, v)
      BY <1>3, <2>3 DEF WithOverride, BeginsRange
    <3>3. v \in OverrideType /\ v.rid = t /\ ~v.range /\ Shown(t, v) = Occurrence(o, t)
      BY <2>1, <3>1, FromMasterLike
    <3> HIDE DEF v
    <3> QED
      BY <1>3, <2>1, <3>2, <3>3, AddedOnly DEF Prepared
  <2> QED
    BY <2>2, <2>3
<1> QED
  BY <1>1, <1>2, <1>3

LEMMA PatchIs ==
  ASSUME NEW o, Whole(o), NEW t \in Named(o), BeginsRange(o, t) => Detachable(o, t), NEW p \in Patch
  PROVE  /\ Whole(applyOccurrencePatch(o, t, p)) /\ Named(applyOccurrencePatch(o, t, p)) = Named(o)
         /\ \A s \in Named(o) :
              Occurrence(applyOccurrencePatch(o, t, p), s) =
                IF s = t THEN Patched(Occurrence(o, t), p) ELSE Occurrence(o, s)
<1> DEFINE w == WithOverride(o, t)
           i == currentOf(w, t)
           u == w.overrides[i]
           v == stampRevision(Patched(u, p))
<1>1. Prepared(o, w, t)
  BY WithOverrideIs
<1>2. applyOccurrencePatch(o, t, p) = Replaced(w, i, v)
  BY DEF applyOccurrencePatch, Replaced
<1> HIDE DEF w
<1>3. Whole(w) /\ Typed(w) /\ PlainAt(w, t) /\ Overridden(w, t)
  BY <1>1 DEF Prepared, Whole
<1>4. Speaks(w, t, i)
  BY <1>3, SomeSpeaks
<1> HIDE DEF i
<1>5. i \in Overrides(w) /\ i \in Revisions(w, t) /\ u.rid = t
  BY <1>4 DEF Speaks, Current, Revisions
<1>6. u \in OverrideType /\ ~u.range
  BY <1>3, <1>5, TypedOverride DEF PlainAt
<1>7. v \in OverrideType /\ v.rid = t /\ ~v.range /\ v.seq >= u.seq /\ Shown(t, v) = Patched(Shown(t, u), p)
  BY <1>5, <1>6, TypedPatch DEF OverrideType
<1>8. Occurrence(o, t) = Shown(t, u)
  BY <1>1, <1>3, <1>4, SpokenFor DEF Prepared
<1> HIDE DEF v
<1>9. /\ Whole(Replaced(w, i, v)) /\ Named(Replaced(w, i, v)) = Named(w)
      /\ Occurrence(Replaced(w, i, v), t) = Shown(t, v)
      /\ \A s \in Named(w) : s # t => Occurrence(Replaced(w, i, v), s) = Occurrence(w, s)
  BY <1>3, <1>4, <1>7, PutOnly
<1> QED
  BY <1>1, <1>2, <1>7, <1>8, <1>9 DEF Prepared

LEMMA ChangesHold ==
  ASSUME NEW o, Whole(o), NEW t \in Rids(o), Writable(o, t), NEW p \in Patch
  PROVE  Listing(applyOccurrencePatch(o, t, p)) = {IF e.rid = t THEN Patched(e, p) ELSE e : e \in Listing(o)}
<1> DEFINE x == applyOccurrencePatch(o, t, p)
           changed(e) == IF e.rid = t THEN Patched(e, p) ELSE e
<1>1. t \in Named(o) /\ Listing(o) = {Occurrence(o, s) : s \in Named(o)}
  BY ListingIs DEF Whole
<1>2. /\ Whole(x) /\ Named(x) = Named(o)
      /\ \A s \in Named(o) : Occurrence(x, s) = IF s = t THEN Patched(Occurrence(o, t), p) ELSE Occurrence(o, s)
  BY <1>1, PatchIs DEF Writable
<1> HIDE DEF x
<1>3. \A s \in Named(o) : Occurrence(x, s) = changed(Occurrence(o, s))
  BY <1>2, OccurrenceNamed
<1>4. Listing(x) = {Occurrence(x, s) : s \in Named(o)}
  BY <1>2, ListingIs DEF Whole
<1> HIDE DEF changed
<1>5. Listing(x) = {changed(e) : e \in Listing(o)}
  BY <1>1, <1>3, <1>4
<1> QED
  BY <1>5 DEF x, changed

LEMMA ExcludeIs ==
  ASSUME NEW o, Whole(o), NEW t \in Named(o), BeginsRange(o, t) => Detachable(o, t)
  PROVE  /\ Whole(excludeOccurrence(o, t)) /\ Named(excludeOccurrence(o, t)) = Named(o) \ {t}
         /\ \A s \in Named(o) \ {t} : Occurrence(excludeOccurrence(o, t), s) = Occurrence(o, s)
<1> DEFINE w == IF BeginsRange(o, t) THEN detachRangeAnchor(o, t) ELSE o
<1>1. /\ Whole(w) /\ Named(w) = Named(o) /\ PlainAt(w, t)
      /\ \A s \in Named(o) : Occurrence(w, s) = Occurrence(o, s)
  BY DetachIs, NotBegun DEF Prepared
<1>2. excludeOccurrence(o, t) = Without(w, t)
  BY DEF excludeOccurrence
<1> HIDE DEF w
<1>3. t \in Int
  BY TypedStarts DEF Whole
<1>4. /\ Whole(Without(w, t)) /\ Named(Without(w, t)) = Named(w) \ {t}
      /\ \A s \in Named(Without(w, t)) : Occurrence(Without(w, t), s) = Occurrence(w, s)
  BY <1>1, <1>3, WithoutOnly
<1> QED
  BY <1>1, <1>2, <1>4

LEMMA OthersAre ==
  ASSUME NEW o, Typed(o), NEW t
  PROVE  others(o, t) <=> Named(o) \ {t} # {}
<1>1. ASSUME NEW s \in OverriddenTimes(o), s # t
      PROVE  \E i \in Current(o) : o.overrides[i].rid # t
  <2>1. Overridden(o, s)
    BY DEF OverriddenTimes, Overridden, Revisions
  <2>2. Speaks(o, s, currentOf(o, s))
    BY <2>1, SomeSpeaks
  <2> QED
    BY <1>1, <2>2 DEF Speaks
<1>2. \A i \in Current(o) : o.overrides[i].rid \in OverriddenTimes(o)
  BY DEF Current, OverriddenTimes
<1> QED
  BY <1>1, <1>2 DEF others, Named

LEMMA RemovesHold ==
  ASSUME NEW o, Whole(o), NEW t \in Rids(o), Writable(o, t)
  PROVE  /\ Listing(excludeOccurrence(o, t)) = {e \in Listing(o) : e.rid # t}
         /\ seriesEmpty(o, t) <=> Listing(excludeOccurrence(o, t)) = {}
<1> DEFINE x == excludeOccurrence(o, t)
<1>1. t \in Named(o) /\ Listing(o) = {Occurrence(o, s) : s \in Named(o)}
  BY ListingIs DEF Whole
<1>2. Whole(x) /\ Named(x) = Named(o) \ {t} /\ \A s \in Named(o) \ {t} : Occurrence(x, s) = Occurrence(o, s)
  BY <1>1, ExcludeIs DEF Writable
<1> HIDE DEF x
<1>3. Listing(x) = {Occurrence(x, s) : s \in Named(o) \ {t}}
  BY <1>2, ListingIs DEF Whole
<1>4. Listing(x) = {e \in Listing(o) : e.rid # t}
  BY <1>1, <1>2, <1>3, OccurrenceNamed
<1>5. seriesEmpty(o, t) <=> Listing(x) = {}
  BY <1>3, OthersAre DEF seriesEmpty, Whole
<1> QED
  BY <1>4, <1>5 DEF x

-----------------------------------------------------------------------------
(* Moving the series *)

\* The length, title and number of days a move may give.
Move(o, delta, len, title) ==
  /\ o.master # None
  /\ delta \in Int /\ len \in Lengths \cup {None} /\ title \in {None, Ours}
  /\ o.master.rule.own => delta = 0

NewLen(len, old) == IF len = None THEN old ELSE len
NewTitle(title, old) == IF title = None THEN old ELSE title

LEMMA NewLenIs ==
  ASSUME NEW len \in Lengths \cup {None}, NEW old \in Nat
  PROVE  NewLen(len, old) \in Nat
BY SeriesAssumption DEF NewLen

\* What shiftOverride() makes of an override.
LEMMA ShiftedOverride ==
  ASSUME NEW v \in OverrideType, NEW oldLen \in Nat, NEW delta \in Int, NEW len \in Lengths \cup {None},
         NEW w, w = shiftOverride(v, oldLen, delta, len)
  PROVE  /\ w \in OverrideType /\ w.rid = v.rid + delta /\ w.range = v.range /\ w.title = v.title
         /\ w.seq <= v.seq + 1
         /\ w.start = IF unrescheduled(v, oldLen) THEN v.start + delta ELSE v.start
         /\ w.len = IF unrescheduled(v, oldLen) THEN NewLen(len, v.len) ELSE v.len
<1> DEFINE along == unrescheduled(v, oldLen)
           named == [v EXCEPT !.rid = @ + delta]
           timed == [named EXCEPT !.start = @ + delta]
           long == Lengthened(timed, len)
           moved == IF along THEN long ELSE named
           stamped == stampRevision(moved)
<1>1. w = IF delta # 0 \/ (along /\ len # None) THEN stamped ELSE v
  BY DEF shiftOverride
<1>2. NewLen(len, v.len) \in Nat
  BY NewLenIs DEF OverrideType
<1>3. /\ v.rid \in Int /\ v.start \in Int /\ v.len \in Nat /\ v.seq \in Nat
  BY DEF OverrideType
<1>4. /\ named \in OverrideType /\ named.rid = v.rid + delta /\ named.range = v.range
      /\ named.title = v.title /\ named.seq = v.seq /\ named.start = v.start /\ named.len = v.len
  BY DEF OverrideType
<1> HIDE DEF named
<1>5. /\ timed \in OverrideType /\ timed.rid = v.rid + delta /\ timed.range = v.range
      /\ timed.title = v.title /\ timed.seq = v.seq /\ timed.start = v.start + delta /\ timed.len = v.len
  BY <1>4 DEF OverrideType
<1> HIDE DEF timed
<1>6. /\ long \in OverrideType /\ long.rid = v.rid + delta /\ long.range = v.range
      /\ long.title = v.title /\ long.seq = v.seq /\ long.start = v.start + delta /\ long.len = NewLen(len, v.len)
  <2>1. CASE len = None
    BY <1>5, <2>1 DEF Lengthened, NewLen
  <2>2. CASE len # None
    BY <1>2, <1>5, <2>2 DEF Lengthened, NewLen, OverrideType
  <2> QED
    BY <2>1, <2>2
<1> HIDE DEF long, along
<1>7. /\ moved \in OverrideType /\ moved.rid = v.rid + delta /\ moved.range = v.range
      /\ moved.title = v.title /\ moved.seq = v.seq
      /\ moved.start = IF along THEN v.start + delta ELSE v.start
      /\ moved.len = IF along THEN NewLen(len, v.len) ELSE v.len
  BY <1>4, <1>6
<1> HIDE DEF moved
<1>8. /\ stamped \in OverrideType /\ stamped.rid = v.rid + delta /\ stamped.range = v.range
      /\ stamped.title = v.title /\ stamped.seq = v.seq + 1
      /\ stamped.start = moved.start /\ stamped.len = moved.len
  BY <1>3, <1>7 DEF stampRevision, OverrideType
<1> HIDE DEF stamped
<1>9. CASE delta # 0 \/ (along /\ len # None)
  BY <1>1, <1>3, <1>7, <1>8, <1>9 DEF along
<1>10. CASE ~(delta # 0 \/ (along /\ len # None))
  BY <1>1, <1>3, <1>10 DEF NewLen, along
<1> QED
  BY <1>9, <1>10

\* What shiftSeries() makes of the main VEVENT.
ShiftedMaster(m, delta, len, title) ==
  stampRevision(Lengthened(
    [m EXCEPT !.start = @ + delta, !.title = IF title = None THEN @ ELSE title,
              !.exdate = shiftProperty(@, delta), !.rdate = shiftProperty(@, delta),
              !.rule = shiftUntil(@, delta)], len))

LEMMA ShiftedRule ==
  ASSUME NEW r \in RuleType, NEW delta \in Int
  PROVE  /\ shiftUntil(r, delta) \in RuleType
         /\ shiftUntil(r, delta).kind = r.kind /\ shiftUntil(r, delta).own = r.own
         /\ shiftUntil(r, delta).end = IF r.kind = "until" THEN r.end + delta ELSE r.end
BY DEF shiftUntil, RuleType

LEMMA ShiftedMasterIs ==
  ASSUME NEW m \in MasterType, NEW delta \in Int, NEW len \in Lengths \cup {None}, NEW title \in {None, Ours},
         NEW w, w = ShiftedMaster(m, delta, len, title)
  PROVE  /\ w \in MasterType
         /\ w.start = m.start + delta /\ w.len = NewLen(len, m.len) /\ w.title = NewTitle(title, m.title)
         /\ w.exdate = shiftProperty(m.exdate, delta) /\ w.rdate = shiftProperty(m.rdate, delta)
         /\ w.rule = shiftUntil(m.rule, delta)
<1> DEFINE withStart(x) == [x EXCEPT !.start = m.start + delta]
           withTitle(x) == [x EXCEPT !.title = NewTitle(title, m.title)]
           withExdate(x) == [x EXCEPT !.exdate = shiftProperty(m.exdate, delta)]
           withRdate(x) == [x EXCEPT !.rdate = shiftProperty(m.rdate, delta)]
           withRule(x) == [x EXCEPT !.rule = shiftUntil(m.rule, delta)]
           a == withStart(m)
           b == withTitle(a)
           c == withExdate(b)
           d == withRdate(c)
           e == withRule(d)
           f == Lengthened(e, len)
<1>1. w = stampRevision(f)
  BY DEF ShiftedMaster, NewTitle
<1>2. \A times \in SUBSET Int : shiftProperty(times, delta) \in SUBSET Int
  BY DEF shiftProperty
<1>3. /\ NewTitle(title, m.title) \in Titles /\ NewLen(len, m.len) \in Nat
      /\ shiftProperty(m.exdate, delta) \in SUBSET Int /\ shiftProperty(m.rdate, delta) \in SUBSET Int
      /\ shiftUntil(m.rule, delta) \in RuleType
  BY <1>2, NewLenIs, ShiftedRule DEF MasterType, NewTitle, Titles
<1> DEFINE like(x) == x \in MasterType /\ x.len = m.len /\ x.seq = m.seq
<1>4. like(a) /\ a.start = m.start + delta
  BY DEF MasterType
<1> HIDE DEF a
<1>5. like(b) /\ b.start = a.start /\ b.title = NewTitle(title, m.title)
  BY <1>3, <1>4 DEF MasterType
<1> HIDE DEF b
<1>6. like(c) /\ c.start = b.start /\ c.title = b.title /\ c.exdate = shiftProperty(m.exdate, delta)
  BY <1>3, <1>5 DEF MasterType
<1> HIDE DEF c
<1>7. /\ like(d) /\ d.start = c.start /\ d.title = c.title /\ d.exdate = c.exdate
      /\ d.rdate = shiftProperty(m.rdate, delta)
  BY <1>3, <1>6 DEF MasterType
<1> HIDE DEF d
<1>8. /\ like(e) /\ e.start = d.start /\ e.title = d.title /\ e.exdate = d.exdate
      /\ e.rdate = d.rdate /\ e.rule = shiftUntil(m.rule, delta)
  BY <1>3, <1>7 DEF MasterType
<1> HIDE DEF e
<1>9. /\ f \in MasterType /\ f.start = e.start /\ f.title = e.title /\ f.exdate = e.exdate
      /\ f.rdate = e.rdate /\ f.rule = e.rule /\ f.len = NewLen(len, m.len)
  <2>1. CASE len = None
    BY <1>8, <2>1 DEF Lengthened, NewLen
  <2>2. CASE len # None
    BY <1>3, <1>8, <2>2 DEF Lengthened, NewLen, MasterType
  <2> QED
    BY <2>1, <2>2
<1> HIDE DEF f
<1>10. /\ w \in MasterType /\ w.start = f.start /\ w.title = f.title /\ w.exdate = f.exdate
       /\ w.rdate = f.rdate /\ w.rule = f.rule /\ w.len = f.len
  BY <1>1, <1>9 DEF stampRevision, MasterType
<1> QED
  BY <1>4, <1>5, <1>6, <1>7, <1>8, <1>9, <1>10

\* The j-th time of the rule, and whether the rule comes to it.
nth(m, j) == m.start + j * Day

Comes(m, j) ==
  CASE m.rule.kind = "count" -> j < m.rule.end
    [] m.rule.kind = "until" -> nth(m, j) <= m.rule.end
    [] m.rule.kind = "date" -> dayOf(nth(m, j)) <= m.rule.end
    [] OTHER -> j = 0

LEMMA RuleTimesAre ==
  ASSUME NEW m
  PROVE  RuleTimes(m) = {nth(m, j) : j \in {i \in 0 .. Days - 1 : Comes(m, i)}}
BY DEF RuleTimes, Comes, nth

Along(S, delta) == {t + delta : t \in S}

LEMMA AlongWithout ==
  ASSUME NEW S \in SUBSET Int, NEW E \in SUBSET Int, NEW delta \in Int
  PROVE  Along(S, delta) \ Along(E, delta) = Along(S \ E, delta)
<1>1. \A s \in S : s + delta \in Along(E, delta) => s \in E
  <2> SUFFICES ASSUME NEW s \in S, NEW e \in E, s + delta = e + delta
               PROVE  s \in E
    BY DEF Along
  <2>1. s \in Int /\ e \in Int /\ s = e
    OBVIOUS
  <2> QED
    BY <2>1
<1> QED
  BY <1>1 DEF Along

\* The walk of a series that is moved, moves along.
LEMMA ShiftedWalk ==
  ASSUME NEW m \in MasterType, NEW w \in MasterType, NEW delta \in Int,
         m.rule.kind = "date" => delta = 0,
         w.start = m.start + delta, w.exdate = shiftProperty(m.exdate, delta),
         w.rdate = shiftProperty(m.rdate, delta), w.rule = shiftUntil(m.rule, delta)
  PROVE  Walk(w) = Along(Walk(m), delta)
<1> DEFINE I == 0 .. Days - 1
<1>1. /\ m.start \in Int /\ m.exdate \subseteq Int /\ m.rdate \subseteq Int
      /\ m.rule \in RuleType /\ m.rule.kind \in {"count", "until", "date", "none"} /\ m.rule.end \in Int
  BY DEF MasterType, RuleType
<1>2. /\ w.rule.kind = m.rule.kind
      /\ w.rule.end = IF m.rule.kind = "until" THEN m.rule.end + delta ELSE m.rule.end
  <2> DEFINE rule == m.rule
             moved == shiftUntil(rule, delta)
  <2>1. rule \in RuleType /\ w.rule = moved
    BY <1>1
  <2> HIDE DEF rule, moved
  <2>2. /\ moved.kind = rule.kind
        /\ moved.end = IF rule.kind = "until" THEN rule.end + delta ELSE rule.end
    BY <2>1, ShiftedRule DEF moved
  <2> QED
    BY <2>1, <2>2 DEF rule
<1>3. ASSUME NEW j \in I
      PROVE  /\ nth(m, j) \in Int /\ nth(w, j) = nth(m, j) + delta
             /\ Comes(w, j) <=> Comes(m, j)
  <2>1. j \in Int /\ j * Day \in Int
    BY SeriesAssumption
  <2>2. nth(m, j) \in Int /\ nth(w, j) = nth(m, j) + delta
    BY <1>1, <2>1 DEF nth
  <2>3. CASE m.rule.kind = "count"
    BY <1>2, <2>2, <2>3 DEF Comes
  <2>4. CASE m.rule.kind = "until"
    BY <1>1, <1>2, <2>2, <2>4 DEF Comes
  <2>5. CASE m.rule.kind = "date"
    <3>1. nth(w, j) = nth(m, j)
      BY <2>2, <2>5
    <3> QED
      BY <1>2, <2>2, <2>5, <3>1 DEF Comes
  <2>6. CASE m.rule.kind = "none"
    BY <1>2, <2>2, <2>6 DEF Comes
  <2> QED
    BY <1>1, <2>2, <2>3, <2>4, <2>5, <2>6
<1>4. RuleTimes(w) = Along(RuleTimes(m), delta) /\ RuleTimes(m) \subseteq Int
  <2> DEFINE J == {i \in I : Comes(m, i)}
  <2>1. RuleTimes(m) = {nth(m, j) : j \in J} /\ RuleTimes(w) = {nth(w, j) : j \in J}
    BY <1>3, RuleTimesAre
  <2>2. \A j \in J : nth(m, j) \in Int /\ nth(w, j) = nth(m, j) + delta
    BY <1>3
  <2> HIDE DEF J
  <2> QED
    BY <2>1, <2>2 DEF Along
<1>5. {w.start} = Along({m.start}, delta) /\ w.rdate = Along(m.rdate, delta) /\ w.exdate = Along(m.exdate, delta)
  BY DEF Along, shiftProperty
<1> DEFINE S == {m.start} \cup RuleTimes(m) \cup m.rdate
           T == {w.start} \cup RuleTimes(w) \cup w.rdate
<1>6. S \subseteq Int
  BY <1>1, <1>4
<1>7. T = Along(S, delta)
  BY <1>4, <1>5 DEF Along
<1>8. Walk(m) = S \ m.exdate /\ Walk(w) = T \ w.exdate
  BY DEF Walk
<1> HIDE DEF S, T
<1>9. Walk(w) = Along(S, delta) \ Along(m.exdate, delta) /\ Walk(m) = S \ m.exdate
  BY <1>5, <1>7, <1>8
<1>10. Along(S, delta) \ Along(m.exdate, delta) = Along(S \ m.exdate, delta)
  <2> DEFINE E == m.exdate
  <2>1. S \in SUBSET Int /\ E \in SUBSET Int
    BY <1>1, <1>6
  <2> HIDE DEF E
  <2>2. Along(S, delta) \ Along(E, delta) = Along(S \ E, delta)
    BY <2>1, AlongWithout
  <2> QED
    BY <2>2 DEF E
<1> QED
  BY <1>9, <1>10

\* What shiftSeries() makes of an object.
LEMMA ShiftIs ==
  ASSUME NEW o, Whole(o), NEW delta, NEW len, NEW title, Move(o, delta, len, title),
         NEW w, w = shiftSeries(o, delta, len, title)
  PROVE  /\ Whole(w) /\ w.master \in MasterType
         /\ w.master.len = NewLen(len, o.master.len) /\ w.master.title = NewTitle(title, o.master.title)
         /\ Starts(w) = Along(Starts(o), delta)
         /\ Overrides(w) = Overrides(o)
         /\ \A i \in Overrides(o) :
              /\ w.overrides[i] = shiftOverride(o.overrides[i], o.master.len, delta, len)
              /\ w.overrides[i].rid = o.overrides[i].rid + delta
              /\ w.overrides[i].range = o.overrides[i].range
<1> DEFINE m == o.master
           f == [i \in Overrides(o) |-> shiftOverride(o.overrides[i], m.len, delta, len)]
<1>1. m \in MasterType /\ m.len \in Nat /\ Starts(o) = Walk(m)
  BY TypedMaster DEF Whole, Move, MasterType
<1>2. w = [master |-> ShiftedMaster(m, delta, len, title), overrides |-> f]
  BY DEF shiftSeries, ShiftedMaster
<1>3. w.master = ShiftedMaster(m, delta, len, title) /\ w.overrides = f /\ Overrides(w) = Overrides(o)
  BY <1>2 DEF Overrides
<1>4. delta \in Int /\ len \in Lengths \cup {None} /\ title \in {None, Ours}
  BY DEF Move
<1>5. /\ w.master \in MasterType
      /\ w.master.start = m.start + delta /\ w.master.len = NewLen(len, m.len)
      /\ w.master.title = NewTitle(title, m.title)
      /\ w.master.exdate = shiftProperty(m.exdate, delta) /\ w.master.rdate = shiftProperty(m.rdate, delta)
      /\ w.master.rule = shiftUntil(m.rule, delta)
  BY <1>1, <1>3, <1>4, ShiftedMasterIs
<1>6. m.rule.kind = "date" => delta = 0
  BY DEF Whole, Dated, Move
<1>7. Starts(w) = Along(Starts(o), delta)
  <2>1. w.master # None
    BY <1>5, MasterAssumption
  <2>2. Walk(w.master) = Along(Walk(m), delta)
    BY <1>1, <1>4, <1>5, <1>6, ShiftedWalk
  <2> QED
    BY <1>1, <2>1, <2>2 DEF Starts
<1>8. ASSUME NEW i \in Overrides(o)
      PROVE  /\ i \in Nat
             /\ w.overrides[i] = shiftOverride(o.overrides[i], m.len, delta, len)
             /\ w.overrides[i] \in OverrideType
             /\ w.overrides[i].rid = o.overrides[i].rid + delta
             /\ w.overrides[i].range = o.overrides[i].range
             /\ w.overrides[i].seq <= o.overrides[i].seq + 1
  <2>1. i \in Nat /\ o.overrides[i] \in OverrideType
    BY TypedOverride DEF Whole
  <2>2. w.overrides[i] = shiftOverride(o.overrides[i], m.len, delta, len)
    BY <1>3
  <2> HIDE DEF m
  <2> QED
    BY <1>1, <1>4, <2>1, <2>2, ShiftedOverride
<1> HIDE DEF f, m
<1>9. PICK n \in Nat : Within(o, n)
  BY DEF Whole, Typed
<1>10. Within(w, n + 1) /\ n + 1 \in Nat
  <2>1. ASSUME NEW i \in Overrides(o)
        PROVE  i <= n + 1 /\ w.overrides[i].seq <= n + 1
    <3>1. o.overrides[i].seq \in Nat /\ o.overrides[i].seq <= n /\ i <= n /\ w.overrides[i].seq \in Nat
      BY <1>8, <1>9, TypedOverride DEF Whole, Within, OverrideType
    <3> QED
      BY <1>8, <3>1
  <2> QED
    BY <1>3, <2>1 DEF Within
<1>11. Typed(w)
  <2>1. w.overrides \in [Overrides(o) -> OverrideType]
    BY <1>3, <1>8 DEF f
  <2>2. w = [master |-> w.master, overrides |-> w.overrides]
    BY <1>2
  <2> QED
    BY <1>3, <1>5, <1>8, <1>10, <2>1, <2>2 DEF Typed
<1>12. modifiesFuture(w) = modifiesFuture(o)
  BY <1>3, <1>8 DEF modifiesFuture
<1>13. RangesBegin(w)
  <2>1. ASSUME NEW i \in modifiesFuture(w)
        PROVE  /\ w.overrides[i].rid \in Starts(w)
               /\ \A j \in Overrides(w) : w.overrides[j].rid = w.overrides[i].rid => j = i
    <3>1. i \in modifiesFuture(o) /\ i \in Overrides(o)
      BY <1>12 DEF modifiesFuture
    <3>2. \A j \in Overrides(o) : o.overrides[j].rid \in Int
      BY TypedOverride DEF Whole, OverrideType
    <3> QED
      BY <1>3, <1>4, <1>7, <1>8, <3>1, <3>2 DEF Whole, RangesBegin, Along
  <2> QED
    BY <2>1 DEF RangesBegin
<1>14. Dated(w)
  <2> DEFINE rule == m.rule
             moved == shiftUntil(rule, delta)
  <2>1. rule \in RuleType /\ w.master.rule = moved
    BY <1>1, <1>5 DEF MasterType
  <2> HIDE DEF rule, moved
  <2>2. moved.kind = rule.kind /\ moved.own = rule.own
    BY <1>4, <2>1, ShiftedRule DEF moved
  <2>3. rule.kind = "date" => rule.own
    BY DEF Whole, Dated, Move, rule, m
  <2> QED
    BY <2>1, <2>2, <2>3 DEF Dated
<1> QED
  BY <1>3, <1>5, <1>7, <1>8, <1>11, <1>13, <1>14 DEF Whole, m

\* An entry at the series' time and with its length.
AtItsTime(o, e) == e.start = e.rid /\ e.len = o.master.len

LEMMA MovedAlongIs ==
  ASSUME NEW o, NEW e \in EntryType, NEW delta, NEW len, NEW title, Move(o, delta, len, title)
  PROVE  MovedAlong(o, e, delta, len, title) =
           [rid |-> e.rid + delta,
            start |-> IF AtItsTime(o, e) THEN e.start + delta ELSE e.start,
            len |-> IF AtItsTime(o, e) THEN NewLen(len, e.len) ELSE e.len,
            title |-> IF FromMaster(o, e.rid) THEN NewTitle(title, e.title) ELSE e.title]
<1> DEFINE main == FromMaster(o, e.rid)
           a == IF title # None /\ main THEN [e EXCEPT !.title = title] ELSE e
           b == [a EXCEPT !.rid = @ + delta]
           c == [b EXCEPT !.start = @ + delta]
           d == Lengthened(c, len)
           t == IF main THEN NewTitle(title, e.title) ELSE e.title
<1>1. MovedAlong(o, e, delta, len, title) = IF AtItsTime(o, e) THEN d ELSE b
  BY DEF MovedAlong, AtItsTime
<1>2. e = [rid |-> e.rid, start |-> e.start, len |-> e.len, title |-> e.title]
  BY DEF EntryType
<1> HIDE DEF main
<1>3. a = [rid |-> e.rid, start |-> e.start, len |-> e.len, title |-> t]
  <2>1. CASE title # None /\ main
    BY <1>2, <2>1 DEF NewTitle
  <2>2. CASE ~(title # None /\ main)
    BY <1>2, <2>2 DEF NewTitle
  <2> QED
    BY <2>1, <2>2
<1> HIDE DEF a, t
<1>4. b = [rid |-> e.rid + delta, start |-> e.start, len |-> e.len, title |-> t]
  BY <1>3
<1> HIDE DEF b
<1>5. c = [rid |-> e.rid + delta, start |-> e.start + delta, len |-> e.len, title |-> t]
  BY <1>4
<1> HIDE DEF c
<1>6. d = [rid |-> e.rid + delta, start |-> e.start + delta, len |-> NewLen(len, e.len), title |-> t]
  BY <1>5 DEF Lengthened, NewLen
<1> HIDE DEF d
<1> QED
  BY <1>1, <1>4, <1>6 DEF t, main

LEMMA OccurrenceMoves ==
  ASSUME NEW o, Whole(o), NEW delta, NEW len, NEW title, Move(o, delta, len, title),
         NEW w, w = shiftSeries(o, delta, len, title),
         \A i, j \in Overrides(o) : o.overrides[i].rid = o.overrides[j].rid => i = j,
         NEW s \in Named(o)
  PROVE  Occurrence(w, s + delta) = MovedAlong(o, Occurrence(o, s), delta, len, title)
<1> DEFINE m == o.master
           e == Occurrence(o, s)
           r == s + delta
<1>1. /\ Whole(w) /\ w.master \in MasterType
      /\ w.master.len = NewLen(len, m.len) /\ w.master.title = NewTitle(title, m.title)
      /\ Overrides(w) = Overrides(o)
      /\ \A i \in Overrides(o) :
           /\ w.overrides[i] = shiftOverride(o.overrides[i], m.len, delta, len)
           /\ w.overrides[i].rid = o.overrides[i].rid + delta
           /\ w.overrides[i].range = o.overrides[i].range
  BY ShiftIs
<1>2. s \in Int /\ e \in EntryType /\ e.rid = s /\ Typed(o) /\ RangesBegin(o) /\ Typed(w) /\ RangesBegin(w)
  BY <1>1, TypedStarts, OccurrenceTyped, OccurrenceNamed DEF Whole
<1>3. delta \in Int /\ r \in Int /\ len \in Lengths \cup {None} /\ m \in MasterType /\ m.len \in Nat
  BY <1>2, TypedMaster DEF Move, MasterType
<1>4. MovedAlong(o, e, delta, len, title) =
        [rid |-> r,
         start |-> IF AtItsTime(o, e) THEN e.start + delta ELSE e.start,
         len |-> IF AtItsTime(o, e) THEN NewLen(len, e.len) ELSE e.len,
         title |-> IF FromMaster(o, s) THEN NewTitle(title, e.title) ELSE e.title]
  BY <1>2, MovedAlongIs
<1>5. \A i \in Overrides(o) : o.overrides[i] \in OverrideType /\ o.overrides[i].rid \in Int
  BY <1>2, TypedOverride DEF OverrideType
<1> HIDE DEF r
<1>6. \A i \in Overrides(o) : w.overrides[i].rid = r <=> o.overrides[i].rid = s
  BY <1>1, <1>2, <1>3, <1>5 DEF r
<1>7. Revisions(w, r) = Revisions(o, s)
  BY <1>1, <1>6 DEF Revisions
<1>8. modifiesFuture(w) = modifiesFuture(o)
  BY <1>1 DEF modifiesFuture
<1>9. ASSUME NEW i \in Overrides(o),
             e.start = s + (o.overrides[i].start - o.overrides[i].rid), e.len = o.overrides[i].len
      PROVE  LET u == o.overrides[i]
                 v == w.overrides[i]
             IN /\ v.title = u.title /\ v \in OverrideType
                /\ r + (v.start - v.rid) = IF AtItsTime(o, e) THEN e.start + delta ELSE e.start
                /\ v.len = IF AtItsTime(o, e) THEN NewLen(len, e.len) ELSE e.len
  <2> DEFINE u == o.overrides[i]
             v == w.overrides[i]
  <2>1. u \in OverrideType /\ u.start \in Int /\ u.rid \in Int
    BY <1>5 DEF OverrideType
  <2>2. /\ v \in OverrideType /\ v.rid = u.rid + delta /\ v.title = u.title
        /\ v.start = IF unrescheduled(u, m.len) THEN u.start + delta ELSE u.start
        /\ v.len = IF unrescheduled(u, m.len) THEN NewLen(len, u.len) ELSE u.len
    <3>1. v = shiftOverride(u, m.len, delta, len)
      BY <1>1
    <3> HIDE DEF u, v, m
    <3> QED
      BY <1>3, <2>1, <3>1, ShiftedOverride
  <2>3. AtItsTime(o, e) <=> unrescheduled(u, m.len)
    <3>1. e.start = s + (u.start - u.rid) /\ e.len = u.len
      BY <1>9
    <3>2. \A a, b, c \in Int : a + (b - c) = a <=> b = c
      OBVIOUS
    <3>3. e.rid = s /\ s \in Int
      BY <1>2
    <3>4. e.start = e.rid <=> u.start = u.rid
      <4> HIDE DEF e, u
      <4> QED
        BY <2>1, <3>1, <3>2, <3>3
    <3> QED
      BY <3>1, <3>4 DEF AtItsTime, unrescheduled
  <2> HIDE DEF u, v
  <2>4. r + (v.start - v.rid) = IF AtItsTime(o, e) THEN e.start + delta ELSE e.start
    BY <1>2, <1>3, <1>9, <2>1, <2>2, <2>3 DEF r, u
  <2> QED
    BY <1>9, <2>2, <2>3, <2>4 DEF u, v
<1>10. CASE Overridden(o, s)
  <2> DEFINE i == currentOf(o, s)
  <2>1. Speaks(o, s, i) /\ i \in Overrides(o) /\ i \in Revisions(o, s)
    BY <1>2, <1>10, SomeSpeaks DEF Speaks, Current, Revisions
  <2> HIDE DEF i
  <2>2. Revisions(o, s) = {i}
    BY <2>1 DEF Revisions
  <2>3. Speaks(w, r, i)
    BY <1>2, <1>7, <2>2, OneRevision
  <2>4. e = Shown(s, o.overrides[i]) /\ Occurrence(w, r) = Shown(r, w.overrides[i])
    BY <1>2, <2>1, <2>3, SpokenFor
  <2>5. o.overrides[i].rid = s /\ w.overrides[i].rid = r /\ o.overrides[i].start \in Int
    BY <1>5, <2>1, <2>3 DEF Speaks, OverrideType
  <2>6. /\ e.start = s + (o.overrides[i].start - o.overrides[i].rid) /\ e.len = o.overrides[i].len
        /\ e.title = o.overrides[i].title
    BY <1>2, <2>4, <2>5 DEF Shown
  <2>7. /\ w.overrides[i].title = e.title /\ w.overrides[i] \in OverrideType
        /\ r + (w.overrides[i].start - w.overrides[i].rid) = IF AtItsTime(o, e) THEN e.start + delta ELSE e.start
        /\ w.overrides[i].len = IF AtItsTime(o, e) THEN NewLen(len, e.len) ELSE e.len
    BY <1>2, <1>9, <2>1, <2>6
  <2>8. w.overrides[i].start = IF AtItsTime(o, e) THEN e.start + delta ELSE e.start
    <3>1. w.overrides[i].start \in Int /\ r \in Int
      BY <1>3, <2>7 DEF OverrideType
    <3> QED
      BY <2>5, <2>7, <3>1
  <2>9. ~FromMaster(o, s)
    BY <1>10 DEF FromMaster
  <2> QED
    BY <1>4, <2>4, <2>7, <2>8, <2>9 DEF Shown, r
<1>11. CASE ~Overridden(o, s) /\ Governed(o, s)
  <2> DEFINE g == governingRange(o, s)
  <2>1. Governs(o, s, g)
    BY <1>2, <1>11, SomeGoverns
  <2> HIDE DEF g
  <2>2. g \in Overrides(o) /\ g \in modifiesFuture(o)
    BY <2>1 DEF Governs, modifiesFuture
  <2>3. \A i \in modifiesFuture(o) : i \in Overrides(o)
    BY DEF modifiesFuture
  <2>4. Governs(w, r, g)
    BY <1>1, <1>2, <1>3, <1>5, <1>8, <2>1, <2>2, <2>3 DEF Governs, r
  <2>5. ~Overridden(w, r)
    BY <1>7, <1>11 DEF Overridden
  <2>6. /\ e = Shown(s, rangeShifted(o.overrides[g], s))
        /\ Occurrence(w, r) = Shown(r, rangeShifted(w.overrides[g], r))
    BY <1>2, <1>3, <1>11, <2>1, <2>4, <2>5, Reached
  <2>7. /\ e.start = s + (o.overrides[g].start - o.overrides[g].rid) /\ e.len = o.overrides[g].len
        /\ e.title = o.overrides[g].title
    BY <1>5, <2>2, <2>6 DEF Shown, rangeShifted, OverrideType
  <2>8. /\ w.overrides[g].title = e.title /\ w.overrides[g] \in OverrideType
        /\ r + (w.overrides[g].start - w.overrides[g].rid) = IF AtItsTime(o, e) THEN e.start + delta ELSE e.start
        /\ w.overrides[g].len = IF AtItsTime(o, e) THEN NewLen(len, e.len) ELSE e.len
    BY <1>2, <1>9, <2>2, <2>7
  <2>9. Occurrence(w, r) =
          [rid |-> r, start |-> r + (w.overrides[g].start - w.overrides[g].rid),
           len |-> w.overrides[g].len, title |-> w.overrides[g].title]
    BY <2>6, <2>8 DEF Shown, rangeShifted, OverrideType
  <2>10. ~FromMaster(o, s)
    BY <1>11 DEF FromMaster
  <2> QED
    BY <1>4, <2>8, <2>9, <2>10 DEF r
<1>12. CASE FromMaster(o, s)
  <2>1. ~Overridden(w, r)
    BY <1>7, <1>12 DEF Overridden, FromMaster
  <2>2. ~Governed(w, r)
    <3>1. \A i \in modifiesFuture(o) : i \in Overrides(o) /\ ~(o.overrides[i].rid <= s)
      BY <1>12 DEF modifiesFuture, FromMaster, Governed
    <3> QED
      BY <1>1, <1>2, <1>3, <1>5, <1>8, <3>1 DEF Governed, r
  <2>3. /\ e = Shown(s, [m EXCEPT !.start = s])
        /\ Occurrence(w, r) = Shown(r, [w.master EXCEPT !.start = r])
    BY <1>12, <2>1, <2>2, OfTheMaster DEF FromMaster
  <2>4. e.start = s /\ e.len = m.len /\ e.title = m.title
    BY <1>3, <2>3 DEF Shown, MasterType
  <2>5. Occurrence(w, r) = [rid |-> r, start |-> r, len |-> w.master.len, title |-> w.master.title]
    BY <1>1, <2>3 DEF Shown, MasterType
  <2>6. AtItsTime(o, e) /\ e.start + delta = r
    BY <1>2, <2>4 DEF AtItsTime, r
  <2> QED
    BY <1>1, <1>4, <1>12, <2>4, <2>5, <2>6 DEF r
<1> QED
  BY <1>10, <1>11, <1>12 DEF FromMaster, r

LEMMA MovesHold ==
  ASSUME NEW o, Whole(o), NEW delta, NEW len, NEW title, Move(o, delta, len, title),
         \A i, j \in Overrides(o) : o.overrides[i].rid = o.overrides[j].rid => i = j
  PROVE  Listing(shiftSeries(o, delta, len, title)) = {MovedAlong(o, e, delta, len, title) : e \in Listing(o)}
<1> DEFINE w == shiftSeries(o, delta, len, title)
           moved(e) == MovedAlong(o, e, delta, len, title)
<1>1. /\ Whole(w) /\ Starts(w) = Along(Starts(o), delta) /\ Overrides(w) = Overrides(o)
      /\ \A i \in Overrides(o) : w.overrides[i].rid = o.overrides[i].rid + delta
  BY ShiftIs
<1>2. \A s \in Named(o) : Occurrence(w, s + delta) = moved(Occurrence(o, s))
  BY OccurrenceMoves
<1> HIDE DEF w, moved
<1>3. Named(w) = {s + delta : s \in Named(o)}
  BY <1>1 DEF Named, OverriddenTimes, Along
<1>4. Listing(w) = {Occurrence(w, s) : s \in Named(w)} /\ Listing(o) = {Occurrence(o, s) : s \in Named(o)}
  BY <1>1, ListingIs DEF Whole
<1>5. Listing(w) = {Occurrence(w, s + delta) : s \in Named(o)}
  BY <1>3, <1>4
<1>6. Listing(w) = {moved(e) : e \in Listing(o)}
  BY <1>2, <1>4, <1>5
<1> QED
  BY <1>6 DEF w, moved

-----------------------------------------------------------------------------
(* The invariant *)

LEMMA ForeignType ==
  ASSUME NEW t \in Int, NEW range \in BOOLEAN, NEW move \in Int, NEW len \in Nat, NEW seq \in Nat
  PROVE  ForeignOverride(t, range, move, len, seq) \in OverrideType
BY DEF ForeignOverride, OverrideType, Titles

SeriesWhole == Whole(obj)

LEMMA WholeAtFirst == SeriesInit => SeriesWhole
<1> SUFFICES ASSUME SeriesInit
             PROVE  Whole(obj)
  BY DEF SeriesWhole
<1>1. ASSUME NEW m \in Masters, obj = [master |-> m, overrides |-> NoOverrides]
      PROVE  Whole(obj)
  <2>1. Day \in Int
    BY SeriesAssumption
  <2>2. m \in MasterType /\ (m.rule.kind = "date" => m.rule.own)
    <3>1. /\ Master("count", 3, FALSE, {}, 1) \in MasterType
          /\ Master("count", 3, FALSE, {}, 1).rule.kind = "count"
      BY DEF Master, MasterType, RuleType, Titles
    <3>2. /\ Master("until", 1 + Day, FALSE, {2 + Day}, 1) \in MasterType
          /\ Master("until", 1 + Day, FALSE, {2 + Day}, 1).rule.kind = "until"
      BY <2>1 DEF Master, MasterType, RuleType, Titles
    <3>3. /\ Master("date", 1, TRUE, {2 + Day}, 1) \in MasterType
          /\ Master("date", 1, TRUE, {2 + Day}, 1).rule.own
      BY <2>1 DEF Master, MasterType, RuleType, Titles
    <3>4. /\ Master("none", 0, FALSE, {2 + Day}, 0) \in MasterType
          /\ Master("none", 0, FALSE, {2 + Day}, 0).rule.kind = "none"
      BY <2>1 DEF Master, MasterType, RuleType, Titles
    <3> QED
      BY <3>1, <3>2, <3>3, <3>4 DEF Masters
  <2>3. obj.master = m /\ obj.overrides = NoOverrides /\ Overrides(obj) = {} /\ modifiesFuture(obj) = {}
    BY <1>1 DEF Overrides, NoOverrides, modifiesFuture
  <2>4. obj.overrides \in [Overrides(obj) -> OverrideType]
    BY <2>3 DEF NoOverrides
  <2>5. Within(obj, 0)
    BY <2>3 DEF Within
  <2> QED
    BY <1>1, <2>2, <2>3, <2>4, <2>5 DEF Whole, Typed, RangesBegin, Dated
<1>2. CASE obj = Invitation
  <2> DEFINE v == ForeignOverride(1, FALSE, 0, 1, 0)
  <2>1. v \in OverrideType
    BY DEF ForeignOverride, OverrideType, Titles
  <2>2. v.seq = 0 /\ ~v.range
    BY DEF ForeignOverride
  <2> HIDE DEF v
  <2>3. /\ obj.master = None /\ obj.overrides = [i \in {1} |-> v] /\ Overrides(obj) = {1}
        /\ obj = [master |-> None, overrides |-> [i \in {1} |-> v]]
    BY <1>2 DEF Invitation, Overrides, v
  <2>4. obj.overrides \in [{1} -> OverrideType] /\ obj.overrides[1] = v
    BY <2>1, <2>3
  <2>5. Within(obj, 1)
    BY <2>2, <2>3, <2>4 DEF Within
  <2>6. modifiesFuture(obj) = {}
    BY <2>2, <2>3, <2>4 DEF modifiesFuture
  <2> QED
    BY <2>3, <2>4, <2>5, <2>6 DEF Whole, Typed, RangesBegin, Dated
<1> QED
  BY <1>1, <1>2 DEF SeriesInit

LEMMA StaysWhole == SeriesWhole /\ [SeriesNext]_svars => SeriesWhole'
<1> SUFFICES ASSUME Whole(obj), [SeriesNext]_svars
             PROVE  Whole(obj')
  BY DEF SeriesWhole
<1>1. Rids(obj) = Named(obj)
  BY ListingIs DEF Whole
<1>2. ASSUME NEW t \in Times, NEW p \in Patch, UpdateOccurrence(t, p)
      PROVE  Whole(obj')
  <2>1. t \in Named(obj) /\ (BeginsRange(obj, t) => Detachable(obj, t)) /\ obj' = applyOccurrencePatch(obj, t, p)
    BY <1>1, <1>2 DEF UpdateOccurrence, Writable, putEdit
  <2> QED
    BY <2>1, PatchIs
<1>3. ASSUME NEW t \in Times, DeleteOccurrence(t)
      PROVE  Whole(obj')
  <2>1. t \in Named(obj) /\ (BeginsRange(obj, t) => Detachable(obj, t)) /\ obj' = excludeOccurrence(obj, t)
    BY <1>1, <1>3 DEF DeleteOccurrence, Writable, putEdit
  <2> QED
    BY <2>1, ExcludeIs
<1>4. ASSUME NEW t \in Times, NEW delta \in Moves \cup {0}, NEW len \in Lengths \cup {None},
             NEW title \in {None, Ours}, UpdateSeries(t, delta, len, title)
      PROVE  Whole(obj')
  <2>1. Move(obj, delta, len, title) /\ obj' = shiftSeries(obj, delta, len, title)
    BY <1>4, SeriesAssumption DEF UpdateSeries, Shiftable, Move, putEdit
  <2> QED
    BY <2>1, ShiftIs
<1>5. ASSUME NEW t \in ForeignTimes, NEW range \in BOOLEAN, NEW move \in 0 .. MaxOf(Moves),
             NEW len \in ForeignLengths, NEW seq \in 0 .. 1,
             Foreign(ForeignOverride(t, range, move, len, seq))
      PROVE  Whole(obj')
  <2> DEFINE v == ForeignOverride(t, range, move, len, seq)
  <2>1. v \in OverrideType
    BY ForeignType, SeriesAssumption
  <2> HIDE DEF v
  <2>2. Foreign(v)
    BY <1>5 DEF v
  <2>3. Fits(obj, v) /\ obj' = Added(obj, v)
    BY <2>1, <2>2 DEF Foreign, Fits, PlainAt, Overridden, putEdit
  <2> QED
    BY <2>3, AddedWhole
<1>6. CASE UNCHANGED svars
  BY <1>6 DEF svars
<1> QED
  BY <1>2, <1>3, <1>4, <1>5, <1>6 DEF SeriesNext

LEMMA AlwaysWhole == SSpec => []SeriesWhole
  BY WholeAtFirst, StaysWhole, PTL DEF SSpec

-----------------------------------------------------------------------------
(* Theorems *)

\* A write to one occurrence, whether it has an override, is reached by one or
\* is where one begins, changes or removes that occurrence in what is listed
\* and no other (applyOccurrencePatch(), excludeOccurrence()).
THEOREM NoOtherOccurrenceChanges == SSpec => []OnlyTheNamedOccurrence
<1>1. SeriesWhole => OnlyTheNamedOccurrence
  <2> SUFFICES ASSUME Whole(obj)
               PROVE  OnlyTheNamedOccurrence
    BY DEF SeriesWhole
  <2>1. ChangesOnlyTheNamed
    BY ChangesHold DEF ChangesOnlyTheNamed
  <2>2. RemovesOnlyTheNamed
    BY RemovesHold DEF RemovesOnlyTheNamed
  <2> QED
    BY <2>1, <2>2 DEF OnlyTheNamedOccurrence
<1> QED
  BY <1>1, AlwaysWhole, PTL

\* A series that is moved keeps each of its occurrences, at its own time or
\* along with the series, however they came about (shiftSeries()).
THEOREM TheSeriesMovesAsOne == SSpec => []SeriesMovesAsOne
<1>1. SeriesWhole => SeriesMovesAsOne
  <2> SUFFICES ASSUME Whole(obj), \A i, j \in Overrides(obj) : obj.overrides[i].rid = obj.overrides[j].rid => i = j,
                      NEW delta \in Moves \cup {0}, NEW t \in Times, Shiftable(obj, t, delta),
                      NEW len \in Lengths \cup {None}, NEW title \in {None, Ours}
               PROVE  Listing(shiftSeries(obj, delta, len, title)) =
                        {MovedAlong(obj, e, delta, len, title) : e \in Listing(obj)}
    BY DEF SeriesMovesAsOne, SeriesWhole
  <2>1. Move(obj, delta, len, title)
    BY SeriesAssumption DEF Shiftable, Move
  <2> QED
    BY <2>1, MovesHold
<1> QED
  BY <1>1, AlwaysWhole, PTL

\* A window shows what of the listing overlaps it, although the walk stops at
\* its end, where no change to all that follows moves them back
\* (occurrencesIn()).
THEOREM WindowsAreComplete == SSpec => []WindowShowsWhatOverlaps
<1>1. SeriesWhole => WindowShowsWhatOverlaps
  <2> SUFFICES ASSUME Whole(obj), ForwardOnly(obj), NEW to \in Times, NEW from \in 1 .. to - 1
               PROVE  Window(obj, from, to) = {e \in Listing(obj) : inWindow(e, from, to)}
    BY DEF WindowShowsWhatOverlaps, ForwardOnly, SeriesWhole
  <2>1. to \in Int
    BY DEF Times
  <2> QED
    BY <2>1, WindowHolds DEF Whole
<1> QED
  BY <1>1, AlwaysWhole, PTL

-----------------------------------------------------------------------------
(***************************************************************************)
(* The slots found between busy times (FreeTime), for a day of any length, *)
(* any clocks that change once, any calendars and any searches.  A loop of *)
(* the code is a recursive function in FreeTime: Course says that it has a *)
(* course, Rounds that what every round keeps holds after each.  So merge  *)
(* leaves separated intervals that cover the same instants (MergeIs), the  *)
(* walk through a window lists the open stretches that end by its cursor   *)
(* (Listed), and the windows are the instants within the hours (HoursAre). *)
(***************************************************************************)

(* Loops *)

\* What holds at first and is kept by every round holds after each.
LEMMA Rounds ==
  ASSUME NEW n \in Nat, NEW G, 0 \in G,
         \A i \in 1 .. n : i - 1 \in G => i \in G
  PROVE  \A i \in 0 .. n : i \in G
<1> DEFINE T == {i \in 0 .. n : i \notin G}
<1>1. SUFFICES T = {}
  OBVIOUS
<1>2. SUFFICES ASSUME T # {} PROVE FALSE
  OBVIOUS
<1>3. T \subseteq Nat
  OBVIOUS
<1>4. PICK x \in T : \A y \in T : ~(<<y, x>> \in OpToRel(<, Nat))
  BY <1>2, <1>3, WFMin, NatLessThanWellFounded
<1>5. x \in 0 .. n /\ x \notin G
  BY <1>4
<1>6. x # 0
  BY <1>5
<1>7. x - 1 \in 0 .. n /\ x \in 1 .. n
  BY <1>5, <1>6
<1>8. x - 1 \notin G
  BY <1>5, <1>7
<1>9. x - 1 \in T
  BY <1>7, <1>8
<1>10. <<x - 1, x>> \in OpToRel(<, Nat)
  BY <1>7 DEF OpToRel
<1> QED
  BY <1>4, <1>9, <1>10

\* A loop of n rounds, each of which does step[i], has a course.
Steps(n, S) == [1 .. n -> [S -> S]]

HasCourse(n, S, base, step) ==
  \E f \in [0 .. n -> S] : f[0] = base /\ \A i \in 1 .. n : f[i] = step[i][f[i - 1]]

LEMMA Course ==
  ASSUME NEW n \in Nat, NEW S, NEW base, base \in S, NEW step, step \in Steps(n, S)
  PROVE  HasCourse(n, S, base, step)
<1> USE DEF Steps
<1> DEFINE Goes(k, f) == f[0] = base /\ \A i \in 1 .. k : f[i] = step[i][f[i - 1]]
           Possible(k) == \E f \in [0 .. k -> S] : Goes(k, f)
           G == {k \in 0 .. n : Possible(k)}
<1>1. 0 \in G
  <2>1. [i \in 0 .. 0 |-> base] \in [0 .. 0 -> S] /\ Goes(0, [i \in 0 .. 0 |-> base])
    OBVIOUS
  <2>2. Possible(0)
    BY <2>1
  <2> HIDE DEF Possible
  <2> QED
    BY <2>2
<1>2. ASSUME NEW k \in 1 .. n, k - 1 \in G PROVE k \in G
  <2>1. PICK f \in [0 .. k - 1 -> S] : Goes(k - 1, f)
    BY <1>2
  <2> DEFINE g == [i \in 0 .. k |-> IF i = k THEN step[k][f[k - 1]] ELSE f[i]]
  <2>2. f[k - 1] \in S /\ step[k] \in [S -> S]
    OBVIOUS
  <2>3. step[k][f[k - 1]] \in S
    BY <2>2
  <2>4. g \in [0 .. k -> S]
    <3>1. ASSUME NEW i \in 0 .. k PROVE g[i] \in S
      BY <2>3
    <3> QED
      BY <3>1
  <2>5. g[0] = base
    BY <2>1
  <2>6. ASSUME NEW i \in 1 .. k PROVE g[i] = step[i][g[i - 1]]
    <3>1. CASE i = k
      <4>1. g[i - 1] = f[k - 1]
        BY <3>1
      <4> QED
        BY <3>1, <4>1
    <3>2. CASE i # k
      <4>1. i \in 1 .. k - 1 /\ i - 1 \in 0 .. k - 1
        BY <3>2
      <4>2. g[i] = f[i] /\ g[i - 1] = f[i - 1]
        BY <3>2, <4>1
      <4> QED
        BY <2>1, <4>1, <4>2
    <3> QED
      BY <3>1, <3>2
  <2>7. Goes(k, g)
    BY <2>5, <2>6
  <2>8. Possible(k)
    <3> HIDE DEF Goes, g
    <3> QED
      BY <2>4, <2>7
  <2> HIDE DEF Possible
  <2> QED
    BY <2>8
<1> HIDE DEF G
<1>3. \A k \in 0 .. n : k \in G
  BY <1>1, <1>2, Rounds
<1> QED
  BY <1>3 DEF G, HasCourse

-----------------------------------------------------------------------------
(* Intervals in order *)

Interval == [start : Int, end : Int]

\* What lies in one of them.
In(t, m) == \E i \in DOMAIN m : Covers(m[i], t)

\* None is empty, and no two overlap or touch.
Separated(m) ==
  \A i \in DOMAIN m :
    /\ m[i].start < m[i].end
    /\ \A j \in DOMAIN m : i < j => m[i].end < m[j].start

LEMMA SeparatedSo ==
  ASSUME NEW m \in Seq(Interval), Separated(m), NEW i \in 1 .. Len(m), NEW j \in 1 .. Len(m)
  PROVE  /\ m[i] \in Interval /\ m[i].start \in Int /\ m[i].end \in Int
         /\ m[i].start < m[i].end
         /\ i < j => m[i].end < m[j].start
<1>1. DOMAIN m = 1 .. Len(m) /\ m[i] \in Interval
  OBVIOUS
<1> QED
  BY <1>1 DEF Separated, Interval

LEMMA MostLeast ==
  ASSUME NEW a \in Int, NEW b \in Int
  PROVE  /\ Most(a, b) \in Int /\ Least(a, b) \in Int
         /\ Most(a, b) >= a /\ Most(a, b) >= b /\ (Most(a, b) = a \/ Most(a, b) = b)
         /\ Least(a, b) <= a /\ Least(a, b) <= b /\ (Least(a, b) = a \/ Least(a, b) = b)
BY DEF Most, Least

\* The last of them, set to end later.
EndsLater(m, n, e) == [m EXCEPT ![n] = [start |-> @.start, end |-> e]]

LEMMA Longer ==
  ASSUME NEW m \in Seq(Interval), Separated(m), NEW n, n = Len(m), n > 0,
         NEW e \in Int, e >= m[n].end
  PROVE  LET longer == EndsLater(m, n, e)
         IN  /\ longer \in Seq(Interval) /\ Len(longer) = n
             /\ \A i \in 1 .. n : longer[i].start = m[i].start
             /\ \A i \in 1 .. n : i # n => longer[i] = m[i]
             /\ longer[n].end = e
             /\ Separated(longer)
<1> DEFINE last == [start |-> m[n].start, end |-> e]
           longer == EndsLater(m, n, e)
<1>1. n \in Nat /\ n \in 1 .. n /\ DOMAIN m = 1 .. n /\ m[n] \in Interval
  OBVIOUS
<1>2. last \in Interval
  BY <1>1 DEF Interval
<1>3. longer = [m EXCEPT ![n] = last]
  BY DEF EndsLater
<1> HIDE DEF longer, last
<1>4. longer \in [1 .. n -> Interval]
  BY <1>1, <1>2, <1>3
<1>5. longer \in Seq(Interval) /\ Len(longer) = n /\ DOMAIN longer = 1 .. n
  BY <1>1, <1>4
<1>6. longer[n] = last /\ \A i \in 1 .. n : i # n => longer[i] = m[i]
  BY <1>1, <1>3
<1>7. longer[n].end = e /\ longer[n].start = m[n].start
  BY <1>6 DEF last
<1>8. \A i \in 1 .. n : longer[i].start = m[i].start
  BY <1>6, <1>7
<1>9. Separated(longer)
  <2> SUFFICES ASSUME NEW i \in 1 .. n
               PROVE  /\ longer[i].start < longer[i].end
                      /\ \A j \in 1 .. n : i < j => longer[i].end < longer[j].start
    BY <1>5 DEF Separated
  <2>1. m[n].start < m[n].end /\ m[n].start \in Int /\ m[n].end \in Int
    BY <1>1, SeparatedSo
  <2>2. longer[i].start < longer[i].end
    <3>1. CASE i = n
      BY <3>1, <1>7, <2>1
    <3>2. CASE i # n
      BY <3>2, <1>6, <1>1, SeparatedSo
    <3> QED
      BY <3>1, <3>2
  <2>3. ASSUME NEW j \in 1 .. n, i < j PROVE longer[i].end < longer[j].start
    <3>1. longer[i] = m[i]
      BY <1>6, <2>3, <1>1
    <3>2. m[i].end < m[j].start
      BY <1>1, <2>3, SeparatedSo
    <3> QED
      BY <3>1, <3>2, <1>8
  <2> QED
    BY <2>2, <2>3
<1> QED
  BY <1>5, <1>6, <1>7, <1>8, <1>9 DEF longer

\* One round of merge().
LEMMA JoinedIs ==
  ASSUME NEW m \in Seq(Interval), Separated(m), NEW b \in Interval,
         \A i \in 1 .. Len(m) : m[i].start <= b.start
  PROVE  /\ Joined(m, b) \in Seq(Interval)
         /\ Separated(Joined(m, b))
         /\ \A t \in Int : In(t, Joined(m, b)) <=> In(t, m) \/ Covers(b, t)
         /\ \A i \in 1 .. Len(Joined(m, b)) :
              \/ Joined(m, b)[i].start = b.start
              \/ \E j \in 1 .. Len(m) : Joined(m, b)[i].start = m[j].start
<1> DEFINE n == Len(m)
           J == Joined(m, b)
<1>1. n \in Nat /\ DOMAIN m = 1 .. n /\ b.start \in Int /\ b.end \in Int
  BY DEF Interval
<1>2. \A i \in 1 .. n : m[i].start \in Int /\ m[i].end \in Int /\ m[i].start < m[i].end
  BY SeparatedSo
<1>3. CASE b.end <= b.start
  <2>1. J = m
    BY <1>3 DEF Joined
  <2>2. \A t \in Int : ~Covers(b, t)
    BY <1>1, <1>3 DEF Covers
  <2> QED
    BY <2>1, <2>2
<1>4. CASE ~(b.end <= b.start) /\ n > 0 /\ b.start <= m[n].end
  <2> DEFINE e == Most(m[n].end, b.end)
  <2>1. J = EndsLater(m, n, e)
    BY <1>4 DEF Joined, EndsLater
  <2> n \in 1 .. n
    BY <1>1, <1>4
  <2>2. e \in Int /\ e >= m[n].end /\ e >= b.end /\ (e = m[n].end \/ e = b.end)
    BY <1>1, <1>2, MostLeast
  <2> HIDE DEF e, J
  <2>3. /\ J \in Seq(Interval) /\ Len(J) = n /\ Separated(J)
        /\ \A i \in 1 .. n : J[i].start = m[i].start
        /\ \A i \in 1 .. n : i # n => J[i] = m[i]
        /\ J[n].end = e
    BY <1>4, <2>1, <2>2, Longer
  <2>4. DOMAIN J = 1 .. n
    BY <2>3
  <2>5. ASSUME NEW t \in Int PROVE In(t, J) <=> In(t, m) \/ Covers(b, t)
    <3>1. Covers(J[n], t) <=> Covers(m[n], t) \/ Covers(b, t)
      <4>1. /\ J[n].start = m[n].start /\ J[n].end = e
            /\ m[n].start \in Int /\ m[n].end \in Int
            /\ m[n].start <= b.start /\ b.start <= m[n].end
            /\ ~(b.end <= b.start)
        BY <1>2, <1>4, <2>3
      <4> QED
        BY <1>1, <2>2, <4>1 DEF Covers
    <3>2. \A i \in 1 .. n : i # n => (Covers(J[i], t) <=> Covers(m[i], t))
      BY <2>3
    <3>3. n \in 1 .. n
      BY <1>1, <1>4
    <3> QED
      BY <3>1, <3>2, <3>3, <2>4, <1>1 DEF In
  <2> QED
    BY <2>3, <2>5 DEF J
<1>5. CASE ~(b.end <= b.start) /\ ~(n > 0 /\ b.start <= m[n].end)
  <2>1. J = Append(m, b)
    BY <1>5 DEF Joined
  <2>2. /\ J \in Seq(Interval) /\ Len(J) = n + 1 /\ DOMAIN J = 1 .. n + 1
        /\ J[n + 1] = b /\ \A i \in 1 .. n : J[i] = m[i]
    BY <2>1, <1>1, AppendProperties
  <2> HIDE DEF J
  <2>3. Separated(J)
    <3> SUFFICES ASSUME NEW i \in 1 .. n + 1
                 PROVE  /\ J[i].start < J[i].end
                        /\ \A j \in 1 .. n + 1 : i < j => J[i].end < J[j].start
      BY <2>2 DEF Separated
    <3>1. J[i].start < J[i].end
      <4>1. CASE i = n + 1
        BY <4>1, <1>1, <1>5, <2>2
      <4>2. CASE i # n + 1
        <5>1. i \in 1 .. n
          BY <4>2, <1>1
        <5> QED
          BY <5>1, <1>2, <2>2
      <4> QED
        BY <4>1, <4>2
    <3>2. ASSUME NEW j \in 1 .. n + 1, i < j PROVE J[i].end < J[j].start
      <4>1. i \in 1 .. n /\ J[i] = m[i]
        BY <3>2, <1>1, <2>2
      <4>2. CASE j = n + 1
        <5>1. n \in 1 .. n /\ n > 0
          BY <1>1, <4>1
        <5>2. m[n].end < b.start
          BY <1>1, <1>2, <1>5, <5>1
        <5>3. i # n => m[i].end < m[n].start
          <6>1. i # n => i < n
            BY <4>1, <5>1
          <6> QED
            BY <4>1, <5>1, <6>1, SeparatedSo
        <5>4. m[i].end < b.start
          <6>1. m[i].end \in Int /\ m[n].end \in Int /\ m[n].start \in Int /\ m[n].start < m[n].end
            BY <4>1, <5>1, <1>2
          <6>2. CASE i = n
            BY <6>2, <5>2
          <6>3. CASE i # n
            <7>1. m[i].end < m[n].start /\ m[n].start < m[n].end /\ m[n].end < b.start /\ b.start \in Int
              BY <6>1, <6>3, <5>2, <5>3, <1>1
            <7> HIDE <1>1, <1>2
            <7> QED
              BY <6>1, <7>1
          <6> QED
            BY <6>2, <6>3
        <5>5. J[j] = b
          BY <4>2, <2>2
        <5> QED
          BY <4>1, <5>4, <5>5
      <4>3. CASE j # n + 1
        <5>1. j \in 1 .. n /\ J[j] = m[j]
          BY <4>3, <1>1, <2>2
        <5> QED
          BY <3>2, <4>1, <5>1, SeparatedSo
      <4> QED
        BY <4>2, <4>3
    <3> QED
      BY <3>1, <3>2
  <2>4. ASSUME NEW t \in Int PROVE In(t, J) <=> In(t, m) \/ Covers(b, t)
    <3>1. 1 .. n + 1 = (1 .. n) \cup {n + 1}
      BY <1>1
    <3> QED
      BY <2>2, <3>1, <1>1 DEF In
  <2>5. ASSUME NEW i \in 1 .. n + 1
        PROVE  J[i].start = b.start \/ \E j \in 1 .. n : J[i].start = m[j].start
    <3>1. i = n + 1 \/ i \in 1 .. n
      BY <1>1
    <3> QED
      BY <3>1, <2>2
  <2> QED
    BY <2>2, <2>3, <2>4, <2>5 DEF J
<1> QED
  BY <1>3, <1>4, <1>5

\* What merge() has made of the first intervals.
MergedSoFar(m, s, i) ==
  /\ m \in Seq(Interval) /\ Separated(m)
  /\ \A t \in Int : In(t, m) <=> \E j \in 1 .. i : Covers(s[j], t)
  /\ \A k \in 1 .. Len(m) : \E j \in 1 .. i : m[k].start = s[j].start

\* merge() of intervals in the order of their starts.
LEMMA MergeIs ==
  ASSUME NEW n \in Nat, NEW s \in [1 .. n -> Interval],
         \A i, j \in 1 .. n : i < j => s[i].start <= s[j].start
  PROVE  /\ merge(s) \in Seq(Interval) /\ Separated(merge(s))
         /\ \A t \in Int : In(t, merge(s)) <=> \E j \in 1 .. n : Covers(s[j], t)
<1>1. s \in Seq(Interval) /\ Len(s) = n
  OBVIOUS
<1> DEFINE upTo == CHOOSE f : f = [i \in 0 .. Len(s) |-> IF i = 0 THEN <<>> ELSE Joined(f[i - 1], s[i])]
           Step == [i \in 1 .. n |-> [m \in Seq(Interval) |-> 
                      IF Joined(m, s[i]) \in Seq(Interval) THEN Joined(m, s[i]) ELSE <<>>]]
<1>2. merge(s) = upTo[n]
  BY <1>1 DEF merge
<1>3. PICK f \in [0 .. n -> Seq(Interval)] :
        f[0] = <<>> /\ \A i \in 1 .. n : f[i] = Step[i][f[i - 1]]
  <2>1. Step \in [1 .. n -> [Seq(Interval) -> Seq(Interval)]] /\ <<>> \in Seq(Interval)
    OBVIOUS
  <2> HIDE DEF Step
  <2>2. HasCourse(n, Seq(Interval), <<>>, Step)
    BY <2>1, Course DEF Steps
  <2> QED
    BY <2>2 DEF HasCourse
<1>4. \A i \in 1 .. n : f[i - 1] \in Seq(Interval) /\ s[i] \in Interval
  OBVIOUS
<1>5. \A i \in 1 .. n :
        f[i] = IF Joined(f[i - 1], s[i]) \in Seq(Interval) THEN Joined(f[i - 1], s[i]) ELSE <<>>
  BY <1>3, <1>4
<1> DEFINE Good(i) == MergedSoFar(f[i], s, i) /\ (i > 0 => f[i] = Joined(f[i - 1], s[i]))
           G == {i \in 0 .. n : Good(i)}
<1>6. 0 \in G
  <2>1. MergedSoFar(<<>>, s, 0)
    BY DEF MergedSoFar, Separated, In
  <2>2. Good(0)
    BY <1>3, <2>1
  <2> HIDE DEF Good
  <2> QED
    BY <2>2
<1>7. ASSUME NEW i \in 1 .. n, i - 1 \in G PROVE i \in G
  <2> DEFINE m == f[i - 1]
  <2>1. MergedSoFar(m, s, i - 1)
    <3>1. Good(i - 1)
      <4> HIDE DEF Good
      <4> QED
        BY <1>7
    <3> QED
      BY <3>1
  <2>2. m \in Seq(Interval) /\ Separated(m) /\ s[i] \in Interval
    BY <1>4
       , <2>1 DEF MergedSoFar
  <2>3. \A k \in 1 .. Len(m) : m[k].start <= s[i].start
    <3> TAKE k \in 1 .. Len(m)
    <3>1. PICK j \in 1 .. i - 1 : m[k].start = s[j].start
      BY <2>1 DEF MergedSoFar
    <3>2. j \in 1 .. n /\ j < i
      OBVIOUS
    <3> QED
      BY <3>1, <3>2
  <2> DEFINE J == Joined(m, s[i])
  <2>4. /\ J \in Seq(Interval) /\ Separated(J)
        /\ \A t \in Int : In(t, J) <=> In(t, m) \/ Covers(s[i], t)
        /\ \A k \in 1 .. Len(J) :
             J[k].start = s[i].start \/ \E j \in 1 .. Len(m) : J[k].start = m[j].start
    BY <2>2, <2>3, JoinedIs
  <2>5. f[i] = J
    BY <1>5, <2>4
  <2> HIDE DEF J, m
  <2>6. \A t \in Int : In(t, J) <=> \E j \in 1 .. i : Covers(s[j], t)
    <3>1. 1 .. i = (1 .. i - 1) \cup {i}
      OBVIOUS
    <3> QED
      BY <2>1, <2>4, <3>1 DEF MergedSoFar
  <2>7. \A k \in 1 .. Len(J) : \E j \in 1 .. i : J[k].start = s[j].start
    <3> TAKE k \in 1 .. Len(J)
    <3>1. CASE J[k].start = s[i].start
      <4>1. i \in 1 .. i
        OBVIOUS
      <4> QED
        BY <3>1, <4>1, Zenon
    <3>2. CASE \E j \in 1 .. Len(m) : J[k].start = m[j].start
      <4>1. PICK j \in 1 .. Len(m) : J[k].start = m[j].start
        BY <3>2
      <4>2. PICK l \in 1 .. i - 1 : m[j].start = s[l].start
        BY <2>1 DEF MergedSoFar
      <4>3. l \in 1 .. i
        OBVIOUS
      <4> QED
        BY <4>1, <4>2, <4>3
    <3> QED
      BY <2>4, <3>1, <3>2
  <2>8. MergedSoFar(J, s, i)
    BY <2>4, <2>6, <2>7 DEF MergedSoFar
  <2>9. Good(i)
    BY <2>5, <2>8 DEF J, m
  <2> HIDE DEF Good
  <2> QED
    BY <2>9
<1> HIDE DEF G
<1>8. \A i \in 0 .. n : Good(i)
  <2>1. \A i \in 0 .. n : i \in G
    BY <1>6, <1>7, Rounds
  <2> HIDE DEF Good
  <2> QED
    BY <2>1 DEF G
<1>9. f = [i \in 0 .. Len(s) |-> IF i = 0 THEN <<>> ELSE Joined(f[i - 1], s[i])]
  <2>1. \A i \in 0 .. n : f[i] = IF i = 0 THEN <<>> ELSE Joined(f[i - 1], s[i])
    BY <1>3, <1>8
  <2> HIDE DEF Step
  <2> QED
    BY <2>1, <1>1
<1>10. upTo = [i \in 0 .. Len(s) |-> IF i = 0 THEN <<>> ELSE Joined(upTo[i - 1], s[i])]
  BY <1>9
<1> HIDE DEF upTo
<1> DEFINE H == {i \in 0 .. n : upTo[i] = f[i]}
<1>11. 0 \in H
  BY <1>1, <1>3, <1>10
<1>12. ASSUME NEW i \in 1 .. n, i - 1 \in H PROVE i \in H
  <2>1. i \in 0 .. Len(s) /\ i # 0
    BY <1>1
  <2>2. upTo[i] = Joined(upTo[i - 1], s[i])
    BY <1>10, <2>1
  <2>3. f[i] = Joined(f[i - 1], s[i])
    BY <1>8, <2>1, <1>1
  <2> QED
    BY <1>12, <2>2, <2>3
<1> HIDE DEF H
<1>13. \A i \in 0 .. n : i \in H
  BY <1>11, <1>12, Rounds
<1>14. merge(s) = f[n] /\ MergedSoFar(f[n], s, n)
  BY <1>2, <1>8, <1>13 DEF H
<1> QED
  BY <1>14 DEF MergedSoFar


\* The b of a set that starts last.
StartsLast(set, b) == b \in set /\ \A c \in set : c.start <= b.start

LEMMA LastStart ==
  ASSUME NEW set, set \subseteq Interval, IsFiniteSet(set), set # {}
  PROVE  \E b : StartsLast(set, b)
<1> DEFINE n == Cardinality(set)
           Good(k) == \A B \in SUBSET set : Cardinality(B) = k /\ B # {} => \E b : StartsLast(B, b)
           G == {k \in 0 .. n : Good(k)}
<1>1. n \in Nat
  BY FS_CardinalityType
<1>2. \A B \in SUBSET set : IsFiniteSet(B) /\ Cardinality(B) \in Nat /\ (Cardinality(B) = 0 <=> B = {})
  BY FS_Subset, FS_CardinalityType, FS_EmptySet
<1>3. Good(0)
  BY <1>2
<1>4. ASSUME NEW k \in 1 .. n, Good(k - 1) PROVE Good(k)
  <2> SUFFICES ASSUME NEW B \in SUBSET set, Cardinality(B) = k, B # {}
               PROVE  \E b : StartsLast(B, b)
    OBVIOUS
  <2>1. PICK x \in B : TRUE
    OBVIOUS
  <2> DEFINE C == B \ {x}
  <2>2. C \in SUBSET set /\ Cardinality(C) = k - 1
    BY <1>2, <2>1, FS_RemoveElement
  <2>3. x.start \in Int /\ \A c \in C : c.start \in Int
    BY DEF Interval
  <2>4. CASE C = {}
    <3>1. B = {x}
      BY <2>1, <2>4
    <3>2. StartsLast(B, x)
      BY <2>1, <2>3, <3>1 DEF StartsLast
    <3> QED
      BY <3>2
  <2>5. CASE C # {}
    <3>1. PICK y : StartsLast(C, y)
      <4> HIDE DEF C
      <4> QED
        BY <1>4, <2>2, <2>5
    <3>2. y \in B /\ y.start \in Int /\ \A c \in C : c.start <= y.start
      BY <2>3, <3>1 DEF StartsLast
    <3>3. CASE x.start <= y.start
      <4>1. StartsLast(B, y)
        BY <3>2, <3>3 DEF StartsLast
      <4> QED
        BY <4>1
    <3>4. CASE ~(x.start <= y.start)
      <4>1. \A c \in C : c.start <= x.start
        BY <2>3, <3>2, <3>4
      <4>2. StartsLast(B, x)
        BY <2>1, <2>3, <4>1 DEF StartsLast
      <4> QED
        BY <4>2
    <3> QED
      BY <3>3, <3>4
  <2> QED
    BY <2>4, <2>5
<1> HIDE DEF Good
<1>5. \A k \in 0 .. n : k \in G
  <2>1. 0 \in G
    BY <1>1, <1>3
  <2>2. \A k \in 1 .. n : k - 1 \in G => k \in G
    BY <1>1, <1>4
  <2> HIDE DEF G
  <2> QED
    BY <1>1, <2>1, <2>2, Rounds
<1>6. Good(n)
  BY <1>1, <1>5
<1> QED
  BY <1>6 DEF Good

\* An enumeration of a set by the starts.
Orders(s, set) ==
  /\ \A b \in set : \E i \in DOMAIN s : s[i] = b
  /\ \A i, j \in DOMAIN s : i < j => s[i].start <= s[j].start

\* inOrder() of a finite set.
LEMMA InOrderIs ==
  ASSUME NEW set, set \subseteq Interval, IsFiniteSet(set)
  PROVE  /\ Cardinality(set) \in Nat
         /\ inOrder(set) \in [1 .. Cardinality(set) -> set]
         /\ Orders(inOrder(set), set)
<1> DEFINE n == Cardinality(set)
           Ordered(k, B) == \E s \in [1 .. k -> B] : Orders(s, B)
           Good(k) == \A B \in SUBSET set : Cardinality(B) = k => Ordered(k, B)
           G == {k \in 0 .. n : Good(k)}
<1>1. n \in Nat
  BY FS_CardinalityType
<1>2. \A B \in SUBSET set : IsFiniteSet(B) /\ Cardinality(B) \in Nat /\ (Cardinality(B) = 0 <=> B = {})
  BY FS_Subset, FS_CardinalityType, FS_EmptySet
<1>3. Good(0)
  <2>1. Orders(<<>>, {}) /\ <<>> \in [1 .. 0 -> {}]
    BY DEF Orders
  <2>2. Ordered(0, {})
    BY <2>1
  <2> HIDE DEF Ordered
  <2> QED
    BY <1>2, <2>2
<1>4. ASSUME NEW k \in 1 .. n, Good(k - 1) PROVE Good(k)
  <2> SUFFICES ASSUME NEW B \in SUBSET set, Cardinality(B) = k
               PROVE  Ordered(k, B)
    OBVIOUS
  <2>1. B # {} /\ B \subseteq Interval /\ IsFiniteSet(B)
    BY <1>2
  <2>2. PICK x : StartsLast(B, x)
    BY <2>1, LastStart
  <2>3. x \in B /\ \A c \in B : c.start <= x.start
    BY <2>2 DEF StartsLast
  <2> DEFINE C == B \ {x}
  <2>4. C \in SUBSET set /\ Cardinality(C) = k - 1
    BY <2>1, <2>3, FS_RemoveElement
  <2>5. Ordered(k - 1, C)
    <3> HIDE DEF Ordered, C
    <3> QED
      BY <1>4, <2>4
  <2>6. PICK s \in [1 .. k - 1 -> C] : Orders(s, C)
    BY <2>5
  <2> DEFINE r == [i \in 1 .. k |-> IF i = k THEN x ELSE s[i]]
  <2>7. r[k] = x /\ \A i \in 1 .. k - 1 : r[i] = s[i] /\ s[i] \in C
    OBVIOUS
  <2>8. r \in [1 .. k -> B] /\ DOMAIN r = 1 .. k
    <3>1. \A i \in 1 .. k : r[i] \in B
      BY <2>3
    <3> QED
      BY <3>1
  <2> HIDE DEF r
  <2>9. ASSUME NEW b \in B PROVE \E i \in 1 .. k : r[i] = b
    <3>1. CASE b = x
      BY <2>7, <3>1
    <3>2. CASE b # x
      <4>1. PICK i \in 1 .. k - 1 : s[i] = b
        BY <2>6, <3>2 DEF Orders
      <4> QED
        BY <2>7, <4>1
    <3> QED
      BY <3>1, <3>2
  <2>10. ASSUME NEW i \in 1 .. k, NEW j \in 1 .. k, i < j PROVE r[i].start <= r[j].start
    <3>1. i \in 1 .. k - 1
      BY <2>10
    <3>2. CASE j = k
      BY <2>3, <2>7, <3>1, <3>2
    <3>3. CASE j # k
      <4>1. j \in 1 .. k - 1
        BY <3>3
      <4>2. s[i].start <= s[j].start
        BY <2>6, <2>10, <3>1, <4>1 DEF Orders
      <4> QED
        BY <2>7, <3>1, <4>1, <4>2
    <3> QED
      BY <3>2, <3>3
  <2>11. Orders(r, B)
    BY <2>8, <2>9, <2>10 DEF Orders
  <2> QED
    BY <2>8, <2>11
<1> HIDE DEF Good
<1>5. \A k \in 0 .. n : k \in G
  <2>1. 0 \in G
    BY <1>1, <1>3
  <2>2. \A k \in 1 .. n : k - 1 \in G => k \in G
    BY <1>1, <1>4
  <2> HIDE DEF G
  <2> QED
    BY <1>1, <2>1, <2>2, Rounds
<1>6. Good(n)
  BY <1>1, <1>5
<1>7. \E s \in [1 .. n -> set] : Orders(s, set)
  BY <1>6 DEF Good
<1> QED
  BY <1>1, <1>7 DEF inOrder, Orders

\* mergeBusy() of any finite set of intervals.
LEMMA MergeBusyIs ==
  ASSUME NEW busy, busy \subseteq Interval, IsFiniteSet(busy)
  PROVE  /\ mergeBusy(busy) \in Seq(Interval) /\ Separated(mergeBusy(busy))
         /\ \A t \in Int : In(t, mergeBusy(busy)) <=> \E b \in busy : Covers(b, t)
<1> DEFINE s == inOrder(busy)
           n == Cardinality(busy)
<1>1. n \in Nat /\ s \in [1 .. n -> busy] /\ Orders(s, busy)
  BY InOrderIs
<1> HIDE DEF s, n
<1>2. DOMAIN s = 1 .. n /\ s \in [1 .. n -> Interval]
  BY <1>1
<1>3. \A i, j \in 1 .. n : i < j => s[i].start <= s[j].start
  BY <1>1, <1>2 DEF Orders
<1>4. /\ merge(s) \in Seq(Interval) /\ Separated(merge(s))
      /\ \A t \in Int : In(t, merge(s)) <=> \E j \in 1 .. n : Covers(s[j], t)
  BY <1>1, <1>2, <1>3, MergeIs
<1>5. \A t \in Int : (\E j \in 1 .. n : Covers(s[j], t)) <=> \E b \in busy : Covers(b, t)
  <2>1. \A b \in busy : \E j \in 1 .. n : s[j] = b
    BY <1>1, <1>2 DEF Orders
  <2>2. \A j \in 1 .. n : s[j] \in busy
    BY <1>1
  <2> QED
    BY <2>1, <2>2
<1> QED
  BY <1>4, <1>5 DEF mergeBusy, s

-----------------------------------------------------------------------------
(* Clocks *)

LEMMA Reach ==
  ASSUME DayLength \in Nat \ {0}
  PROVE  SearchReach \in Nat /\ DayLength <= SearchReach
BY DEF SearchReach

\* instantAt(): the offset from before while that shows the time, then the one
\* afterwards, and the one from before for a time left out.
LEMMA InstantIs ==
  ASSUME DayLength \in Nat \ {0}, NEW z \in ZoneType, NEW h \in Int
  PROVE  instantAt(h, z) = IF h - z.from < z.at \/ h - z.to < z.at THEN h - z.from ELSE h - z.to
<1> DEFINE R == SearchReach
           a == z.at
           f == z.from
           g == z.to
           before == utcOffset(z, h - R)
           after == utcOffset(z, h + R)
           offsets == {before, after, utcOffset(z, h - before), utcOffset(z, h - after)}
           valid == {t \in {h - o : o \in offsets} : wallAt(t, z) = h}
<1>1. R \in Nat /\ DayLength <= R
  BY Reach
<1>2. a \in Int /\ f \in Int /\ g \in Int /\ f <= R /\ -R <= f /\ g <= R /\ -R <= g
  BY <1>1 DEF ZoneType
<1>3. instantAt(h, z) = IF valid # {} THEN CHOOSE t \in valid : \A u \in valid : t <= u ELSE h - before
  BY DEF instantAt
<1> HIDE DEF R
<1>4. \A t \in Int : utcOffset(z, t) = IF t < a THEN f ELSE g
  BY DEF utcOffset
<1> HIDE DEF a, f, g
<1>5. /\ before = IF h - R < a THEN f ELSE g
      /\ after = IF h + R < a THEN f ELSE g
      /\ utcOffset(z, h - f) = IF h - f < a THEN f ELSE g
      /\ utcOffset(z, h - g) = IF h - g < a THEN f ELSE g
  BY <1>1, <1>2, <1>4
<1>6. wallAt(h - f, z) = h <=> h - f < a \/ f = g
  BY <1>2, <1>5 DEF wallAt
<1>7. wallAt(h - g, z) = h <=> h - g >= a \/ f = g
  BY <1>2, <1>5 DEF wallAt
<1>8. ASSUME NEW v \in Int, valid = {v} PROVE instantAt(h, z) = v
  <2> HIDE DEF valid
  <2> QED
    BY <1>3, <1>8
<1>9. CASE h + R < a
  <2>1. before = f /\ after = f /\ h - f < a
    BY <1>1, <1>2, <1>5, <1>9
  <2>2. utcOffset(z, h - before) = f /\ utcOffset(z, h - after) = f
    BY <2>1, <1>5
  <2>3. offsets = {f}
    BY <2>1, <2>2
  <2>4. valid = {h - f}
    <3> HIDE DEF offsets
    <3> QED
      BY <2>1, <2>3, <1>6
  <2> QED
    BY <1>2, <1>8, <2>1, <2>4 DEF a, f, g
<1>10. CASE h - R >= a
  <2>1. before = g /\ after = g /\ h - g >= a /\ h - f >= a
    BY <1>1, <1>2, <1>5, <1>10
  <2>2. utcOffset(z, h - before) = g /\ utcOffset(z, h - after) = g
    BY <1>2, <2>1, <1>5
  <2>3. offsets = {g}
    BY <2>1, <2>2
  <2>4. valid = {h - g}
    <3> HIDE DEF offsets
    <3> QED
      BY <2>1, <2>3, <1>7
  <2>5. ~(h - f < a) /\ ~(h - g < a)
    BY <1>2, <2>1
  <2> QED
    BY <1>2, <1>8, <2>4, <2>5 DEF a, f, g
<1>11. CASE h - R < a /\ ~(h + R < a)
  <2>1. before = f /\ after = g
    BY <1>5, <1>11
  <2>2. offsets = {f, g}
    BY <2>1, <1>5
  <2>3. valid = {t \in {h - f, h - g} : wallAt(t, z) = h}
    <3> HIDE DEF offsets
    <3> QED
      BY <2>2
  <2> HIDE DEF offsets
  <2>4. CASE h - f < a /\ h - g >= a
    <3>1. valid = {h - f, h - g}
      BY <2>3, <2>4, <1>6, <1>7
    <3>2. h - f \in Int /\ h - g \in Int /\ h - f < h - g
      BY <1>2, <2>4
    <3> HIDE DEF valid
    <3>3. (CHOOSE t \in valid : \A u \in valid : t <= u) = h - f
      BY <3>1, <3>2
    <3> QED
      BY <1>3, <3>1, <3>3, <2>4 DEF a, f, g
  <2>5. CASE h - f < a /\ ~(h - g >= a)
    <3>1. valid = {h - f}
      BY <2>3, <2>5, <1>6, <1>7
    <3> QED
      BY <1>2, <1>8, <3>1, <2>5 DEF a, f, g
  <2>6. CASE ~(h - f < a) /\ h - g >= a
    <3>1. valid = {h - g}
      BY <2>3, <2>6, <1>6, <1>7
    <3>2. ~(h - g < a)
      BY <1>2, <2>6
    <3> QED
      BY <1>2, <1>8, <3>1, <3>2, <2>6 DEF a, f, g
  <2>7. CASE ~(h - f < a) /\ ~(h - g >= a)
    <3>1. f # g
      BY <1>2, <2>7
    <3>2. valid = {}
      BY <2>3, <2>7, <3>1, <1>6, <1>7
    <3>3. h - g < a
      BY <1>2, <2>7
    <3> HIDE DEF valid
    <3> QED
      BY <1>3, <2>1, <3>2, <3>3 DEF a, f, g
  <2> QED
    BY <2>4, <2>5, <2>6, <2>7
<1> QED
  BY <1>1, <1>2, <1>9, <1>10, <1>11

\* The clock shows an ordinary time, or a later one, from one instant on.
LEMMA Cut ==
  ASSUME DayLength \in Nat \ {0}, NEW z \in ZoneType, NEW h \in Int
  PROVE  /\ instantAt(h, z) \in Int
         /\ h - DayLength <= instantAt(h, z) /\ instantAt(h, z) <= h + DayLength
         /\ Ordinary(h, z) => \A t \in Int : t < instantAt(h, z) <=> wallAt(t, z) < h
<1>1. /\ z.at \in Int /\ z.from \in Int /\ z.to \in Int
      /\ z.from <= DayLength /\ -DayLength <= z.from /\ z.to <= DayLength /\ -DayLength <= z.to
  BY DEF ZoneType
<1>2. instantAt(h, z) = IF h - z.from < z.at \/ h - z.to < z.at THEN h - z.from ELSE h - z.to
  BY InstantIs
<1> DEFINE i == instantAt(h, z)
           l == DayLength
<1> HIDE DEF i, l
<1>3. i = IF h - z.from < z.at \/ h - z.to < z.at THEN h - z.from ELSE h - z.to
  BY <1>2 DEF i
<1>4. i \in Int /\ h - l <= i /\ i <= h + l
  <2>1. l \in Int /\ z.from <= l /\ -l <= z.from /\ z.to <= l /\ -l <= z.to
    BY <1>1 DEF l
  <2> QED
    BY <1>1, <1>3, <2>1
<1>5. ASSUME Ordinary(h, z), NEW t \in Int PROVE t < i <=> wallAt(t, z) < h
  <2>1. ~(h > z.at + Least(z.from, z.to) /\ h < z.at + Most(z.from, z.to))
    BY <1>5 DEF Ordinary
  <2> QED
    BY <1>1, <1>3, <2>1 DEF wallAt, utcOffset, Least, Most
<1> QED
  BY <1>4, <1>5 DEF i, l

-----------------------------------------------------------------------------
(* The events *)

LEMMA BusyIs ==
  ASSUME DayLength \in Nat \ {0}, NEW z \in ZoneType, NEW e \in EventType
  PROVE  /\ placed(e, e.from, z) \in Int /\ placed(e, e.to, z) \in Int
         /\ Busy(e, z) \in Interval
<1>1. e.from \in Int /\ e.to \in Int
  BY DEF EventType
<1>2. placed(e, e.from, z) \in Int /\ placed(e, e.to, z) \in Int
  BY <1>1, Cut DEF placed
<1> DEFINE start == placed(e, e.from, z)
           end == placed(e, e.to, z)
           till == IF end > start \/ e.from = e.to THEN end ELSE start + (e.to - e.from)
<1>3. Busy(e, z) = [start |-> start, end |-> till]
  BY DEF Busy
<1>4. till \in Int
  BY <1>1, <1>2
<1> HIDE DEF start, till
<1>5. Busy(e, z) \in Interval
  BY <1>2, <1>3, <1>4 DEF Interval, start
<1> QED
  BY <1>2, <1>5

LEMMA BusyTimesAre ==
  ASSUME DayLength \in Nat \ {0}, NEW z \in ZoneType, NEW evs, evs \subseteq EventType, IsFiniteSet(evs)
  PROVE  busyTimes(evs, z) \subseteq Interval /\ IsFiniteSet(busyTimes(evs, z))
<1> DEFINE D == {d \in evs : blocksTime(d) /\ d.from <= d.to}
           B == busyTimes(evs, z)
           F == [e \in D |-> Busy(e, z)]
<1>1. IsFiniteSet(D)
  BY FS_Subset
<1>2. B = {Busy(e, z) : e \in D}
  BY DEF busyTimes
<1>3. F \in Surjection(D, B)
  <2>1. F \in [D -> B] /\ \A b \in B : \E e \in D : F[e] = b
    BY <1>2
  <2> QED
    BY <2>1 DEF Surjection
<1>4. IsFiniteSet(B)
  <2> HIDE DEF D, B, F
  <2> QED
    BY <1>1, <1>3, FS_Surjection
<1> QED
  BY <1>2, <1>4, BusyIs

\* What EventsTakeTheirTime says of one event and its time.
TakesItsTime(e, z, b) ==
  /\ b.start < b.end
  /\ ~e.floating => b.start = e.from /\ b.end = e.to
  /\ e.floating /\ Ordinary(e.from, z) /\ Ordinary(e.to, z) =>
       LET shows == {t \in -Horizon .. Horizon : wallAt(t, z) \in e.from .. e.to - 1}
       IN  shows # {} => \A t \in -Horizon .. Horizon : Covers(b, t) <=> t \in shows

LEMMA TimeIsTaken ==
  ASSUME DayLength \in Nat \ {0}, Horizon \in Nat, NEW z \in ZoneType, NEW e \in EventType, e.from < e.to
  PROVE  TakesItsTime(e, z, Busy(e, z))
<1> DEFINE b == Busy(e, z)
           start == placed(e, e.from, z)
           end == placed(e, e.to, z)
           shows == {t \in -Horizon .. Horizon : wallAt(t, z) \in e.from .. e.to - 1}
<1>1. e.from \in Int /\ e.to \in Int
  BY DEF EventType
<1>2. start \in Int /\ end \in Int
  BY BusyIs
<1>3. b.start = start /\ b.end = IF end > start \/ e.from = e.to THEN end ELSE start + (e.to - e.from)
  BY DEF Busy
<1>4. b.start < b.end
  <2> HIDE DEF b, start, end
  <2> QED
    BY <1>1, <1>2, <1>3
<1>5. ~e.floating => start = e.from /\ end = e.to
  BY DEF placed
<1>6. ASSUME e.floating, Ordinary(e.from, z), Ordinary(e.to, z), shows # {},
             NEW t \in -Horizon .. Horizon
      PROVE  Covers(b, t) <=> t \in shows
  <2>1. start = instantAt(e.from, z) /\ end = instantAt(e.to, z)
    BY <1>6 DEF placed
  <2>2. \A u \in Int : /\ u < start <=> wallAt(u, z) < e.from
                       /\ u < end <=> wallAt(u, z) < e.to
    BY <1>1, <1>6, <2>1, Cut
  <2>3. \A u \in Int : wallAt(u, z) \in Int
    BY DEF wallAt, utcOffset, ZoneType
  <2>4. \A u \in -Horizon .. Horizon : u \in shows <=> start <= u /\ u < end
    <3> TAKE u \in -Horizon .. Horizon
    <3> u \in Int
      OBVIOUS
    <3>1. u \in shows <=> e.from <= wallAt(u, z) /\ wallAt(u, z) < e.to
      BY <1>1, <2>3
    <3> HIDE DEF start, end, shows
    <3> QED
      BY <1>1, <1>2, <2>2, <2>3, <3>1
  <2>5. end > start
    <3>1. PICK u \in -Horizon .. Horizon : u \in shows
      BY <1>6
    <3> u \in Int
      OBVIOUS
    <3> HIDE DEF start, end, shows
    <3> QED
      BY <1>2, <2>4, <3>1
  <2> HIDE DEF start, end, shows, b
  <2> QED
    BY <1>3, <2>4, <2>5 DEF Covers
<1>7. (~e.floating) => (b.start = e.from /\ b.end = e.to)
  <2> HIDE DEF b, start, end
  <2> QED
    BY <1>1, <1>3, <1>5
<1> QED
  BY <1>4, <1>6, <1>7 DEF TakesItsTime

-----------------------------------------------------------------------------
(* What is open, and the list of it *)

\* A stretch of open instants that is long enough and as long as it goes on.
Stretch(open, length, g) ==
  /\ g \in Interval /\ g.end - g.start >= length
  /\ \A t \in Int : g.start <= t /\ t < g.end => t \in open
  /\ g.start - 1 \notin open /\ g.end \notin open

\* free lists those that end by x, in order.
Listed(open, length, free, x) ==
  /\ free \in Seq(Interval)
  /\ \A k \in 1 .. Len(free) : Stretch(open, length, free[k]) /\ free[k].end <= x
  /\ \A k, l \in 1 .. Len(free) : k < l => free[k].end < free[l].start
  /\ \A g \in Interval : Stretch(open, length, g) /\ g.end <= x => \E k \in 1 .. Len(free) : free[k] = g

LEMMA StretchSo ==
  ASSUME NEW open, NEW length \in Nat \ {0}, NEW g, Stretch(open, length, g)
  PROVE  /\ g \in Interval /\ g.start \in Int /\ g.end \in Int /\ g.start < g.end
         /\ g.end - g.start >= length
         /\ g.end - 1 \in open /\ g.start \in open
         /\ g.start - 1 \notin open /\ g.end \notin open
<1>1. g \in Interval /\ g.start \in Int /\ g.end \in Int /\ g.end - g.start >= length
  BY DEF Stretch, Interval
<1>2. g.start < g.end
  BY <1>1
<1> QED
  BY <1>1, <1>2 DEF Stretch

LEMMA ListedSo ==
  ASSUME NEW open, NEW length \in Nat \ {0}, NEW free, NEW x \in Int, Listed(open, length, free, x),
         NEW k \in 1 .. Len(free)
  PROVE  /\ Stretch(open, length, free[k]) /\ free[k] \in Interval
         /\ free[k].start \in Int /\ free[k].end \in Int
         /\ free[k].start < free[k].end /\ free[k].end <= x
<1>1. Stretch(open, length, free[k]) /\ free[k].end <= x
  BY DEF Listed
<1> QED
  BY <1>1, StretchSo

\* Over instants none of which is open the list stays.
LEMMA Nothing ==
  ASSUME NEW open, NEW length \in Nat \ {0}, NEW free, NEW x \in Int, NEW y \in Int, x <= y,
         Listed(open, length, free, x), \A t \in Int : x <= t /\ t < y => t \notin open
  PROVE  Listed(open, length, free, y)
<1>1. ASSUME NEW k \in 1 .. Len(free) PROVE Stretch(open, length, free[k]) /\ free[k].end <= y
  <2>1. free[k].end \in Int /\ free[k].end <= x /\ Stretch(open, length, free[k])
    BY ListedSo
  <2> QED
    BY <2>1
<1>2. ASSUME NEW g \in Interval, Stretch(open, length, g), g.end <= y
      PROVE  \E k \in 1 .. Len(free) : free[k] = g
  <2>1. g.end \in Int /\ g.end - 1 \in open
    BY <1>2, StretchSo
  <2>2. g.end <= x
    <3>1. ~(x <= g.end - 1 /\ g.end - 1 < y)
      BY <2>1
    <3> QED
      BY <1>2, <2>1, <3>1
  <2> QED
    BY <1>2, <2>2 DEF Listed
<1> QED
  BY <1>1, <1>2 DEF Listed

\* After open instants that end at y it has their stretch too, when that is
\* long enough.
LEMMA OneMore ==
  ASSUME NEW open, NEW length \in Nat \ {0}, NEW free, NEW x \in Int, NEW y \in Int, x <= y,
         Listed(open, length, free, x), x - 1 \notin open, y \notin open,
         \A t \in Int : x <= t /\ t < y => t \in open
  PROVE  Listed(open, length, Gap(free, x, y, length), y)
<1> DEFINE gap == [start |-> x, end |-> y]
<1>1. gap \in Interval /\ gap.start = x /\ gap.end = y
  BY DEF Interval
<1> HIDE DEF gap
<1>2. free \in Seq(Interval)
  BY DEF Listed
<1>3. ASSUME NEW g \in Interval, Stretch(open, length, g), g.end <= y, ~(g.end <= x)
      PROVE  g = gap /\ y - x >= length
  <2>1. /\ g.start \in Int /\ g.end \in Int /\ g.start < g.end /\ g.end - g.start >= length
        /\ g.start - 1 \notin open /\ g.end \notin open
    BY <1>3, StretchSo
  <2>2. g.end = y
    <3>1. ~(x <= g.end /\ g.end < y)
      BY <2>1
    <3> QED
      BY <1>3, <2>1, <3>1
  <2>3. g.start <= x
    <3>1. ~(x <= g.start - 1 /\ g.start - 1 < y)
      BY <2>1
    <3> QED
      BY <2>1, <2>2, <3>1
  <2>4. g.start >= x
    <3>1. ~(g.start <= x - 1 /\ x - 1 < g.end)
      BY <1>3 DEF Stretch
    <3> QED
      BY <1>3, <2>1, <3>1
  <2>5. g.start = x
    BY <2>1, <2>3, <2>4
  <2> QED
    BY <2>1, <2>2, <2>5 DEF Interval, gap
<1>4. CASE y - x >= length
  <2> DEFINE more == Append(free, gap)
             n == Len(free)
  <2>1. Gap(free, x, y, length) = more
    BY <1>4 DEF Gap, gap
  <2>2. /\ n \in Nat /\ more \in Seq(Interval) /\ Len(more) = n + 1
        /\ more[n + 1] = gap /\ \A k \in 1 .. n : more[k] = free[k]
    BY <1>1, <1>2, AppendProperties
  <2> HIDE DEF more
  <2>3. x < y
    BY <1>4
  <2>4. Stretch(open, length, gap)
    BY <1>1, <1>4 DEF Stretch
  <2>5. ASSUME NEW k \in 1 .. n PROVE free[k].end < x /\ Stretch(open, length, free[k]) /\ free[k].end \in Int
    <3>1. free[k].end \in Int /\ free[k].end <= x /\ free[k].end \notin open /\ Stretch(open, length, free[k])
      BY ListedSo, StretchSo
    <3>2. x \in open
      BY <2>3
    <3> QED
      BY <3>1, <3>2
  <2>6. ASSUME NEW k \in 1 .. n + 1 PROVE Stretch(open, length, more[k]) /\ more[k].end <= y
    <3>1. CASE k = n + 1
      BY <3>1, <1>1, <2>2, <2>4
    <3>2. CASE k # n + 1
      <4>1. k \in 1 .. n
        BY <2>2, <3>2
      <4>2. more[k] = free[k] /\ free[k].end < x /\ Stretch(open, length, free[k]) /\ free[k].end \in Int
        BY <2>2, <2>5, <4>1
      <4> QED
        BY <4>2
    <3> QED
      BY <3>1, <3>2
  <2>7. ASSUME NEW k \in 1 .. n + 1, NEW l \in 1 .. n + 1, k < l PROVE more[k].end < more[l].start
    <3>1. k \in 1 .. n /\ more[k] = free[k]
      BY <2>2, <2>7
    <3>2. CASE l = n + 1
      BY <3>1, <3>2, <1>1, <2>2, <2>5
    <3>3. CASE l # n + 1
      <4>1. l \in 1 .. n /\ more[l] = free[l]
        BY <2>2, <3>3
      <4> QED
        BY <2>7, <3>1, <4>1 DEF Listed
    <3> QED
      BY <3>2, <3>3
  <2>8. ASSUME NEW g \in Interval, Stretch(open, length, g), g.end <= y
        PROVE  \E k \in 1 .. n + 1 : more[k] = g
    <3>1. CASE g.end <= x
      <4>1. PICK k \in 1 .. n : free[k] = g
        BY <2>8, <3>1 DEF Listed
      <4>2. k \in 1 .. n + 1
        BY <2>2
      <4> QED
        BY <2>2, <4>1, <4>2
    <3>2. CASE ~(g.end <= x)
      <4>1. n + 1 \in 1 .. n + 1
        BY <2>2
      <4> QED
        BY <1>3, <2>2, <2>8, <3>2, <4>1
    <3> QED
      BY <3>1, <3>2
  <2> QED
    BY <2>1, <2>2, <2>6, <2>7, <2>8 DEF Listed
<1>5. CASE ~(y - x >= length)
  <2>1. Gap(free, x, y, length) = free
    BY <1>5 DEF Gap
  <2>2. ASSUME NEW k \in 1 .. Len(free) PROVE Stretch(open, length, free[k]) /\ free[k].end <= y
    <3>1. free[k].end \in Int /\ free[k].end <= x /\ Stretch(open, length, free[k])
      BY ListedSo
    <3> QED
      BY <3>1
  <2>3. ASSUME NEW g \in Interval, Stretch(open, length, g), g.end <= y
        PROVE  \E k \in 1 .. Len(free) : free[k] = g
    <3>1. g.end <= x
      BY <1>3, <1>5, <2>3
    <3> QED
      BY <2>3, <3>1 DEF Listed
  <2> QED
    BY <1>2, <2>1, <2>2, <2>3 DEF Listed
<1> QED
  BY <1>4, <1>5

\* A window's open instants are those that busy leaves of it, and it has no open
\* neighbour.
Leaves(w, busy, open) ==
  /\ w \in Interval /\ w.start < w.end
  /\ w.start - 1 \notin open /\ w.end \notin open
  /\ \A t \in Int : Covers(w, t) /\ ~In(t, busy) => t \in open
  /\ \A t \in Int : In(t, busy) => t \notin open

\* A walk through a window and what it has done.
WalkType == [cursor : Int, free : Seq(Interval)]

Walked(walk, w, busy, open, length, i) ==
  /\ walk \in WalkType /\ w.start <= walk.cursor
  /\ walk.cursor < w.end =>
       /\ walk.cursor - 1 \notin open
       /\ \A k \in 1 .. i : busy[k].end <= walk.cursor \/ busy[k].start >= w.end
  /\ Listed(open, length, walk.free, Least(walk.cursor, w.end))

\* An open stretch goes as far as the next interval, or the end of the window.
LEMMA OpenUntil ==
  ASSUME NEW busy \in Seq(Interval), Separated(busy), NEW open, NEW w, Leaves(w, busy, open),
         NEW i \in 1 .. Len(busy) + 1, NEW c \in Int, w.start <= c,
         \A k \in 1 .. i - 1 : busy[k].end <= c \/ busy[k].start >= w.end,
         NEW t \in Int, c <= t, t < w.end, i <= Len(busy) => t < busy[i].start
  PROVE  t \in open
<1>1. DOMAIN busy = 1 .. Len(busy) /\ Len(busy) \in Nat
  OBVIOUS
<1>2. Covers(w, t)
  BY DEF Covers, Leaves, Interval
<1>3. ~In(t, busy)
  <2> SUFFICES ASSUME NEW k \in 1 .. Len(busy), Covers(busy[k], t) PROVE FALSE
    BY <1>1 DEF In
  <2>1. busy[k].start \in Int /\ busy[k].end \in Int /\ busy[k].start <= t /\ t < busy[k].end
    BY <1>1, SeparatedSo DEF Covers
  <2>2. CASE k < i
    <3>1. w.end \in Int
      BY DEF Leaves, Interval
    <3>2. k \in 1 .. i - 1
      BY <2>2
    <3>3. busy[k].end <= c \/ busy[k].start >= w.end
      BY <3>2
    <3> QED
      BY <2>1, <3>1, <3>3
  <2>3. CASE ~(k < i)
    <3>1. i \in 1 .. Len(busy) /\ t < busy[i].start
      BY <1>1, <2>3
    <3>2. busy[i].start \in Int /\ busy[i].end \in Int /\ busy[i].start < busy[i].end
      BY <3>1, SeparatedSo
    <3>3. CASE i = k
      BY <2>1, <3>1, <3>3
    <3>4. CASE i # k
      <4>1. i < k
        BY <2>3, <3>4, <3>1
      <4>2. busy[i].end < busy[k].start
        BY <3>1, <4>1, SeparatedSo
      <4> QED
        BY <2>1, <3>1, <3>2, <4>2
    <3> QED
      BY <3>3, <3>4
  <2> QED
    BY <2>2, <2>3
<1> QED
  BY <1>2, <1>3 DEF Leaves

LEMMA PassedIs ==
  ASSUME NEW length \in Nat \ {0}, NEW busy \in Seq(Interval), Separated(busy),
         NEW open, NEW w, Leaves(w, busy, open),
         NEW i \in 1 .. Len(busy), NEW walk, Walked(walk, w, busy, open, length, i - 1)
  PROVE  Walked(Passed(walk, busy[i], w, length), w, busy, open, length, i)
<1> DEFINE b == busy[i]
           c == walk.cursor
           f == walk.free
           after == Passed(walk, b, w, length)
<1>1. /\ b.start \in Int /\ b.end \in Int /\ b.start < b.end
      /\ \A t \in Int : b.start <= t /\ t < b.end => t \notin open
  <2>1. DOMAIN busy = 1 .. Len(busy)
    OBVIOUS
  <2> QED
    BY <2>1, SeparatedSo DEF Leaves, In, Covers
<1>2. /\ walk \in WalkType /\ c \in Int /\ f \in Seq(Interval) /\ w.start <= c
      /\ c < w.end => c - 1 \notin open
      /\ c < w.end => \A k \in 1 .. i - 1 : busy[k].end <= c \/ busy[k].start >= w.end
      /\ Listed(open, length, f, Least(c, w.end))
  BY DEF Walked, WalkType
<1>3. w.start \in Int /\ w.end \in Int /\ w.end \notin open
  BY DEF Leaves, Interval
<1>4. 1 .. i = (1 .. i - 1) \cup {i}
  OBVIOUS
<1>5. CASE b.end <= c \/ b.start >= w.end \/ c >= w.end
  <2>1. after = walk
    BY <1>5 DEF Passed
  <2>2. c < w.end => \A k \in 1 .. i : busy[k].end <= c \/ busy[k].start >= w.end
    <3> SUFFICES ASSUME c < w.end, NEW k \in 1 .. i PROVE busy[k].end <= c \/ busy[k].start >= w.end
      OBVIOUS
    <3>1. CASE k = i
      <4>1. ~(c >= w.end)
        BY <1>2, <1>3
      <4> QED
        BY <1>5, <3>1, <4>1
    <3>2. CASE k # i
      <4>1. k \in 1 .. i - 1
        BY <3>2
      <4> QED
        BY <1>2, <4>1
    <3> QED
      BY <3>1, <3>2
  <2> QED
    BY <1>2, <2>1, <2>2 DEF Walked
<1>6. CASE ~(b.end <= c \/ b.start >= w.end \/ c >= w.end)
  <2> DEFINE g == Gap(f, c, b.start, length)
             d == Most(c, b.end)
             y == Least(d, w.end)
  <2>1. after = [cursor |-> d, free |-> g]
    BY <1>6 DEF Passed
  <2>2. d = b.end /\ c < b.end /\ c < w.end /\ b.start < w.end
    BY <1>1, <1>2, <1>3, <1>6 DEF Most
  <2>3. Listed(open, length, f, c) /\ c - 1 \notin open
    <3>1. Least(c, w.end) = c
      BY <2>2 DEF Least
    <3> QED
      BY <1>2, <2>2, <3>1
  <2>4. y \in Int /\ c <= y /\ y <= b.end /\ b.start <= y
    BY <1>1, <1>2, <1>3, <2>2 DEF Least
  <2>5. Listed(open, length, g, y)
    <3> HIDE DEF y, b, c, f, g
    <3>1. CASE b.start <= c
      <4>1. ~(b.start - c >= length)
        BY <1>1, <1>2, <3>1
      <4>2. g = f
        BY <4>1 DEF Gap, g
      <4>3. \A t \in Int : c <= t /\ t < y => t \notin open
        <5> TAKE t \in Int
        <5>1. c <= t /\ t < y => b.start <= t /\ t < b.end
          BY <1>1, <1>2, <2>4, <3>1
        <5> QED
          BY <1>1, <5>1
      <4> QED
        BY <1>2, <2>3, <2>4, <4>2, <4>3, Nothing
    <3>2. CASE ~(b.start <= c)
      <4>1. \A t \in Int : c <= t /\ t < b.start => t \in open
        <5> SUFFICES ASSUME NEW t \in Int, c <= t, t < b.start PROVE t \in open
          OBVIOUS
        <5>1. i \in 1 .. Len(busy) + 1 /\ t < w.end /\ t < busy[i].start
          BY <1>1, <1>3, <2>2 DEF b
        <5>2. \A k \in 1 .. i - 1 : busy[k].end <= c \/ busy[k].start >= w.end
          BY <1>2, <2>2
        <5> QED
          BY <1>2, <5>1, <5>2, OpenUntil
      <4>2. b.start \notin open /\ c <= b.start
        BY <1>1, <1>2, <3>2
      <4>3. Listed(open, length, g, b.start)
        BY <1>1, <1>2, <2>3, <4>1, <4>2, OneMore DEF g
      <4>4. \A t \in Int : b.start <= t /\ t < y => t \notin open
        <5> TAKE t \in Int
        <5>1. b.start <= t /\ t < y => t < b.end
          BY <1>1, <2>4
        <5> QED
          BY <1>1, <5>1
      <4> QED
        BY <1>1, <2>4, <4>3, <4>4, Nothing
    <3> QED
      BY <3>1, <3>2
  <2>6. after.cursor = d /\ after.free = g
    BY <2>1
  <2>7. after \in WalkType
    <3>1. g \in Seq(Interval) /\ d \in Int
      BY <1>1, <2>2, <2>5 DEF Listed
    <3> HIDE DEF g, d
    <3> QED
      BY <2>1, <3>1 DEF WalkType
  <2> HIDE DEF after, g, y
  <2>8. w.start <= d /\ d - 1 \notin open
    <3> DEFINE t == d - 1
    <3>1. t \in Int /\ b.start <= t /\ t < b.end /\ w.start <= d
      <4>1. d \in Int /\ d = b.end /\ b.start \in Int /\ b.start < b.end
        BY <1>1, <2>2
      <4>2. w.start \in Int /\ c \in Int /\ w.start <= c /\ c < d
        BY <1>2, <1>3, <2>2
      <4> HIDE DEF b, c, d
      <4> QED
        BY <4>1, <4>2
    <3> HIDE DEF t
    <3>2. t \notin open
      BY <1>1, <3>1
    <3> QED
      BY <3>1, <3>2 DEF t
  <2>9. \A k \in 1 .. i : busy[k].end <= d \/ busy[k].start >= w.end
    <3> TAKE k \in 1 .. i
    <3>1. k \in 1 .. Len(busy) /\ busy[k].end \in Int /\ busy[k].start \in Int
      BY SeparatedSo
    <3>2. CASE k = i
      BY <1>1, <2>2, <3>2
    <3>3. CASE k # i
      <4>1. k \in 1 .. i - 1
        BY <3>3
      <4>2. busy[k].end <= c \/ busy[k].start >= w.end
        BY <1>2, <2>2, <4>1
      <4> HIDE DEF b, c, d
      <4> QED
        BY <1>1, <1>2, <1>3, <2>2, <3>1, <4>2
    <3> QED
      BY <3>2, <3>3
  <2> QED
    BY <2>5, <2>6, <2>7, <2>8, <2>9 DEF Walked, y, after
<1> QED
  BY <1>5, <1>6

\* slotsIn() adds the slots of one window.
LEMMA SlotsInIs ==
  ASSUME NEW length \in Nat \ {0}, NEW busy \in Seq(Interval), Separated(busy),
         NEW open, NEW w, Leaves(w, busy, open),
         NEW free, Listed(open, length, free, w.start)
  PROVE  Listed(open, length, slotsIn(free, w, busy, length), w.end)
<1> DEFINE n == Len(busy)
           base == [cursor |-> w.start, free |-> free]
           walk == CHOOSE f : f = [i \in 0 .. Len(busy) |->
                                     IF i = 0 THEN base ELSE Passed(f[i - 1], busy[i], w, length)]
           Step == [i \in 1 .. n |-> [p \in WalkType |->
                      IF Passed(p, busy[i], w, length) \in WalkType THEN Passed(p, busy[i], w, length) ELSE base]]
<1>1. n \in Nat /\ w \in Interval /\ w.start \in Int /\ w.end \in Int /\ w.start < w.end
  BY DEF Leaves, Interval
<1>2. slotsIn(free, w, busy, length) = Gap(walk[n].free, walk[n].cursor, w.end, length)
  BY DEF slotsIn
<1>3. base \in WalkType /\ base.cursor = w.start /\ base.free = free
  BY <1>1 DEF WalkType, Listed
<1> HIDE DEF base, n
<1>4. PICK f \in [0 .. n -> WalkType] : f[0] = base /\ \A i \in 1 .. n : f[i] = Step[i][f[i - 1]]
  <2>1. Step \in [1 .. n -> [WalkType -> WalkType]]
    BY <1>3
  <2> HIDE DEF Step
  <2>2. HasCourse(n, WalkType, base, Step)
    BY <1>1, <1>3, <2>1, Course DEF Steps
  <2> QED
    BY <2>2 DEF HasCourse
<1>5. \A i \in 1 .. n : f[i - 1] \in WalkType
  BY <1>1, <1>4
<1>6. \A i \in 1 .. n :
        f[i] = IF Passed(f[i - 1], busy[i], w, length) \in WalkType THEN Passed(f[i - 1], busy[i], w, length) ELSE base
  BY <1>4, <1>5
<1> HIDE DEF Step
<1> DEFINE Good(i) == /\ Walked(f[i], w, busy, open, length, i)
                      /\ i > 0 => f[i] = Passed(f[i - 1], busy[i], w, length)
           G == {i \in 0 .. n : Good(i)}
<1>7. 0 \in G
  <2>1. Least(w.start, w.end) = w.start
    BY <1>1 DEF Least
  <2>2. Walked(base, w, busy, open, length, 0)
    BY <1>1, <1>3, <2>1 DEF Walked, Leaves
  <2>3. Good(0)
    BY <1>4, <2>2
  <2> HIDE DEF Good
  <2> QED
    BY <1>1, <2>3
<1>8. ASSUME NEW i \in 1 .. n, i - 1 \in G PROVE i \in G
  <2>1. Walked(f[i - 1], w, busy, open, length, i - 1)
    <3>1. Good(i - 1)
      <4> HIDE DEF Good
      <4> QED
        BY <1>8
    <3> QED
      BY <3>1
  <2> DEFINE after == Passed(f[i - 1], busy[i], w, length)
  <2>2. Walked(after, w, busy, open, length, i)
    BY <1>8, <2>1, PassedIs DEF n
  <2>3. f[i] = after
    BY <1>6, <1>8, <2>2 DEF Walked
  <2> HIDE DEF after
  <2>4. Good(i)
    BY <2>2, <2>3 DEF after
  <2> HIDE DEF Good
  <2> QED
    BY <2>4
<1> HIDE DEF G
<1>9. \A i \in 0 .. n : Good(i)
  <2>1. \A i \in 0 .. n : i \in G
    BY <1>1, <1>7, <1>8, Rounds
  <2> HIDE DEF Good
  <2> QED
    BY <2>1 DEF G
<1>10. f = [i \in 0 .. n |-> IF i = 0 THEN base ELSE Passed(f[i - 1], busy[i], w, length)]
  <2>1. \A i \in 0 .. n : f[i] = IF i = 0 THEN base ELSE Passed(f[i - 1], busy[i], w, length)
    BY <1>1, <1>4, <1>9
  <2> QED
    BY <2>1
<1>11. walk = [i \in 0 .. n |-> IF i = 0 THEN base ELSE Passed(walk[i - 1], busy[i], w, length)]
  BY <1>10 DEF n
<1> HIDE DEF walk
<1> DEFINE H == {i \in 0 .. n : walk[i] = f[i]}
<1>12. 0 \in H
  BY <1>1, <1>4, <1>11
<1>13. ASSUME NEW i \in 1 .. n, i - 1 \in H PROVE i \in H
  <2>1. i \in 0 .. n /\ i # 0
    BY <1>1
  <2>2. walk[i] = Passed(walk[i - 1], busy[i], w, length)
    BY <1>11, <2>1
  <2>3. f[i] = Passed(f[i - 1], busy[i], w, length)
    BY <1>9, <2>1, <1>1
  <2> QED
    BY <1>13, <2>2, <2>3
<1> HIDE DEF H
<1>14. walk[n] = f[n] /\ Walked(f[n], w, busy, open, length, n)
  <2>1. \A i \in 0 .. n : i \in H
    BY <1>1, <1>12, <1>13, Rounds
  <2> QED
    BY <1>1, <1>9, <2>1 DEF H
<1> DEFINE c == f[n].cursor
           l == f[n].free
<1>15. /\ c \in Int /\ w.start <= c /\ Listed(open, length, l, Least(c, w.end))
       /\ c < w.end => c - 1 \notin open
       /\ c < w.end => \A k \in 1 .. n : busy[k].end <= c \/ busy[k].start >= w.end
  BY <1>14 DEF Walked, WalkType
<1>16. slotsIn(free, w, busy, length) = Gap(l, c, w.end, length)
  BY <1>2, <1>14
<1> HIDE DEF c, l
<1>17. CASE c >= w.end
  <2>1. ~(w.end - c >= length) /\ Least(c, w.end) = w.end
    BY <1>1, <1>15, <1>17 DEF Least
  <2>2. Gap(l, c, w.end, length) = l
    BY <2>1 DEF Gap
  <2> QED
    BY <1>15, <1>16, <2>1, <2>2
<1>18. CASE ~(c >= w.end)
  <2>1. c < w.end /\ Least(c, w.end) = c
    BY <1>1, <1>15, <1>18 DEF Least
  <2>2. \A t \in Int : c <= t /\ t < w.end => t \in open
    <3> SUFFICES ASSUME NEW t \in Int, c <= t, t < w.end PROVE t \in open
      OBVIOUS
    <3>1. Len(busy) + 1 \in 1 .. Len(busy) + 1 /\ ~(Len(busy) + 1 <= Len(busy))
      BY <1>1 DEF n
    <3>2. \A k \in 1 .. (Len(busy) + 1) - 1 : busy[k].end <= c \/ busy[k].start >= w.end
      BY <1>1, <1>15, <2>1 DEF n
    <3> QED
      BY <1>15, <3>1, <3>2, OpenUntil
  <2>3. w.end \notin open
    BY DEF Leaves
  <2> QED
    BY <1>1, <1>15, <1>16, <2>1, <2>2, <2>3, OneMore
<1> QED
  BY <1>17, <1>18

\* After the i-th window and before the next.
Between(m, i, x) ==
  /\ i > 0 => m[i].end <= x
  /\ i < Len(m) => x <= m[i + 1].start

LEMMA Outside ==
  ASSUME NEW m \in Seq(Interval), Separated(m), NEW k \in 0 .. Len(m), NEW t \in Int, Between(m, k, t),
         k < Len(m) => t < m[k + 1].start
  PROVE  ~In(t, m)
<1>1. DOMAIN m = 1 .. Len(m) /\ Len(m) \in Nat
  OBVIOUS
<1> SUFFICES ASSUME NEW j \in 1 .. Len(m), Covers(m[j], t) PROVE FALSE
  BY <1>1 DEF In
<1>2. m[j].start \in Int /\ m[j].end \in Int /\ m[j].start <= t /\ t < m[j].end
  BY SeparatedSo DEF Covers
<1>3. CASE j <= k
  <2>1. k \in 1 .. Len(m) /\ m[k].end <= t
    BY <1>1, <1>3 DEF Between
  <2>2. m[k].start \in Int /\ m[k].end \in Int /\ m[k].start < m[k].end
    BY <2>1, SeparatedSo
  <2>3. CASE j = k
    BY <1>2, <2>1, <2>3
  <2>4. CASE j # k
    <3>1. j < k
      BY <1>3, <2>4
    <3>2. m[j].end < m[k].start
      BY <2>1, <3>1, SeparatedSo
    <3> QED
      BY <1>2, <2>1, <2>2, <3>2
  <2> QED
    BY <2>3, <2>4
<1>4. CASE ~(j <= k)
  <2>1. k + 1 \in 1 .. Len(m) /\ t < m[k + 1].start
    BY <1>1, <1>4
  <2> DEFINE l == k + 1
  <2> HIDE DEF l
  <2>2. l \in 1 .. Len(m) /\ t < m[l].start
    BY <2>1 DEF l
  <2>3. m[l].start \in Int /\ m[l].end \in Int /\ m[l].start < m[l].end
    BY <2>2, SeparatedSo
  <2>4. CASE j = l
    BY <1>2, <2>2, <2>3, <2>4
  <2>5. CASE j # l
    <3>1. l < j
      BY <1>4, <2>5 DEF l
    <3>2. m[l].end < m[j].start
      BY <2>2, <3>1, SeparatedSo
    <3> QED
      BY <1>2, <2>2, <2>3, <3>2
  <2> QED
    BY <2>4, <2>5
<1> QED
  BY <1>3, <1>4

\* What is in a window and not busy.
OpenIn(windows, busy) == {t \in Int : In(t, windows) /\ ~In(t, busy)}

LEMMA WindowLeaves ==
  ASSUME NEW m \in Seq(Interval), Separated(m), NEW busy, NEW k \in 1 .. Len(m)
  PROVE  Leaves(m[k], busy, OpenIn(m, busy))
<1>1. DOMAIN m = 1 .. Len(m) /\ Len(m) \in Nat
  OBVIOUS
<1>2. m[k] \in Interval /\ m[k].start \in Int /\ m[k].end \in Int /\ m[k].start < m[k].end
  BY SeparatedSo
<1>3. ~In(m[k].start - 1, m)
  <2> DEFINE p == k - 1
             t == m[k].start - 1
  <2>1. p \in 0 .. Len(m) /\ t \in Int /\ p + 1 = k
    BY <1>2
  <2>2. p > 0 => m[p].end <= t
    <3> SUFFICES ASSUME p > 0 PROVE m[p].end <= t
      OBVIOUS
    <3>1. p \in 1 .. Len(m) /\ p < k
      BY <2>1
    <3> HIDE DEF p
    <3>2. m[p].end < m[k].start /\ m[p].end \in Int
      BY <3>1, SeparatedSo
    <3> QED
      BY <1>2, <3>2
  <2> HIDE DEF p
  <2>3. t < m[p + 1].start /\ t <= m[p + 1].start
    BY <1>2, <2>1
  <2> HIDE DEF t
  <2>4. ~In(t, m)
    BY <2>1, <2>2, <2>3, Outside DEF Between
  <2> QED
    BY <2>4 DEF t
<1>4. ~In(m[k].end, m)
  <2> DEFINE t == m[k].end
  <2>1. k < Len(m) => t < m[k + 1].start
    <3> SUFFICES ASSUME k < Len(m) PROVE t < m[k + 1].start
      OBVIOUS
    <3>1. k + 1 \in 1 .. Len(m) /\ k < k + 1
      BY <1>1
    <3> QED
      BY <3>1, SeparatedSo
  <2>2. k < Len(m) => m[k + 1].start \in Int
    <3> SUFFICES ASSUME k < Len(m) PROVE m[k + 1].start \in Int
      OBVIOUS
    <3>1. k + 1 \in 1 .. Len(m)
      BY <1>1
    <3> QED
      BY <3>1, SeparatedSo
  <2>3. t \in Int /\ m[k].end <= t /\ k \in 0 .. Len(m)
    BY <1>1, <1>2
  <2> HIDE DEF t
  <2>4. ~In(t, m)
    BY <2>1, <2>2, <2>3, Outside DEF Between
  <2> QED
    BY <2>4 DEF t
<1>5. ASSUME NEW t \in Int, Covers(m[k], t) PROVE In(t, m)
  BY <1>1, <1>5 DEF In
<1> QED
  BY <1>2, <1>3, <1>4, <1>5 DEF Leaves, OpenIn

\* free is all the stretches, in order.
Complete(open, length, free) ==
  /\ free \in Seq(Interval)
  /\ \A k \in 1 .. Len(free) : Stretch(open, length, free[k])
  /\ \A k, l \in 1 .. Len(free) : k < l => free[k].end < free[l].start
  /\ \A g \in Interval : Stretch(open, length, g) => \E k \in 1 .. Len(free) : free[k] = g

\* freeSlots() through windows and busy time that are separated.
LEMMA FreeSlotsAre ==
  ASSUME NEW busy, NEW q, NEW z, q.length \in Nat \ {0},
         NEW m, m = searchWindows(q, z), m \in Seq(Interval), Separated(m),
         NEW b, b = mergeBusy(busy), b \in Seq(Interval), Separated(b)
  PROVE  Complete(OpenIn(m, b), q.length, freeSlots(busy, q, z))
<1> DEFINE n == Len(m)
           length == q.length
           open == OpenIn(m, b)
           upTo == CHOOSE f : f = [i \in 0 .. n |-> IF i = 0 THEN <<>> ELSE slotsIn(f[i - 1], m[i], b, length)]
           Step == [i \in 1 .. n |-> [p \in Seq(Interval) |->
                      IF slotsIn(p, m[i], b, length) \in Seq(Interval) THEN slotsIn(p, m[i], b, length) ELSE <<>>]]
<1>1. n \in Nat /\ length \in Nat \ {0} /\ DOMAIN m = 1 .. n
  OBVIOUS
<1>2. freeSlots(busy, q, z) = upTo[n]
  BY DEF freeSlots
<1> HIDE DEF n, length, open
<1>3. PICK f \in [0 .. n -> Seq(Interval)] : f[0] = <<>> /\ \A i \in 1 .. n : f[i] = Step[i][f[i - 1]]
  <2>1. Step \in [1 .. n -> [Seq(Interval) -> Seq(Interval)]] /\ <<>> \in Seq(Interval)
    OBVIOUS
  <2> HIDE DEF Step
  <2>2. HasCourse(n, Seq(Interval), <<>>, Step)
    BY <1>1, <2>1, Course DEF Steps
  <2> QED
    BY <2>2 DEF HasCourse
<1>4. \A i \in 1 .. n : f[i - 1] \in Seq(Interval)
  BY <1>1, <1>3
<1>5. \A i \in 1 .. n :
        f[i] = IF slotsIn(f[i - 1], m[i], b, length) \in Seq(Interval)
               THEN slotsIn(f[i - 1], m[i], b, length) ELSE <<>>
  BY <1>3, <1>4
<1> HIDE DEF Step
<1> DEFINE Good(i) == /\ \A x \in Int : Between(m, i, x) => Listed(open, length, f[i], x)
                      /\ i > 0 => f[i] = slotsIn(f[i - 1], m[i], b, length)
           G == {i \in 0 .. n : Good(i)}
<1>6. 0 \in G
  <2>1. ASSUME NEW x \in Int, Between(m, 0, x) PROVE Listed(open, length, <<>>, x)
    <3> SUFFICES ASSUME NEW g \in Interval, Stretch(open, length, g), g.end <= x PROVE FALSE
      BY DEF Listed
    <3>1. g.end \in Int /\ g.end - 1 \in open
      BY <1>1, StretchSo
    <3> DEFINE t == g.end - 1
    <3>2. t \in Int /\ t < x
      BY <3>1
    <3> HIDE DEF t
    <3>3. 0 < Len(m) => t < m[0 + 1].start /\ t <= m[0 + 1].start
      <4> SUFFICES ASSUME 0 < Len(m) PROVE t < m[1].start /\ t <= m[1].start
        OBVIOUS
      <4>1. m[1].start \in Int
        <5>1. 1 \in 1 .. Len(m)
          BY <1>1 DEF n
        <5> QED
          BY <5>1, SeparatedSo
      <4>2. x <= m[1].start
        BY <2>1 DEF Between
      <4> QED
        BY <3>2, <4>1, <4>2
    <3>4. ~In(t, m)
      <4>1. Between(m, 0, t) /\ 0 \in 0 .. Len(m)
        BY <3>2, <3>3, <1>1 DEF Between, n
      <4> QED
        BY <3>2, <3>3, <4>1, Outside
    <3> QED
      BY <3>1, <3>4 DEF t, open, OpenIn
  <2>2. Good(0)
    BY <1>3, <2>1
  <2> HIDE DEF Good
  <2> QED
    BY <1>1, <2>2
<1>7. ASSUME NEW i \in 1 .. n, i - 1 \in G PROVE i \in G
  <2>1. \A x \in Int : Between(m, i - 1, x) => Listed(open, length, f[i - 1], x)
    <3>1. Good(i - 1)
      <4> HIDE DEF Good
      <4> QED
        BY <1>7
    <3> QED
      BY <3>1
  <2> DEFINE w == m[i]
             p == i - 1
             after == slotsIn(f[i - 1], w, b, length)
  <2>2. i \in 1 .. Len(m) /\ w.start \in Int /\ w.end \in Int /\ w.start < w.end /\ Leaves(w, b, open)
    BY WindowLeaves, SeparatedSo DEF n, open
  <2>3. Between(m, p, w.start)
    <3>1. p + 1 = i
      OBVIOUS
    <3>2. p > 0 => m[p].end <= w.start
      <4> SUFFICES ASSUME p > 0 PROVE m[p].end <= w.start
        OBVIOUS
      <4>1. p \in 1 .. Len(m) /\ p < i
        BY <2>2
      <4> HIDE DEF p
      <4>2. m[p].end < m[i].start /\ m[p].end \in Int
        BY <2>2, <4>1, SeparatedSo
      <4> QED
        BY <2>2, <4>2
    <3> HIDE DEF p
    <3>3. m[p + 1].start = w.start
      BY <3>1
    <3> QED
      BY <2>2, <3>2, <3>3 DEF Between
  <2>4. Listed(open, length, f[i - 1], w.start)
    BY <2>1, <2>2, <2>3
  <2>5. Listed(open, length, after, w.end)
    <3> HIDE DEF w
    <3> QED
      BY <1>1, <2>2, <2>4, SlotsInIs
  <2>6. f[i] = after
    BY <1>5, <2>5 DEF Listed
  <2> HIDE DEF after
  <2>7. ASSUME NEW x \in Int, Between(m, i, x) PROVE Listed(open, length, after, x)
    <3>1. w.end <= x
      BY <2>7 DEF Between
    <3>2. ASSUME NEW t \in Int, w.end <= t, t < x PROVE t \notin open
      <4>1. i < Len(m) => t < m[i + 1].start /\ t <= m[i + 1].start
        <5> SUFFICES ASSUME i < Len(m) PROVE t < m[i + 1].start /\ t <= m[i + 1].start
          OBVIOUS
        <5>1. m[i + 1].start \in Int
          <6>1. i + 1 \in 1 .. Len(m)
            BY <2>2
          <6> QED
            BY <6>1, SeparatedSo
        <5>2. x <= m[i + 1].start
          BY <2>7 DEF Between
        <5> QED
          BY <3>2, <5>1, <5>2
      <4>2. Between(m, i, t) /\ i \in 0 .. Len(m)
        BY <2>2, <3>2, <4>1 DEF Between
      <4>3. ~In(t, m)
        BY <4>1, <4>2, Outside
      <4> QED
        BY <4>3 DEF open, OpenIn
    <3> HIDE DEF w
    <3> QED
      BY <1>1, <2>2, <2>5, <3>1, <3>2, Nothing
  <2>8. Good(i)
    BY <2>6, <2>7 DEF after
  <2> HIDE DEF Good
  <2> QED
    BY <2>8
<1> HIDE DEF G
<1>8. \A i \in 0 .. n : Good(i)
  <2>1. \A i \in 0 .. n : i \in G
    BY <1>1, <1>6, <1>7, Rounds
  <2> HIDE DEF Good
  <2> QED
    BY <2>1 DEF G
<1>9. f = [i \in 0 .. n |-> IF i = 0 THEN <<>> ELSE slotsIn(f[i - 1], m[i], b, length)]
  <2>1. \A i \in 0 .. n : f[i] = IF i = 0 THEN <<>> ELSE slotsIn(f[i - 1], m[i], b, length)
    BY <1>1, <1>3, <1>8
  <2> QED
    BY <2>1
<1>10. upTo = [i \in 0 .. n |-> IF i = 0 THEN <<>> ELSE slotsIn(upTo[i - 1], m[i], b, length)]
  BY <1>9
<1> HIDE DEF upTo
<1> DEFINE H == {i \in 0 .. n : upTo[i] = f[i]}
<1>11. 0 \in H
  BY <1>1, <1>3, <1>10
<1>12. ASSUME NEW i \in 1 .. n, i - 1 \in H PROVE i \in H
  <2>1. i \in 0 .. n /\ i # 0
    BY <1>1
  <2>2. upTo[i] = slotsIn(upTo[i - 1], m[i], b, length)
    BY <1>10, <2>1
  <2>3. f[i] = slotsIn(f[i - 1], m[i], b, length)
    BY <1>8, <2>1, <1>1
  <2> QED
    BY <1>12, <2>2, <2>3
<1> HIDE DEF H
<1>13. upTo[n] = f[n] /\ Good(n)
  <2>1. \A i \in 0 .. n : i \in H
    BY <1>1, <1>11, <1>12, Rounds
  <2>2. n \in 0 .. n
    BY <1>1
  <2> HIDE DEF Good
  <2> QED
    BY <1>8, <2>1, <2>2 DEF H
<1>14. \A e \in Int : \E x \in Int : e <= x /\ Listed(open, length, f[n], x)
  <2> TAKE e \in Int
  <2> DEFINE last == IF n > 0 THEN m[n].end ELSE e
             x == Most(e, last)
  <2>1. last \in Int
    <3>1. n > 0 => n \in 1 .. Len(m)
      BY <1>1 DEF n
    <3> QED
      BY <3>1, SeparatedSo
  <2>2. x \in Int /\ e <= x /\ last <= x
    <3> HIDE DEF last
    <3> QED
      BY <2>1, MostLeast
  <2>3. Between(m, n, x)
    <3> HIDE DEF x
    <3> QED
      BY <1>1, <2>2 DEF Between, n
  <2> HIDE DEF x
  <2>4. Listed(open, length, f[n], x)
    BY <1>13, <2>2, <2>3
  <2> QED
    BY <2>2, <2>4
<1> DEFINE free == f[n]
<1>15. freeSlots(busy, q, z) = free
  BY <1>2, <1>13
<1> HIDE DEF free, Good
<1>16. PICK y \in Int : Listed(open, length, free, y)
  <2>1. 0 \in Int
    OBVIOUS
  <2> QED
    BY <1>14, <2>1 DEF free
<1>17. ASSUME NEW g \in Interval, Stretch(open, length, g) PROVE \E k \in 1 .. Len(free) : free[k] = g
  <2>1. g.end \in Int
    BY DEF Interval
  <2>2. PICK x \in Int : g.end <= x /\ Listed(open, length, free, x)
    BY <1>14, <2>1 DEF free
  <2> QED
    BY <1>17, <2>2 DEF Listed
<1>18. Complete(open, length, free)
  BY <1>16, <1>17 DEF Listed, Complete
<1> QED
  BY <1>15, <1>18 DEF open, length

-----------------------------------------------------------------------------
(* Days *)

\* A multiple of a day's length grows with the day.
LEMMA Further ==
  ASSUME NEW l \in Nat \ {0}, NEW d \in Int, NEW k \in Int, d < k
  PROVE  d * l \in Int /\ k * l \in Int /\ d * l + l <= k * l
<1>1. PICK n \in Nat : k = d + 1 + n
  <2>1. k - d - 1 \in Nat /\ k = d + 1 + (k - d - 1)
    OBVIOUS
  <2> QED
    BY <2>1
<1>2. d * l \in Int /\ n * l \in Nat /\ k * l \in Int
  OBVIOUS
<1>3. k * l = d * l + l + n * l
  BY <1>1
<1> QED
  BY <1>2, <1>3

LEMMA Divided ==
  ASSUME NEW l \in Nat \ {0}, NEW w \in Int
  PROVE  /\ w \div l \in Int /\ w % l \in Int /\ 0 <= w % l /\ w % l < l
         /\ (w \div l) * l \in Int
         /\ w = (w \div l) * l + (w % l)
OBVIOUS

\* A time lies between two hours of a day when it is on that day and its time of
\* day lies between them.
LEMMA HoursOfDay ==
  ASSUME NEW l \in Nat \ {0}, NEW w \in Int, NEW d \in Int, NEW o \in 0 .. l, NEW c \in 0 .. l
  PROVE  /\ d * l \in Int
         /\ d * l + o <= w /\ w < d * l + c <=> d = w \div l /\ o <= w % l /\ w % l < c
<1> DEFINE k == w \div l
           r == w % l
           D == d * l
           K == k * l
<1>1. k \in Int /\ r \in Int /\ 0 <= r /\ r < l /\ K \in Int /\ w = K + r
  BY Divided
<1>2. D \in Int
  OBVIOUS
<1>3. (d < k => D + l <= K) /\ (k < d => K + l <= D) /\ (d = k => D = K)
  BY <1>1, Further
<1> HIDE DEF k, r, D, K
<1>4. D + o <= w /\ w < D + c <=> d = k /\ o <= r /\ r < c
  <2>1. l \in Int /\ o \in Int /\ c \in Int /\ 0 <= o /\ o <= l /\ 0 <= c /\ c <= l
    OBVIOUS
  <2>2. CASE d < k
    BY <1>1, <1>2, <1>3, <2>1, <2>2
  <2>3. CASE k < d
    BY <1>1, <1>2, <1>3, <2>1, <2>3
  <2>4. CASE d = k
    BY <1>1, <1>2, <1>3, <2>1, <2>4
  <2> QED
    BY <1>1, <2>2, <2>3, <2>4
<1> QED
  BY <1>2, <1>4 DEF D, k, r

LEMMA WallIs ==
  ASSUME DayLength \in Nat \ {0}, NEW z \in ZoneType, NEW t \in Int
  PROVE  /\ wallAt(t, z) \in Int /\ dayAt(t, z) \in Int
         /\ dayAt(t, z) * DayLength \in Int
         /\ dayAt(t, z) * DayLength <= wallAt(t, z)
         /\ wallAt(t, z) < dayAt(t, z) * DayLength + DayLength
<1>1. wallAt(t, z) \in Int
  BY DEF wallAt, utcOffset, ZoneType
<1> DEFINE w == wallAt(t, z)
<1> HIDE DEF w
<1>2. w \div DayLength \in Int /\ w % DayLength \in Int /\ (w \div DayLength) * DayLength \in Int
      /\ 0 <= w % DayLength /\ w % DayLength < DayLength
      /\ w = (w \div DayLength) * DayLength + (w % DayLength)
  BY <1>1, Divided DEF w
<1> DEFINE D == (w \div DayLength) * DayLength
           r == w % DayLength
<1>3. D <= w /\ w < D + DayLength
  <2> HIDE DEF D, r
  <2>1. D \in Int /\ r \in Int /\ 0 <= r /\ r < DayLength /\ w = D + r
    BY <1>2 DEF D, r
  <2> QED
    BY <2>1
<1> QED
  BY <1>1, <1>2, <1>3 DEF dayAt, w

\* A clock time between what two instants show, the later one less, is one of
\* those that are shown twice.
LEMMA ShownTwice ==
  ASSUME DayLength \in Nat \ {0}, NEW z \in ZoneType, NEW u \in Int, NEW v \in Int, NEW h \in Int,
         u <= v, wallAt(v, z) < h, h <= wallAt(u, z)
  PROVE  ~Ordinary(h, z)
<1>1. z.at \in Int /\ z.from \in Int /\ z.to \in Int
  BY DEF ZoneType
<1> QED
  BY <1>1 DEF wallAt, utcOffset, Ordinary, Least, Most

\* The days between the first instant's and the last one's are all there are: a
\* day before or after those would have an hour that is shown twice.
LEMMA DayWithin ==
  ASSUME DayLength \in Nat \ {0}, NEW z \in ZoneType, NEW q \in QueryType, q.hours, HoursOrdinary(q, z),
         NEW t \in q.from .. q.to - 1,
         NEW d, d = dayAt(t, z), d * DayLength + q.opens <= wallAt(t, z), wallAt(t, z) < d * DayLength + q.closes
  PROVE  dayAt(q.from, z) <= d /\ d <= dayAt(q.to - 1, z)
<1>1. /\ q.from \in Int /\ q.to \in Int /\ q.opens \in Int /\ q.closes \in Int
      /\ 0 <= q.opens /\ q.opens <= DayLength /\ 0 <= q.closes /\ q.closes <= DayLength
  BY DEF QueryType
<1>2. t \in Int /\ q.from <= t /\ t <= q.to - 1 /\ q.to - 1 \in Int
  BY <1>1
<1>3. d \in Int /\ d * DayLength \in Int /\ wallAt(t, z) \in Int
  BY <1>2, WallIs
<1>4. Ordinary(d * DayLength + q.opens, z) /\ Ordinary(d * DayLength + q.closes, z)
  <2>1. d \in dayAt(t, z) .. dayAt(t, z) + 1
    BY <1>3
  <2> QED
    BY <2>1 DEF HoursOrdinary
<1>5. ASSUME ~(dayAt(q.from, z) <= d) PROVE FALSE
  <2> DEFINE k == dayAt(q.from, z)
             h == d * DayLength + q.closes
  <2>1. k \in Int /\ k * DayLength \in Int /\ k * DayLength <= wallAt(q.from, z) /\ wallAt(q.from, z) \in Int
    BY <1>1, WallIs
  <2> HIDE DEF k
  <2>2. d < k
    BY <1>3, <1>5, <2>1 DEF k
  <2>3. d * DayLength + DayLength <= k * DayLength
    BY <1>3, <2>1, <2>2, Further
  <2>4. h \in Int /\ h <= wallAt(q.from, z)
    BY <1>1, <1>3, <2>1, <2>3
  <2> HIDE DEF h
  <2>5. wallAt(t, z) < h
    BY DEF h
  <2>6. ~Ordinary(h, z)
    BY <1>1, <1>2, <2>4, <2>5, ShownTwice
  <2> QED
    BY <1>4, <2>6 DEF h
<1>6. ASSUME ~(d <= dayAt(q.to - 1, z)) PROVE FALSE
  <2> DEFINE v == q.to - 1
             k == dayAt(v, z)
             h == d * DayLength + q.opens
  <2> v \in Int /\ t <= v
    BY <1>2
  <2>1. k \in Int /\ k * DayLength \in Int /\ wallAt(v, z) < k * DayLength + DayLength /\ wallAt(v, z) \in Int
    BY WallIs
  <2>2. k < d
    BY <1>3, <1>6, <2>1
  <2> HIDE DEF k, v
  <2>3. k * DayLength + DayLength <= d * DayLength
    BY <1>3, <2>1, <2>2, Further
  <2>4. h \in Int /\ wallAt(v, z) < h
    BY <1>1, <1>3, <2>1, <2>3
  <2> HIDE DEF h
  <2>5. h <= wallAt(t, z)
    BY DEF h
  <2>6. ~Ordinary(h, z)
    BY <1>2, <2>4, <2>5, ShownTwice
  <2> QED
    BY <1>4, <2>6 DEF h
<1> QED
  BY <1>5, <1>6

\* One day's hours, cut to the range.
LEMMA WindowIs ==
  ASSUME DayLength \in Nat \ {0}, NEW z \in ZoneType, NEW q \in QueryType, NEW d \in Int,
         Ordinary(d * DayLength + q.opens, z), Ordinary(d * DayLength + q.closes, z)
  PROVE  /\ windowOf(q, z, d) \in Interval
         /\ windowOf(q, z, d).start = Most(opensAt(q, z, d), q.from)
         /\ \A t \in Int : Covers(windowOf(q, z, d), t) <=>
              /\ q.from <= t /\ t < q.to
              /\ d * DayLength + q.opens <= wallAt(t, z) /\ wallAt(t, z) < d * DayLength + q.closes
<1> DEFINE o == d * DayLength + q.opens
           c == d * DayLength + q.closes
           w == windowOf(q, z, d)
<1>1. q.from \in Int /\ q.to \in Int /\ q.opens \in Int /\ q.closes \in Int
  BY DEF QueryType
<1>2. o \in Int /\ c \in Int
  BY <1>1
<1>3. w = [start |-> Most(instantAt(o, z), q.from), end |-> Least(instantAt(c, z), q.to)]
  BY DEF windowOf, opensAt
<1> HIDE DEF w
<1>4. Ordinary(o, z) /\ Ordinary(c, z)
  OBVIOUS
<1> HIDE DEF o, c
<1> DEFINE i == instantAt(o, z)
           j == instantAt(c, z)
<1>5. i \in Int /\ j \in Int
  BY <1>2, Cut
<1>6. \A t \in Int : wallAt(t, z) \in Int /\ (t < i <=> wallAt(t, z) < o) /\ (t < j <=> wallAt(t, z) < c)
  BY <1>2, <1>4, Cut, WallIs
<1> HIDE DEF i, j
<1>7. w.start = Most(i, q.from) /\ w.end = Least(j, q.to)
  BY <1>3 DEF i, j
<1>8. w \in Interval
  <2>1. Most(i, q.from) \in Int /\ Least(j, q.to) \in Int
    BY <1>1, <1>5, MostLeast
  <2> QED
    BY <1>3, <2>1 DEF Interval, i, j
<1>9. ASSUME NEW t \in Int
      PROVE  Covers(w, t) <=> q.from <= t /\ t < q.to /\ o <= wallAt(t, z) /\ wallAt(t, z) < c
  <2>1. Covers(w, t) <=> i <= t /\ q.from <= t /\ t < j /\ t < q.to
    BY <1>1, <1>5, <1>7 DEF Covers, Most, Least
  <2> QED
    BY <1>2, <1>5, <1>6, <2>1
<1> QED
  BY <1>7, <1>8, <1>9 DEF opensAt, w, o, c, i

LEMMA OpensAtIs ==
  ASSUME DayLength \in Nat \ {0}, NEW z \in ZoneType, NEW q \in QueryType, NEW d \in Int
  PROVE  /\ d * DayLength + q.opens \in Int /\ opensAt(q, z, d) \in Int
         /\ (d * DayLength + q.opens) - DayLength <= opensAt(q, z, d)
         /\ Ordinary(d * DayLength + q.opens, z) =>
              \A t \in Int : t < opensAt(q, z, d) <=> wallAt(t, z) < d * DayLength + q.opens
<1> DEFINE h == d * DayLength + q.opens
<1>1. h \in Int
  BY DEF QueryType
<1> HIDE DEF h
<1>2. instantAt(h, z) \in Int /\ h - DayLength <= instantAt(h, z)
  BY <1>1, Cut
<1>3. Ordinary(h, z) => \A t \in Int : t < instantAt(h, z) <=> wallAt(t, z) < h
  BY <1>1, Cut
<1>4. opensAt(q, z, d) = instantAt(h, z)
  BY DEF opensAt, h
<1> DEFINE o == opensAt(q, z, d)
<1> HIDE DEF o
<1>5. /\ h \in Int /\ o \in Int /\ h - DayLength <= o
      /\ Ordinary(h, z) => \A t \in Int : t < o <=> wallAt(t, z) < h
  BY <1>1, <1>2, <1>3, <1>4 DEF o
<1> QED
  BY <1>5 DEF h, o

\* The walk comes to a day that opens when the range is over.
LEMMA DaysWalkedAre ==
  ASSUME DayLength \in Nat \ {0}, NEW z \in ZoneType, NEW q \in QueryType, q.from < q.to,
         NEW first, first = dayAt(q.from, z), NEW n, n = daysWalked(q, z)
  PROVE  /\ n \in Nat
         /\ opensAt(q, z, first + n) >= q.to
         /\ \A k \in 0 .. n - 1 : opensAt(q, z, first + k) < q.to
<1> DEFINE far == q.to - q.from + 3
           Stop(i) == opensAt(q, z, first + i) >= q.to
           FirstStop(i) == Stop(i) /\ \A k \in 0 .. i - 1 : opensAt(q, z, first + k) < q.to
           G == {i \in 0 .. far : \A k \in 0 .. i : ~Stop(k)}
<1>1. q.from \in Int /\ q.to \in Int /\ far \in Nat /\ first \in Int
  BY WallIs DEF QueryType
<1>2. n = CHOOSE i \in 0 .. far : FirstStop(i)
  BY DEF daysWalked
<1>3. \A k \in Int : opensAt(q, z, first + k) \in Int
  BY <1>1, OpensAtIs
<1>4. Stop(far)
  <2> DEFINE d == first + far
             l == DayLength
             F == first * l
             D == d * l
             w == wallAt(q.from, z)
  <2>1. w \in Int /\ F \in Int /\ w < F + l /\ q.from - l <= w /\ l \in Int /\ l > 0
    <3>1. w \in Int /\ w < first * DayLength + DayLength /\ first * DayLength \in Int
      BY <1>1, WallIs
    <3>2. q.from - DayLength <= w
      BY <1>1 DEF wallAt, utcOffset, ZoneType
    <3> QED
      BY <3>1, <3>2
  <2>2. D \in Int /\ D >= F + (q.to - q.from) + 3 * l
    <3> DEFINE m == q.to - q.from
    <3>1. m \in Nat /\ d = first + m + 3
      BY <1>1
    <3> HIDE DEF m, d
    <3>2. D = F + m * l + 3 * l /\ m * l \in Int
      BY <1>1, <2>1, <3>1
    <3>3. m * l >= m
      <4>1. PICK j \in Nat : DayLength = j + 1
        <5>1. DayLength - 1 \in Nat /\ DayLength = (DayLength - 1) + 1
          OBVIOUS
        <5> QED
          BY <5>1
      <4>2. m * l = m * j + m /\ m * j \in Nat
        BY <3>1, <4>1
      <4> QED
        BY <3>1, <4>2
    <3> HIDE DEF D, F, l
    <3> DEFINE p == m * l
    <3>4. p \in Int /\ p >= m /\ D = F + p + 3 * l
      BY <3>2, <3>3
    <3> HIDE DEF p
    <3>5. m \in Int /\ D \in Int /\ D >= F + m + 3 * l
      BY <2>1, <3>1, <3>4
    <3> QED
      BY <3>5 DEF m
  <2>3. d \in Int /\ q.opens \in Int /\ 0 <= q.opens
    BY <1>1 DEF QueryType
  <2>4. opensAt(q, z, d) \in Int /\ (d * DayLength + q.opens) - DayLength <= opensAt(q, z, d)
    BY <2>3, OpensAtIs
  <2> DEFINE o == opensAt(q, z, d)
  <2>5. o \in Int /\ (D + q.opens) - l <= o
    BY <2>4
  <2> HIDE DEF o, w, D, F, l, d
  <2>6. o >= q.to
    BY <1>1, <2>1, <2>2, <2>3, <2>5
  <2> QED
    BY <2>6 DEF o, d
<1>5. \E i \in 0 .. far : FirstStop(i)
  <2> SUFFICES ASSUME \A i \in 0 .. far : ~FirstStop(i) PROVE FALSE
    OBVIOUS
  <2> HIDE DEF far
  <2>1. \A i \in 0 .. far : (\A k \in 0 .. i - 1 : ~Stop(k)) => ~Stop(i)
    <3> TAKE i \in 0 .. far
    <3>1. \A k \in 0 .. i - 1 : opensAt(q, z, first + k) \in Int
      BY <1>3
    <3> QED
      BY <1>1, <3>1
  <2> HIDE DEF Stop, FirstStop
  <2>2. 0 \in G
    <3>1. 0 \in 0 .. far /\ ~Stop(0)
      BY <1>1, <2>1
    <3> QED
      BY <3>1
  <2>3. ASSUME NEW i \in 1 .. far, i - 1 \in G PROVE i \in G
    <3>1. i \in 0 .. far /\ \A k \in 0 .. i - 1 : ~Stop(k)
      BY <1>1, <2>3
    <3>2. ~Stop(i)
      BY <2>1, <3>1
    <3>3. \A k \in 0 .. i : k \in 0 .. i - 1 \/ k = i
      BY <3>1
    <3> QED
      BY <3>1, <3>2, <3>3
  <2> HIDE DEF G
  <2>4. \A i \in 0 .. far : i \in G
    BY <1>1, <2>2, <2>3, Rounds
  <2>5. far \in G /\ far \in 0 .. far
    BY <1>1, <2>4
  <2> QED
    BY <1>4, <2>5 DEF G
<1> HIDE DEF FirstStop
<1>6. n \in 0 .. far /\ FirstStop(n)
  BY <1>2, <1>5
<1> QED
  BY <1>1, <1>6 DEF FirstStop

\* The windows are the instants of the range within the hours.
LEMMA HoursAre ==
  ASSUME DayLength \in Nat \ {0}, NEW z \in ZoneType, NEW q \in QueryType, q.from < q.to,
         q.hours, HoursOrdinary(q, z)
  PROVE  /\ searchWindows(q, z) \in Seq(Interval) /\ Separated(searchWindows(q, z))
         /\ \A t \in Int : In(t, searchWindows(q, z)) <=>
              /\ q.from <= t /\ t < q.to
              /\ wallAt(t, z) % DayLength \in q.opens .. q.closes - 1
<1> DEFINE first == dayAt(q.from, z)
           last == dayAt(q.to - 1, z)
           n == daysWalked(q, z)
           s == [i \in 1 .. n |-> windowOf(q, z, first + i - 1)]
<1>1. /\ q.from \in Int /\ q.to \in Int /\ q.opens \in 0 .. DayLength /\ q.closes \in 0 .. DayLength
      /\ q.opens \in Int /\ q.closes \in Int
      /\ q.from \in q.from .. q.to - 1 /\ q.to - 1 \in q.from .. q.to - 1
  BY DEF QueryType
<1>2. searchWindows(q, z) = merge(s)
  BY DEF searchWindows
<1>3. first \in Int /\ last \in Int
  BY <1>1, WallIs
<1>4. /\ n \in Nat
      /\ opensAt(q, z, first + n) >= q.to /\ opensAt(q, z, first + n) \in Int
      /\ \A k \in 0 .. n - 1 : opensAt(q, z, first + k) < q.to /\ opensAt(q, z, first + k) \in Int
  <2>1. /\ n \in Nat
        /\ opensAt(q, z, first + n) >= q.to
        /\ \A k \in 0 .. n - 1 : opensAt(q, z, first + k) < q.to
    BY DaysWalkedAre
  <2> HIDE DEF first, n
  <2>2. first + n \in Int /\ \A k \in 0 .. n - 1 : first + k \in Int
    BY <1>3, <2>1
  <2> QED
    BY <2>1, <2>2, OpensAtIs
<1>5. /\ \A d \in first .. last + 1 :
           Ordinary(d * DayLength + q.opens, z) /\ Ordinary(d * DayLength + q.closes, z)
      /\ Ordinary(first * DayLength + q.opens, z)
  <2>1. \A d \in first .. last + 1 :
           Ordinary(d * DayLength + q.opens, z) /\ Ordinary(d * DayLength + q.closes, z)
    BY <1>1 DEF HoursOrdinary
  <2>2. first \in first .. first + 1
    BY <1>3
  <2>3. Ordinary(first * DayLength + q.opens, z)
    BY <1>1, <2>2 DEF HoursOrdinary
  <2> QED
    BY <2>1, <2>3
<1> HIDE DEF first, last, n
<1>6. n = 0 \/ first + n - 1 <= last
  <2> SUFFICES ASSUME n > 0, ~(first + n - 1 <= last) PROVE FALSE
    BY <1>4
  <2> DEFINE v == q.to - 1
             k == Most(last + 1 - first, 0)
             d == first + k
             h == d * DayLength + q.opens
  <2>1. v \in Int /\ v < q.to /\ last = dayAt(v, z)
    BY <1>1 DEF last
  <2> HIDE DEF v
  <2>2. /\ k \in 0 .. n - 1 /\ d \in Int /\ last < d
        /\ d = first \/ d \in first .. last + 1
    BY <1>3, <1>4 DEF Most
  <2> HIDE DEF k
  <2>3. opensAt(q, z, d) < q.to /\ opensAt(q, z, d) \in Int
    BY <1>4, <2>2
  <2>4. Ordinary(h, z)
    BY <1>5, <2>2
  <2> HIDE DEF d
  <2>5. /\ h \in Int
        /\ \A t \in Int : t < opensAt(q, z, d) <=> wallAt(t, z) < h
    BY <2>2, <2>4, OpensAtIs
  <2>6. wallAt(v, z) \in Int /\ wallAt(v, z) < last * DayLength + DayLength /\ last * DayLength \in Int
    BY <2>1, WallIs
  <2>7. d * DayLength \in Int /\ last * DayLength + DayLength <= d * DayLength
    BY <1>3, <2>2, Further
  <2>8. wallAt(v, z) < h
    <3>1. q.opens \in Int /\ 0 <= q.opens
      BY <1>1
    <3> QED
      BY <2>6, <2>7, <3>1
  <2> HIDE DEF h
  <2>9. v < opensAt(q, z, d)
    BY <2>1, <2>5, <2>8
  <2> QED
    BY <1>1, <2>1, <2>3, <2>9 DEF v
<1>7. \A i \in 1 .. n : first + i - 1 \in Int /\ first + i - 1 \in first .. last + 1
  BY <1>3, <1>4, <1>6
<1>8. s \in [1 .. n -> Interval]
  <2>1. ASSUME NEW i \in 1 .. n PROVE windowOf(q, z, first + i - 1) \in Interval
    BY <1>5, <1>7, WindowIs
  <2> QED
    BY <2>1
<1>9. ASSUME NEW i \in 1 .. n, NEW j \in 1 .. n, i < j PROVE s[i].start <= s[j].start
  <2> DEFINE d == first + i - 1
             k == first + j - 1
             h == d * DayLength + q.opens
             g == k * DayLength + q.opens
  <2>1. d \in Int /\ k \in Int /\ d < k /\ d \in first .. last + 1 /\ k \in first .. last + 1
    BY <1>3, <1>7, <1>9
  <2>2. s[i].start = Most(opensAt(q, z, d), q.from) /\ s[j].start = Most(opensAt(q, z, k), q.from)
    <3>1. s[i] = windowOf(q, z, d) /\ s[j] = windowOf(q, z, k)
      OBVIOUS
    <3> HIDE DEF s, d, k
    <3> QED
      BY <1>5, <2>1, <3>1, WindowIs
  <2> HIDE DEF d, k, s
  <2>3. h \in Int /\ g \in Int /\ h <= g
    <3>1. d * DayLength \in Int /\ k * DayLength \in Int /\ d * DayLength + DayLength <= k * DayLength
      BY <2>1, Further
    <3> QED
      BY <1>1, <3>1
  <2>4. Ordinary(h, z) /\ Ordinary(g, z)
    BY <1>5, <2>1
  <2> DEFINE a == opensAt(q, z, d)
             b == opensAt(q, z, k)
  <2>5. /\ a \in Int /\ b \in Int
        /\ \A t \in Int : wallAt(t, z) \in Int /\ (t < a <=> wallAt(t, z) < h) /\ (t < b <=> wallAt(t, z) < g)
    BY <2>1, <2>4, OpensAtIs, WallIs
  <2> HIDE DEF h, g, a, b
  <2>6. a <= b
    BY <2>3, <2>5
  <2>7. s[i].start = Most(a, q.from) /\ s[j].start = Most(b, q.from)
    BY <2>2 DEF a, b
  <2> QED
    BY <1>1, <2>5, <2>6, <2>7 DEF Most
<1>10. /\ merge(s) \in Seq(Interval) /\ Separated(merge(s))
      /\ \A t \in Int : In(t, merge(s)) <=> \E j \in 1 .. n : Covers(s[j], t)
  <2> HIDE DEF s
  <2> QED
    BY <1>4, <1>8, <1>9, MergeIs
<1>11. ASSUME NEW t \in Int
       PROVE  (\E j \in 1 .. n : Covers(s[j], t)) <=>
                q.from <= t /\ t < q.to /\ wallAt(t, z) % DayLength \in q.opens .. q.closes - 1
  <2> DEFINE w == wallAt(t, z)
             d == dayAt(t, z)
             r == w % DayLength
  <2>1. w \in Int /\ d \in Int /\ d = w \div DayLength /\ r \in Int
    <3>1. w \in Int
      BY WallIs
    <3> HIDE DEF w
    <3> QED
      BY <3>1, Divided DEF dayAt, w
  <2>2. \A k \in Int : /\ k * DayLength \in Int
                       /\ k * DayLength + q.opens <= w /\ w < k * DayLength + q.closes
                            <=> k = d /\ q.opens <= r /\ r < q.closes
    <3> HIDE DEF w, d
    <3> QED
      BY <1>1, <2>1, HoursOfDay
  <2> HIDE DEF d, r, s
  <2>3. r \in q.opens .. q.closes - 1 <=> q.opens <= r /\ r < q.closes
    BY <1>1, <2>1
  <2>4. ASSUME NEW j \in 1 .. n, Covers(s[j], t)
        PROVE  q.from <= t /\ t < q.to /\ r \in q.opens .. q.closes - 1
    <3> DEFINE k == first + j - 1
    <3>1. s[j] = windowOf(q, z, k)
      BY DEF s
    <3>2. k \in Int /\ k \in first .. last + 1
      BY <1>7
    <3> HIDE DEF k
    <3>3. /\ q.from <= t /\ t < q.to
          /\ k * DayLength + q.opens <= w /\ w < k * DayLength + q.closes
      BY <1>5, <2>4, <3>1, <3>2, WindowIs
    <3> QED
      BY <2>2, <2>3, <3>2, <3>3
  <2>5. ASSUME q.from <= t, t < q.to, r \in q.opens .. q.closes - 1
        PROVE  \E j \in 1 .. n : Covers(s[j], t)
    <3>1. d * DayLength + q.opens <= w /\ w < d * DayLength + q.closes
      BY <2>1, <2>2, <2>3, <2>5
    <3>2. t \in q.from .. q.to - 1
      BY <1>1, <2>5
    <3>3. first <= d /\ d <= last
      BY <3>1, <3>2, DayWithin DEF first, last, d
    <3> DEFINE j == d - first + 1
    <3>4. d < first + n
      <4> SUFFICES ASSUME ~(d < first + n) PROVE FALSE
        OBVIOUS
      <4> DEFINE e == first + n
                 h == e * DayLength + q.opens
      <4>1. e \in Int /\ e \in first .. last + 1 /\ e <= d
        BY <1>3, <1>4, <2>1, <3>3
      <4>2. opensAt(q, z, e) >= q.to /\ opensAt(q, z, e) \in Int
        BY <1>4
      <4>3. Ordinary(h, z)
        BY <1>5, <4>1
      <4> HIDE DEF e
      <4>4. /\ h \in Int
            /\ \A u \in Int : u < opensAt(q, z, e) <=> wallAt(u, z) < h
        BY <4>1, <4>3, OpensAtIs
      <4>5. w < h
        <5>1. t < opensAt(q, z, e)
          BY <1>1, <2>5, <4>2
        <5> QED
          BY <4>4, <5>1
      <4>6. h <= d * DayLength + q.opens
        <5>1. e * DayLength \in Int /\ d * DayLength \in Int /\ (e = d \/ e < d)
          BY <2>1, <2>2, <4>1
        <5>2. e < d => e * DayLength + DayLength <= d * DayLength
          BY <2>1, <4>1, Further
        <5>3. CASE e = d
          BY <1>1, <5>1, <5>3
        <5>4. CASE e < d
          BY <1>1, <5>1, <5>2, <5>4
        <5> QED
          BY <5>1, <5>3, <5>4
      <4>7. d * DayLength \in Int
        BY <2>1, <2>2
      <4> HIDE DEF h, w
      <4> QED
        BY <1>1, <2>1, <3>1, <4>4, <4>5, <4>6, <4>7
    <3>5. j \in 1 .. n /\ first + j - 1 = d /\ d \in first .. last + 1
      BY <1>3, <1>4, <2>1, <3>3, <3>4
    <3>6. s[j] = windowOf(q, z, d)
      BY <3>5 DEF s
    <3> HIDE DEF j
    <3>7. Covers(s[j], t)
      BY <1>5, <2>1, <2>5, <3>1, <3>5, <3>6, WindowIs
    <3> QED
      BY <3>5, <3>7
  <2> QED
    BY <2>4, <2>5 DEF r
<1> QED
  BY <1>2, <1>10, <1>11

LEMMA SearchWindowsAre ==
  ASSUME DayLength \in Nat \ {0}, NEW z \in ZoneType, NEW q \in QueryType, q.from < q.to, HoursOrdinary(q, z)
  PROVE  /\ searchWindows(q, z) \in Seq(Interval) /\ Separated(searchWindows(q, z))
         /\ \A t \in Int : In(t, searchWindows(q, z)) <=>
              /\ q.from <= t /\ t < q.to
              /\ q.hours => wallAt(t, z) % DayLength \in q.opens .. q.closes - 1
<1>1. CASE q.hours
  BY <1>1, HoursAre
<1>2. CASE ~q.hours
  <2> DEFINE w == [start |-> q.from, end |-> q.to]
             m == <<w>>
  <2>1. searchWindows(q, z) = m
    BY <1>2 DEF searchWindows
  <2>2. w \in Interval /\ w.start = q.from /\ w.end = q.to /\ w.start < w.end
    BY DEF Interval, QueryType
  <2> HIDE DEF w
  <2>3. m \in Seq(Interval) /\ DOMAIN m = {1} /\ m[1] = w
    BY <2>2
  <2> HIDE DEF m
  <2>4. Separated(m)
    BY <2>2, <2>3 DEF Separated
  <2>5. \A t \in Int : In(t, m) <=> q.from <= t /\ t < q.to
    BY <2>2, <2>3 DEF In, Covers
  <2> QED
    BY <1>2, <2>1, <2>3, <2>4, <2>5
<1> QED
  BY <1>1, <1>2

-----------------------------------------------------------------------------
(* The answer *)

\* freeSlots() is the stretches of free instants, in order: of the whole calendar,
\* when what is read of it takes the same of the range.
LEMMA SlotsAreStretches ==
  ASSUME DayLength \in Nat \ {0}, NEW z \in ZoneType, NEW q \in QueryType, q.from < q.to, HoursOrdinary(q, z),
         NEW busy, busy \subseteq Interval, IsFiniteSet(busy),
         NEW whole, \A t \in Int : q.from <= t /\ t < q.to =>
                      ((\E c \in whole : Covers(c, t)) <=> \E c \in busy : Covers(c, t))
  PROVE  \E open :
           /\ Complete(open, q.length, freeSlots(busy, q, z))
           /\ \A g : g \in Stretches(q, z, whole) <=> Stretch(open, q.length, g)
<1> DEFINE m == searchWindows(q, z)
           b == mergeBusy(busy)
           open == OpenIn(m, b)
<1>1. /\ q.from \in Int /\ q.to \in Int /\ q.length \in Nat \ {0}
  BY DEF QueryType
<1>2. /\ m \in Seq(Interval) /\ Separated(m)
      /\ \A t \in Int : In(t, m) <=>
           /\ q.from <= t /\ t < q.to
           /\ q.hours => wallAt(t, z) % DayLength \in q.opens .. q.closes - 1
  BY SearchWindowsAre
<1>3. /\ b \in Seq(Interval) /\ Separated(b)
      /\ \A t \in Int : In(t, b) <=> \E c \in busy : Covers(c, t)
  BY MergeBusyIs
<1>4. Complete(OpenIn(m, b), q.length, freeSlots(busy, q, z))
  <2> DEFINE M == m
             B == b
  <2>1. M = searchWindows(q, z) /\ B = mergeBusy(busy)
    OBVIOUS
  <2> HIDE DEF M, B
  <2>2. M \in Seq(Interval) /\ Separated(M) /\ B \in Seq(Interval) /\ Separated(B)
    BY <1>2, <1>3 DEF M, B
  <2>3. Complete(OpenIn(M, B), q.length, freeSlots(busy, q, z))
    BY <1>1, <2>1, <2>2, FreeSlotsAre
  <2> QED
    BY <2>3 DEF M, B
<1>5. \A t \in Int : IsFree(q, z, whole, t) <=> t \in open
  <2> HIDE DEF m, b
  <2> QED
    BY <1>2, <1>3 DEF IsFree, OpenIn
<1> HIDE DEF open, m, b
<1>6. \A t \in open : t \in Int /\ q.from <= t /\ t < q.to
  BY <1>2 DEF open, OpenIn
<1>7. ASSUME NEW g, g \in Stretches(q, z, whole) PROVE Stretch(open, q.length, g)
  <2>1. /\ g \in [start : q.from .. q.to, end : q.from .. q.to]
        /\ g.end - g.start >= q.length
        /\ \A t \in g.start .. g.end - 1 : IsFree(q, z, whole, t)
        /\ ~IsFree(q, z, whole, g.start - 1) /\ ~IsFree(q, z, whole, g.end)
    BY <1>7 DEF Stretches
  <2>2. g \in Interval /\ g.start \in Int /\ g.end \in Int /\ g.start - 1 \in Int
    BY <1>1, <2>1 DEF Interval
  <2>3. \A t \in Int : g.start <= t /\ t < g.end => t \in open
    <3> TAKE t \in Int
    <3>1. g.start <= t /\ t < g.end => t \in g.start .. g.end - 1
      BY <2>2
    <3> QED
      BY <1>5, <2>1, <3>1
  <2> QED
    BY <1>5, <2>1, <2>2, <2>3 DEF Stretch
<1>8. ASSUME NEW g, Stretch(open, q.length, g) PROVE g \in Stretches(q, z, whole)
  <2>1. /\ g \in Interval /\ g.start \in Int /\ g.end \in Int /\ g.start < g.end
        /\ g.end - g.start >= q.length
        /\ g.end - 1 \in open /\ g.start \in open
        /\ g.start - 1 \notin open /\ g.end \notin open
    BY <1>1, <1>8, StretchSo
  <2>2. q.from <= g.start /\ g.end - 1 < q.to /\ g.start < q.to
    BY <1>6, <2>1
  <2>3. g \in [start : q.from .. q.to, end : q.from .. q.to]
    <3>1. g.start \in q.from .. q.to /\ g.end \in q.from .. q.to
      BY <1>1, <2>1, <2>2
    <3> QED
      BY <2>1, <3>1 DEF Interval
  <2>4. \A t \in g.start .. g.end - 1 : IsFree(q, z, whole, t)
    <3> TAKE t \in g.start .. g.end - 1
    <3>1. t \in Int /\ g.start <= t /\ t < g.end
      BY <2>1
    <3>2. t \in open
      BY <1>8, <3>1 DEF Stretch
    <3> QED
      BY <1>5, <3>1, <3>2
  <2>5. ~IsFree(q, z, whole, g.start - 1) /\ ~IsFree(q, z, whole, g.end)
    <3>1. g.start - 1 \in Int /\ g.end \in Int
      BY <2>1
    <3> QED
      BY <1>5, <2>1, <3>1
  <2> QED
    BY <2>1, <2>3, <2>4, <2>5 DEF Stretches
<1> QED
  BY <1>4, <1>7, <1>8 DEF open

\* What an answer shows of all the stretches.
ShowsEarliest(answer, all) ==
  LET shown == {answer.slots[i] : i \in DOMAIN answer.slots}
  IN  /\ shown \subseteq all
      /\ \A i, j \in DOMAIN answer.slots : i < j => answer.slots[i].end < answer.slots[j].start
      /\ \A g \in all \ shown : \A s \in shown : s.end < g.start
      /\ answer.truncated <=> all \ shown # {}
      /\ answer.truncated => Len(answer.slots) = MaxSlots

LEMMA ShortenIs ==
  ASSUME MaxSlots \in Nat, NEW open, NEW length \in Nat \ {0}, NEW free, Complete(open, length, free),
         NEW all, \A g : g \in all <=> Stretch(open, length, g),
         NEW answer, answer = Shorten(free)
  PROVE  ShowsEarliest(answer, all)
<1> DEFINE n == Len(free)
           k == Least(MaxSlots, n)
           slots == answer.slots
           shown == {slots[i] : i \in DOMAIN slots}
<1>1. free \in Seq(Interval) /\ n \in Nat
  BY DEF Complete
<1>2. k \in Nat /\ k <= n /\ k <= MaxSlots /\ (k = n \/ k = MaxSlots) /\ (n > MaxSlots <=> k < n)
  <2> HIDE DEF n
  <2> QED
    BY <1>1 DEF Least
<1> HIDE DEF k
<1>4. slots = SubSeq(free, 1, k) /\ (answer.truncated <=> n > MaxSlots)
  BY DEF Shorten, k
<1>5. /\ Len(slots) = k /\ DOMAIN slots = 1 .. k
      /\ \A i \in 1 .. k : slots[i] = free[i] /\ i \in 1 .. n
  <2> HIDE DEF n, slots
  <2>1. SubSeq(free, 1, k) = [i \in 1 .. k |-> free[i]]
    BY <1>1, <1>2 DEF n
  <2>2. \A i \in 1 .. k : i \in 1 .. n
    BY <1>1, <1>2
  <2> QED
    BY <1>2, <1>4, <2>1, <2>2
<1> HIDE DEF slots
<1>6. \A g \in shown : \E i \in 1 .. k : i \in 1 .. n /\ g = free[i]
  BY <1>5
<1>7. \A i \in 1 .. k : free[i] \in shown
  BY <1>5
<1> HIDE DEF shown
<1>8. \A i \in 1 .. n : /\ free[i] \in all /\ Stretch(open, length, free[i])
                        /\ free[i].start \in Int /\ free[i].end \in Int /\ free[i].start < free[i].end
  BY StretchSo DEF Complete
<1>9. \A i, j \in 1 .. n : i < j => free[i].end < free[j].start
  BY DEF Complete
<1>10. \A g \in all : \E i \in 1 .. n : free[i] = g
  <2>1. \A g \in all : g \in Interval /\ Stretch(open, length, g)
    BY StretchSo
  <2> QED
    BY <2>1 DEF Complete
<1> HIDE DEF n
<1>11. shown \subseteq all
  BY <1>6, <1>8
<1>12. \A g \in all \ shown : \E j \in 1 .. n : free[j] = g /\ k < j
  <2> TAKE g \in all \ shown
  <2>1. PICK j \in 1 .. n : free[j] = g
    BY <1>10
  <2>2. j \notin 1 .. k
    BY <1>7, <2>1
  <2> QED
    BY <1>1, <1>2, <2>1, <2>2
<1>13. \A g \in all \ shown : \A s \in shown : s.end < g.start
  <2> TAKE g \in all \ shown
  <2> TAKE s \in shown
  <2>1. PICK j \in 1 .. n : free[j] = g /\ k < j
    BY <1>12
  <2>2. PICK i \in 1 .. k : i \in 1 .. n /\ s = free[i]
    BY <1>6
  <2>3. i < j
    BY <1>1, <1>2, <2>1, <2>2
  <2> QED
    BY <1>9, <2>1, <2>2, <2>3
<1>14. answer.truncated <=> all \ shown # {}
  <2>1. ASSUME n > MaxSlots PROVE all \ shown # {}
    <3> DEFINE j == k + 1
    <3>1. j \in 1 .. n /\ j \in Int /\ \A i \in 1 .. k : i < j
      BY <1>1, <1>2, <2>1
    <3> HIDE DEF j
    <3>2. free[j] \in all /\ free[j].start \in Int /\ free[j].end \in Int /\ free[j].start < free[j].end
      BY <1>8, <3>1
    <3>3. free[j] \notin shown
      <4> SUFFICES ASSUME free[j] \in shown PROVE FALSE
        OBVIOUS
      <4>1. PICK i \in 1 .. k : i \in 1 .. n /\ free[j] = free[i]
        BY <1>6
      <4>2. free[i].end < free[j].start
        BY <1>9, <3>1, <4>1
      <4> QED
        BY <3>2, <4>1, <4>2
    <3> QED
      BY <3>2, <3>3
  <2>2. ASSUME all \ shown # {} PROVE n > MaxSlots
    <3>1. PICK g \in all \ shown : TRUE
      BY <2>2
    <3>2. PICK j \in 1 .. n : free[j] = g /\ k < j
      BY <1>12, <3>1
    <3> QED
      BY <1>1, <1>2, <3>2
  <2> QED
    BY <1>4, <2>1, <2>2
<1>15. answer.truncated => Len(slots) = MaxSlots
  BY <1>1, <1>2, <1>4, <1>5
<1>16. \A i, j \in DOMAIN slots : i < j => slots[i].end < slots[j].start
  BY <1>5, <1>9
<1> QED
  BY <1>11, <1>13, <1>14, <1>15, <1>16 DEF ShowsEarliest, shown, slots

\* What is not read takes nothing of the range, on any clock.
LEMMA ReadIsEnough ==
  ASSUME DayLength \in Nat \ {0}, NEW z \in ZoneType, NEW q \in QueryType,
         NEW evs, evs \subseteq EventType, NEW t \in Int, q.from <= t, t < q.to
  PROVE  (\E c \in busyTimes(evs, z) : Covers(c, t)) <=> \E c \in busyTimes(Read(evs, q), z) : Covers(c, t)
<1>1. q.from \in Int /\ q.to \in Int
  BY DEF QueryType
<1>2. \A c \in busyTimes(Read(evs, q), z) : c \in busyTimes(evs, z)
  BY DEF busyTimes, Read
<1>3. ASSUME NEW c \in busyTimes(evs, z), Covers(c, t) PROVE c \in busyTimes(Read(evs, q), z)
  <2>1. PICK e \in evs : blocksTime(e) /\ e.from <= e.to /\ c = Busy(e, z)
    BY DEF busyTimes
  <2>2. e \in EventType /\ e.from \in Int /\ e.to \in Int
    BY DEF EventType
  <2> DEFINE l == DayLength
             start == placed(e, e.from, z)
             end == placed(e, e.to, z)
  <2>3. /\ start \in Int /\ e.from - l <= start /\ start <= e.from + l
        /\ end \in Int /\ e.to - l <= end /\ end <= e.to + l
    BY <2>2, Cut DEF placed
  <2>4. c.start = start /\ c.end = IF end > start \/ e.from = e.to THEN end ELSE start + (e.to - e.from)
    BY <2>1 DEF Busy
  <2>5. e.from = e.to => start = end
    BY DEF placed
  <2>6. l \in Int /\ l > 0
    OBVIOUS
  <2> HIDE DEF l, start, end
  <2>7. c.start <= t /\ t < c.end
    BY <1>3 DEF Covers
  <2>8. e.from < e.to
    BY <2>1, <2>2, <2>3, <2>4, <2>5, <2>7
  <2>9. e.from < q.to + l /\ e.to > q.from - l
    BY <1>1, <2>2, <2>3, <2>4, <2>6, <2>7, <2>8
  <2>10. e \in Read(evs, q)
    BY <2>8, <2>9 DEF Read, l
  <2> QED
    BY <2>1, <2>10 DEF busyTimes
<1> QED
  BY <1>2, <1>3

\* The events come from what may be put in, and an answer is to what was asked
\* of them.
AnsweredOnce ==
  /\ events \subseteq Events /\ IsFiniteSet(events)
  /\ reported \in Reports
  /\ asked # NoQuery => asked \in Queries /\ freeSlotSearch(asked) /\ found = answerTo(asked)

LEMMA AnsweredOnceKept == FSpec => []AnsweredOnce
<1>1. FreeTimeInit => AnsweredOnce
  BY FS_EmptySet DEF FreeTimeInit, AnsweredOnce
<1>2. AnsweredOnce /\ [FreeTimeNext]_fvars => AnsweredOnce'
  <2> SUFFICES ASSUME AnsweredOnce, [FreeTimeNext]_fvars PROVE AnsweredOnce'
    OBVIOUS
  <2>1. ASSUME NEW e \in Events, Put(e) PROVE AnsweredOnce'
    <3>1. IsFiniteSet(events \cup {e})
      BY FS_AddElement DEF AnsweredOnce
    <3> QED
      BY <2>1, <3>1 DEF AnsweredOnce, Put
  <2>2. ASSUME NEW q \in Queries, Find(q) PROVE AnsweredOnce'
    BY <2>2 DEF AnsweredOnce, Find, answerTo, zoneFor
  <2>3. CASE UNCHANGED fvars
    BY <2>3 DEF AnsweredOnce, fvars, answerTo, zoneFor
  <2> QED
    BY <2>1, <2>2, <2>3 DEF FreeTimeNext
<1> QED
  BY <1>1, <1>2, PTL DEF FSpec

LEMMA ZoneIs ==
  ASSUME FreeTimeAssumption, AnsweredOnce, NEW q \in QueryType
  PROVE  zoneFor(q) \in ZoneType
<1>1. reported \in Seq(Zones \cup {NoZone}) /\ Utc \in Zones /\ Zones \subseteq ZoneType
  BY DEF FreeTimeAssumption, AnsweredOnce
<1>2. reported # <<>> => reported[1] \in Zones \cup {NoZone}
  BY <1>1
<1>3. q.zone \in Zones \cup {NoZone}
  BY DEF QueryType
<1> QED
  BY <1>1, <1>2, <1>3 DEF zoneFor, workingZone

\* On every account, clock and set of events, the slots shown are the stretches
\* of the range that are within the hours and that no event of the calendar takes,
\* each whole, in order, the earliest when there are too many, and the answer says
\* when there are more (findFreeSlots(), freeSlots(), searchWindows(),
\* mergeBusy()).
THEOREM SlotsAreTheFreeStretches == FSpec => []SlotsAreWhatIsFree
<1>1. AnsweredOnce => SlotsAreWhatIsFree
  <2> DEFINE z == zoneFor(asked)
             all == Stretches(asked, z, busyTimes(events, z))
  <2> SUFFICES ASSUME AnsweredOnce, asked # NoQuery, HoursOrdinary(asked, z)
               PROVE  ShowsEarliest(found, all)
    BY DEF SlotsAreWhatIsFree, ShowsEarliest
  <2> DEFINE read == Read(events, asked)
             busy == busyTimes(read, z)
             whole == busyTimes(events, z)
             free == freeSlots(busy, asked, z)
  <2>1. DayLength \in Nat \ {0} /\ MaxSlots \in Nat
    BY FreeTimeAssumption DEF FreeTimeAssumption
  <2>2. asked \in QueryType /\ asked.from < asked.to /\ asked.length \in Nat \ {0}
    BY FreeTimeAssumption DEF FreeTimeAssumption, AnsweredOnce, freeSlotSearch, QueryType
  <2>3. z \in ZoneType
    BY <2>2, FreeTimeAssumption, ZoneIs
  <2>4. events \subseteq EventType /\ read \subseteq events /\ IsFiniteSet(events)
    BY FreeTimeAssumption DEF FreeTimeAssumption, AnsweredOnce, Read
  <2>5. found = Shorten(free)
    BY DEF AnsweredOnce, answerTo
  <2> HIDE DEF z
  <2>6. busy \subseteq Interval /\ IsFiniteSet(busy)
    <3>1. IsFiniteSet(read) /\ read \subseteq EventType
      BY <2>4, FS_Subset
    <3> HIDE DEF read
    <3> QED
      BY <2>1, <2>3, <3>1, BusyTimesAre
  <2>7. \A t \in Int : asked.from <= t /\ t < asked.to =>
          ((\E c \in whole : Covers(c, t)) <=> \E c \in busy : Covers(c, t))
    BY <2>1, <2>2, <2>3, <2>4, ReadIsEnough
  <2> HIDE DEF busy, whole, read
  <2>8. PICK open : /\ Complete(open, asked.length, free)
                    /\ \A g : g \in Stretches(asked, z, whole) <=> Stretch(open, asked.length, g)
    BY <2>1, <2>2, <2>3, <2>6, <2>7, SlotsAreStretches
  <2>9. \A g : g \in all <=> Stretch(open, asked.length, g)
    BY <2>8 DEF whole
  <2> HIDE DEF all, free
  <2> QED
    BY <2>1, <2>2, <2>5, <2>8, <2>9, ShortenIs
<1> QED
  BY <1>1, AnsweredOnceKept, PTL

\* On every clock, an event that takes time and has a length takes some, and one
\* that floats between ordinary clock times takes the instants that show its times
\* and no others (busyTimes(), wallToInstantBy()).
THEOREM EveryEventTakesItsTime == FSpec => []EventsTakeTheirTime
<1>1. AnsweredOnce => EventsTakeTheirTime
  <2> SUFFICES ASSUME AnsweredOnce, NEW z \in Zones, NEW e \in events, blocksTime(e), e.from < e.to
               PROVE  \E b \in busyTimes(events, z) : TakesItsTime(e, z, b)
    BY DEF EventsTakeTheirTime, TakesItsTime
  <2>1. DayLength \in Nat \ {0} /\ Horizon \in Nat /\ z \in ZoneType /\ e \in EventType
    BY FreeTimeAssumption DEF FreeTimeAssumption, AnsweredOnce
  <2>2. Busy(e, z) \in busyTimes(events, z)
    <3>1. e.from <= e.to
      BY <2>1 DEF EventType
    <3> QED
      BY <3>1 DEF busyTimes
  <2>3. TakesItsTime(e, z, Busy(e, z))
    BY <2>1, TimeIsTaken
  <2> QED
    BY <2>2, <2>3
<1> QED
  BY <1>1, AnsweredOnceKept, PTL

=============================================================================
