--------------------------- MODULE ExpansionPool ---------------------------
(***************************************************************************)
(* The pool of worker threads every recurrence expansion runs in           *)
(* (src/src/ical-worker-pool.ts), shared by all accounts.                  *)
(*                                                                         *)
(* A request is one runOnEach() call (or runOn(), a request of one         *)
(* object): its objects are submitted in one turn of the event loop and    *)
(* settled one by one.  Every handler of the pool ends in pump(); here it  *)
(* is the set of the states pump() may leave, so that a handler is one     *)
(* action.  Time is left out: a deadline may fire whenever a worker holds  *)
(* an object, and an hour may pass between any two steps.                  *)
(***************************************************************************)
EXTENDS Integers, FiniteSets, SequencesExt

CONSTANTS
  Requests,      \* the calls of runOnEach() and runOn()
  Objects,       \* stored calendar objects, each with its version (objectKey)
  Work,          \* the objects of each request, in order
  Workers,       \* identities of worker threads; one is reused once it is off
  Size,          \* workers kept (EXPANSION_WORKERS)
  MaxRemembered, \* timed-out objects remembered (HANGING_REMEMBERED_MAX)
  NoTask         \* a worker's task slot when it has none

\* A task is one object of one request.
Task == UNION {{r} \X (1..Len(Work[r])) : r \in Requests}

Settled == {"resolved", "failed", "timedOut", "poolClosed"}

ASSUME PoolAssumption ==
  /\ IsFiniteSet(Requests)
  /\ Work \in [Requests -> Seq(Objects)]
  /\ IsFiniteSet(Workers)
  /\ Size \in Nat \ {0}
  /\ MaxRemembered \in Nat \ {0}
  /\ NoTask \notin Task

VARIABLES
  pool,     \* the pool's own fields, and the promises it has handed out
  passed,   \* history: who got a worker while a request waited with none
  cost      \* history: deadlines an object ran out since it was last forgotten

vars == <<pool, passed, cost>>

KeyOf(t) == Work[t[1]][t[2]]

PoolType ==
  [ closed  : BOOLEAN,
    outcome : [Task -> {"unsent", "pending"} \cup Settled],
    waiting : SUBSET Task,           \* the tasks of the groups queued
    order   : Seq(Requests),         \* groups with tasks waiting, in turn order
    running : [Requests -> Nat],     \* group.running
    slot    : [Workers -> {"none", "loading", "ready"}],
    held    : [Workers -> Task \cup {NoTask}],   \* slot.task, and its timer
    thread  : [Workers -> {"off", "loading", "idle", "working", "dying"}],
    job     : [Workers -> Task \cup {NoTask}],   \* what the thread was posted
    hanging : Seq(Objects) ]         \* remembered, the oldest first

-----------------------------------------------------------------------------
(* What the handlers read.                                                 *)

Slots(p) == {w \in Workers : p.slot[w] # "none"}
Loading(p) == {w \in Workers : p.slot[w] = "loading"}
Idle(p) == {w \in Workers : p.slot[w] = "ready" /\ p.held[w] = NoTask}

\* knownHanging()
Known(p, k) == Contains(p.hanging, k)

\* Tasks of t's group ahead of it: tasks are shifted in the order pushed.
Rank(p, t) == Cardinality({u \in p.waiting : u[1] = t[1] /\ u[2] < t[2]})

Position(p, r) == CHOOSE i \in DOMAIN p.order : p.order[i] = r

\* The order take() goes through the queue in: the group with the fewest tasks
\* in a worker first, the earliest in turn among equals; a group that took goes
\* behind its equals, so their tasks come round by round.
Before(p, t, u) ==
  LET r == p.running[t[1]]  s == p.running[u[1]]
      i == Rank(p, t)       j == Rank(p, u)
  IN  \/ r < s
      \/ r = s /\ i < j
      \/ r = s /\ i = j /\ Position(p, t[1]) < Position(p, u[1])

\* Faulty: a group with tasks left keeps its place instead of going to the back.
UnmovedOrders(p, T) ==
  LET earlier(r, s) == Position(p, r) < Position(p, s)
  IN  {o \in SetToSeqs({t[1] : t \in p.waiting \ T}) : IsSorted(o, earlier)}

\* The turn orders that taking the tasks T out of the queue leaves: groups that
\* took go to the back, the one that took last behind the others.
TurnOrders(p, T) ==
  LET took(r) == \E t \in T : t[1] = r
      lastOf(r) == CHOOSE t \in T : t[1] = r /\ \A u \in T : u[1] = r => u[2] <= t[2]
      earlier(r, s) ==
        \/ ~took(r) /\ took(s)
        \/ ~took(r) /\ ~took(s) /\ Position(p, r) < Position(p, s)
        \/ took(r) /\ took(s) /\ Before(p, lastOf(r), lastOf(s))
  IN  {o \in SetToSeqs({t[1] : t \in p.waiting \ T}) : IsSorted(o, earlier)}

-----------------------------------------------------------------------------
(* The pieces the handlers are made of, as functions of the pool's state.  *)

\* A promise settles once; settling it again changes nothing.
Settle(p, T, how) ==
  [p EXCEPT !.outcome =
     [t \in Task |-> IF t \in T /\ @[t] = "pending" THEN how ELSE @[t]]]

\* Every task queued is rejected.
RefuseAll(p, how) ==
  [Settle(p, p.waiting, how) EXCEPT !.waiting = {}, !.order = <<>>]

\* dispatch(): the worker takes the task, its timer starts, the job is posted.
Dispatch(p, w, t) ==
  [p EXCEPT !.held[w] = t, !.thread[w] = "working", !.job[w] = t,
           !.running[t[1]] = @ + 1]

\* Faulty: a task whose object timed out while it was queued is run again.
TakeUnchecked(p, w) ==
  LET skipped(t) == {u \in p.waiting : Before(p, u, t)}
  IN  UNION {{Dispatch([p EXCEPT !.waiting = @ \ {t}, !.order = o], w, t)
                : o \in TurnOrders(p, {t})}
             : t \in {u \in p.waiting : skipped(u) = {}}}

\* take() for an idle worker: tasks known to hang are refused on the way to the
\* first that is not, which the worker gets; with none left it stays idle.
TakeFor(p, w) ==
  LET runnable == {t \in p.waiting : ~Known(p, KeyOf(t))}
      skipped(t) == {u \in p.waiting : Before(p, u, t)}
      first == {t \in runnable : skipped(t) \cap runnable = {}}
      taking(t) == skipped(t) \cup {t}
  IN  IF runnable = {}
      THEN {RefuseAll(p, "timedOut")}
      ELSE UNION {{Dispatch([Settle(p, skipped(t), "timedOut")
                               EXCEPT !.waiting = @ \ taking(t), !.order = o], w, t)
                     : o \in TurnOrders(p, taking(t))} : t \in first}

\* The first loop of pump().  Its body runs at most once a call: a handler makes
\* at most one worker idle or adds one task, and QueueIsServed is the loop's
\* exit condition.
Taken(p) ==
  IF Idle(p) = {} \/ p.waiting = {}
  THEN {p}
  ELSE UNION {TakeFor(p, w) : w \in Idle(p)}

\* The second loop of pump(), with spawn(): k of the workers wanted start; when
\* fewer do, startWorker() threw, and with no worker left the queue is refused.
Spawned(p) ==
  LET short == Cardinality(p.waiting) - Cardinality(Loading(p))
      room == Size - Cardinality(Slots(p))
      wanted == IF short < room THEN short ELSE room
      started(N) ==
        [p EXCEPT !.slot = [w \in Workers |-> IF w \in N THEN "loading" ELSE @[w]],
                  !.thread = [w \in Workers |-> IF w \in N THEN "loading" ELSE @[w]]]
      fresh == {w \in Workers : p.slot[w] = "none" /\ p.thread[w] = "off"}
  IN  IF wanted <= 0
      THEN {p}
      ELSE {IF Cardinality(N) < wanted /\ Slots(p) \cup N = {}
            THEN RefuseAll(p, "failed")
            ELSE started(N)
              : N \in {M \in SUBSET fresh : Cardinality(M) <= wanted}}

\* pump()
Pump(p) == UNION {Spawned(q) : q \in Taken(p)}

\* release(): the slot gives up its task, the task's group has one fewer on a
\* worker.
Release(p, w) ==
  IF p.held[w] = NoTask
  THEN p
  ELSE [p EXCEPT !.running[p.held[w][1]] = @ - 1, !.held[w] = NoTask]

\* remove() and release(): the slot leaves the pool.  Its thread lives on until
\* it exits.
Removed(p, w) == [Release(p, w) EXCEPT !.slot[w] = "none"]

\* rememberHanging(): an object remembered again counts as new, and past the
\* limit the oldest is forgotten.
Remember(p, k) ==
  LET others == RemoveFirst(p.hanging, k)
      kept == IF Len(others) >= MaxRemembered THEN Tail(others) ELSE others
  IN  [p EXCEPT !.hanging = Append(kept, k)]

\* Faulty: no worker is started for the queue the lost one leaves.
LostWithoutPump(p, w) ==
  LET q == Settle(Removed(p, w), {p.held[w]} \ {NoTask}, "failed")
  IN  IF p.slot[w] = "none" THEN {p}
      ELSE IF p.slot[w] = "loading" THEN {RefuseAll(q, "failed")} ELSE {q}

\* lose(): a worker gone other than by its deadline.  One that never became
\* ready fails the whole queue, and pump() is not called.
Lost(p, w) ==
  LET t == p.held[w]
      q == Settle(Removed(p, w), {t} \ {NoTask}, "failed")
  IN  IF p.slot[w] = "none"    THEN {p}
      ELSE IF p.slot[w] = "loading" THEN {RefuseAll(q, "failed")}
      ELSE Pump(q)

-----------------------------------------------------------------------------
(* The handlers.  runOnEach() submits all its objects before anything else  *)
(* on the thread runs.                                                      *)

Sent(r) == {t \in Task : t[1] = r /\ pool.outcome[t] # "unsent"}
Unsent(r) == {t \in Task : t[1] = r /\ pool.outcome[t] = "unsent"}
Submitting(r) == Sent(r) # {} /\ Unsent(r) # {}
ThreadFree == \A r \in Requests : ~Submitting(r)

\* submit(), for the next object of request r
Submit(r) ==
  /\ \A s \in Requests \ {r} : ~Submitting(s)
  /\ \E t \in Unsent(r) :
       /\ \A u \in Unsent(r) : t[2] <= u[2]
       /\ pool' \in
            IF pool.closed
            THEN {[pool EXCEPT !.outcome[t] = "poolClosed"]}
            ELSE IF Known(pool, KeyOf(t))
            THEN {[pool EXCEPT !.outcome[t] = "timedOut"]}
            ELSE Pump([pool EXCEPT
                         !.outcome[t] = "pending",
                         !.waiting = @ \cup {t},
                         !.order = IF \E u \in pool.waiting : u[1] = r
                                   THEN @ ELSE Append(@, r)])

\* A worker has loaded: { ready: true }
Ready(w) ==
  /\ pool.thread[w] = "loading"
  /\ LET q == [pool EXCEPT !.thread[w] = "idle",
                            !.slot[w] = IF @ = "loading" THEN "ready" ELSE @]
     IN  pool' \in Pump(q)

\* A worker answers { id, result } or { id, error }; an answer to another task
\* than the one the slot has is ignored.
Answer(w) ==
  /\ pool.thread[w] = "working"
  /\ LET t == pool.job[w]
         q == [pool EXCEPT !.thread[w] = "idle", !.job[w] = NoTask]
     IN  IF pool.held[w] # t
         THEN pool' = q
         ELSE \E how \in {"resolved", "failed"} :
                pool' \in Pump(Settle(Release(q, w), {t}, how))

\* The deadline of the object worker w has runs out.
Timeout(w) ==
  /\ pool.slot[w] # "none"
  /\ pool.held[w] # NoTask
  /\ LET t == pool.held[w]
     IN  pool' \in Pump(Remember(Settle(Removed(pool, w), {t}, "timedOut"), KeyOf(t)))

\* The worker's "error" event: it threw outside an operation or ran out of heap.
Error(w) ==
  /\ pool.thread[w] \notin {"off", "dying"}
  /\ pool' \in Lost([pool EXCEPT !.thread[w] = "dying", !.job[w] = NoTask], w)

\* The worker's "exit" event, after terminate(), an error, or on its own.
Exit(w) ==
  /\ pool.thread[w] # "off"
  /\ pool' \in Lost([pool EXCEPT !.thread[w] = "off", !.job[w] = NoTask], w)

\* HANGING_REMEMBERED_MS passes for the oldest object remembered.
Forget ==
  /\ pool.hanging # <<>>
  /\ pool' = [pool EXCEPT !.hanging = Tail(@)]

\* Faulty: what is queued is left to settle by itself.
CloseKeepingQueue ==
  /\ ~pool.closed
  /\ LET atWork == {pool.held[w] : w \in Slots(pool)} \ {NoTask}
     IN  pool' = [Settle(pool, atWork, "poolClosed")
                    EXCEPT !.closed = TRUE, !.slot = [w \in Workers |-> "none"]]

\* close(): the slots leave the pool with their tasks on them.
Close ==
  /\ ~pool.closed
  /\ LET atWork == {pool.held[w] : w \in Slots(pool)} \ {NoTask}
         q == RefuseAll(Settle(pool, atWork, "poolClosed"), "poolClosed")
     IN  pool' = [q EXCEPT !.closed = TRUE, !.slot = [w \in Workers |-> "none"]]

-----------------------------------------------------------------------------
(* History: what the properties observe of a step.                          *)

\* The tasks workers take in the step.
Took == {pool'.held[w] : w \in {v \in Workers : pool'.held[v] # pool.held[v]}} \ {NoTask}

\* passed[r][s]: objects of s a worker took since r has been waiting with none
\* of its own in a worker, or since r last had its turn.
Passing ==
  passed' = [r \in Requests |->
    LET waits == pool'.running[r] = 0 /\ \E t \in pool'.waiting : t[1] = r
        hadTurn == \E t \in pool.waiting \ pool'.waiting : t[1] = r
    IN  [s \in Requests |->
           IF ~waits \/ hadTurn THEN 0
           ELSE passed[r][s] + Cardinality({t \in Took : t[1] = s})]]

\* cost[k]: deadlines object k has run out since it was last not remembered; the
\* step is the deadline of an object expired.
Costing(expired) ==
  cost' = [k \in Objects |->
    IF ~Known(pool', k) THEN 0 ELSE IF k \in expired THEN cost[k] + 1 ELSE cost[k]]

Init ==
  /\ pool = [ closed  |-> FALSE,
              outcome |-> [t \in Task |-> "unsent"],
              waiting |-> {},
              order   |-> <<>>,
              running |-> [r \in Requests |-> 0],
              slot    |-> [w \in Workers |-> "none"],
              held    |-> [w \in Workers |-> NoTask],
              thread  |-> [w \in Workers |-> "off"],
              job     |-> [w \in Workers |-> NoTask],
              hanging |-> <<>> ]
  /\ passed = [r \in Requests |-> [s \in Requests |-> 0]]
  /\ cost = [k \in Objects |-> 0]

\* A step of the thread: a handler runs to its end, and only between requests.
Handled(expired) == ThreadFree /\ Costing(expired) /\ Passing

SubmitStep(r) == Submit(r) /\ Costing({}) /\ Passing
TimeoutStep(w) == Timeout(w) /\ Handled({KeyOf(pool.held[w])})
ReadyStep(w) == Ready(w) /\ Handled({})
AnswerStep(w) == Answer(w) /\ Handled({})
ErrorStep(w) == Error(w) /\ Handled({})
ExitStep(w) == Exit(w) /\ Handled({})
ForgetStep == Forget /\ Handled({})
CloseStep == Close /\ Handled({})

Next ==
  \/ \E r \in Requests : SubmitStep(r)
  \/ \E w \in Workers : \/ TimeoutStep(w) \/ ReadyStep(w) \/ AnswerStep(w)
                       \/ ErrorStep(w) \/ ExitStep(w)
  \/ ForgetStep
  \/ CloseStep

Spec == Init /\ [][Next]_vars

-----------------------------------------------------------------------------
(* Properties.                                                              *)

TypeOK ==
  /\ pool \in PoolType
  /\ Len(pool.hanging) <= MaxRemembered
  /\ Cardinality(Slots(pool)) <= Size
  /\ passed \in [Requests -> [Requests -> Nat]]
  /\ cost \in [Objects -> Nat]

\* The workers of the pool that have task t, and those with a task of request r.
Holding(p, t) == {w \in Slots(p) : p.held[w] = t}
WorkersOn(p, r) == {w \in Workers : p.held[w] # NoTask /\ p.held[w][1] = r}

Placed(p) ==
  \A t \in Task :
    /\ p.outcome[t] = "pending" <=> t \in p.waiting \/ Holding(p, t) # {}
    /\ t \in p.waiting => Holding(p, t) = {}
    /\ \A v, w \in Holding(p, t) : v = w

Counted(p) == \A r \in Requests : p.running[r] = Cardinality(WorkersOn(p, r))

Served(p) == p.waiting # {} => Slots(p) # {} /\ Idle(p) = {}

\* A promise handed out and not settled is a task that is either queued or on
\* exactly one worker of the pool, never both and never neither: no handler
\* drops a task, and nothing settled is still worked on.
PendingHasOnePlace == Placed(pool)

\* group.running, which take() orders by, is the number of the group's tasks on
\* a worker: no exit, timeout or answer leaves it too high or too low.
RunningCountsWorkers == Counted(pool)

\* While anything is queued a worker is coming for it: the pool has workers and
\* none of them idles.  Without it a request would wait for ever.
QueueIsServed == Served(pool)

\* An object that never ends costs a deadline once per worker that already had
\* it, however many requests it is queued in: then it is remembered.
HangingCostBounded == \A k \in Objects : cost[k] <= Size

\* A request that waits with nothing in a worker sees every other request take
\* at most one object before its own turn comes.
OneTurnAhead == \A r, s \in Requests : passed[r][s] <= 1

Promise == INSTANCE ExpansionPromise WITH outcome <- pool.outcome, closed <- pool.closed

\* The pool keeps its promise.
PromiseKept == Promise!Safety
=============================================================================
