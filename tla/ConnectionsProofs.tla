-------------------------- MODULE ConnectionsProofs --------------------------
(***************************************************************************)
(* Connections for every set of calls, accounts, folders and sockets, and  *)
(* every number of reloads: its types, that an open connection is one its  *)
(* client keeps and was begun since the client was last closed, that every *)
(* command runs in the mailbox its call locked, and that a mail the server *)
(* took is not answered as an error.                                       *)
(***************************************************************************)
EXTENDS Connections, SequenceTheorems, TLAPS

\* An attempt under way.
Begun(s) == sock[s].st \in {"tls", "dialing"}

InQueue(s, c) == \E i \in 1..Len(sock[s].queue) : sock[s].queue[i] = c

\* A connection and the client it is for: of the attempts of a client only the one
\* it is waiting for was begun since it was last closed, and none is begun while the
\* client has an open connection.
SocketInv(s) ==
  /\ sock[s].st # "gone" => sock[s].of \in Boxes
  /\ sock[s].st = "open" => box[sock[s].of].client = s
  /\ Begun(s) => sock[s].gen <= box[sock[s].of].gen
  /\ Begun(s) /\ ~Abandoned(s) => box[sock[s].of].connecting = s /\ ~usable(sock[s].of)

\* What a client refers to: an open connection of its own or a dead one, which stands
\* for nothing else as long as it is referred to, and its own last attempt.
BoxInv(b) ==
  \A s \in Sockets :
    /\ box[b].client = s =>
         /\ sock[s].st \in {"gone", "open"}
         /\ sock[s].st = "open" => sock[s].of = b /\ sock[s].gen = box[b].gen
    /\ box[b].connecting = s => Begun(s) /\ sock[s].of = b /\ sock[s].gen = box[b].gen

ConnectionsInv == (\A s \in Sockets : SocketInv(s)) /\ (\A b \in Boxes : BoxInv(b))

\* A call asks for a connection's lock once.
QueuesInv ==
  \A s \in Sockets : \A i, j \in 1..Len(sock[s].queue) :
    sock[s].queue[i] = sock[s].queue[j] => i = j

\* A call by itself.
CallFacts(r) ==
  /\ r.folder # None => Locks(r.tool)
  /\ ~r.stray
  /\ r.st = "done" => /\ r.accepted => r.answer # "error"
                      /\ r.lines = IF r.answer \in {"error", "unsaved"} THEN 1 ELSE 0
  /\ r.st # "done" => /\ r.box \in Boxes
                      /\ r.lines = 0
                      /\ r.accepted => r.tool = "send"
  /\ r.st = "sending" => r.tool = "send"
  /\ r.st \in {"waiting", "holding", "queued", "locked"} => r.sock \in Sockets

CallsInv == \A c \in Calls : CallFacts(call[c])

\* A call and the connection it holds: it is where it stands in the queue, and with the
\* lock goes the mailbox, as long as the connection answers.
CallPlace(c) ==
  LET r == call[c]
  IN  /\ r.st \in {"holding", "queued", "locked"} => ~Begun(r.sock)
      /\ r.st = "queued" /\ Alive(r.sock) => InQueue(r.sock, c)
      /\ r.st = "locked" /\ Alive(r.sock) => sock[r.sock].lock = c /\ sock[r.sock].sel = r.folder
      /\ \A s \in Sockets : InQueue(s, c) => r.sock = s /\ r.st = "queued"
      /\ \A s \in Sockets : sock[s].lock = c => r.sock = s /\ r.st = "locked"

PlacesInv == \A c \in Calls : CallPlace(c)

Inv == TypeOK /\ ConnectionsInv /\ QueuesInv /\ CallsInv /\ PlacesInv

-----------------------------------------------------------------------------
(* Calls that end.                                                         *)

LEMMA NoSocketType == NoSocket \in SocketType
<1>1. <<>> \in Seq(Calls)
  OBVIOUS
<1> QED
  BY <1>1 DEF NoSocket, SocketType, SocketStates

LEMMA EndsWell ==
  ASSUME NEW r \in CallType, CallFacts(r), r.st # "done"
  PROVE  /\ Faulted(r) \in CallType /\ CallFacts(Faulted(r)) /\ Faulted(r).st = "done"
         /\ Answered(r) \in CallType /\ CallFacts(Answered(r)) /\ Answered(r).st = "done"
         /\ LET u == Ended(r, "unbuilt", 0)
            IN  u \in CallType /\ CallFacts(u) /\ u.st = "done"
<1>1. ASSUME NEW answer \in {"ok", "error", "unsaved", "unbuilt"}, NEW n \in Nat,
             r.accepted => answer # "error",
             n = IF answer \in {"error", "unsaved"} THEN 1 ELSE 0
      PROVE  /\ Ended(r, answer, n) \in CallType /\ CallFacts(Ended(r, answer, n))
             /\ Ended(r, answer, n).st = "done"
  <2> DEFINE e == Ended(r, answer, n)
  <2>0. NoCall \in CallType /\ NoCall.folder = None
    BY DEF NoCall, CallType
  <2> DEFINE done(x, y) == [NoCall EXCEPT !.st = "done", !.stray = x, !.accepted = y, !.answer = answer, !.lines = n]
  <2>1. \A x, y \in BOOLEAN :
          /\ done(x, y) \in CallType
          /\ done(x, y).st = "done" /\ done(x, y).folder = None /\ done(x, y).answer = answer /\ done(x, y).lines = n
          /\ done(x, y).stray = x /\ done(x, y).accepted = y
    <3> HIDE DEF done
    <3> SUFFICES ASSUME NEW x \in BOOLEAN, NEW y \in BOOLEAN
                 PROVE  /\ done(x, y) \in CallType
                        /\ done(x, y).st = "done" /\ done(x, y).folder = None
                        /\ done(x, y).answer = answer /\ done(x, y).lines = n
                        /\ done(x, y).stray = x /\ done(x, y).accepted = y
      OBVIOUS
    <3>1. \A w \in CallType : [w EXCEPT !.st = "done", !.stray = x, !.accepted = y,
                                        !.answer = answer, !.lines = n] \in CallType
      BY ZenonT(60) DEF CallType
    <3>2. done(x, y) \in CallType
      BY <2>0, <3>1 DEF done
    <3>3. /\ done(x, y).st = "done" /\ done(x, y).folder = None
          /\ done(x, y).answer = answer /\ done(x, y).lines = n
      BY <2>0 DEF CallType, done
    <3>4. done(x, y).stray = x
      BY <2>0 DEF CallType, done
    <3>5. done(x, y).accepted = y
      BY <2>0 DEF CallType, done
    <3> QED
      BY <3>2, <3>3, <3>4, <3>5
  <2>2. r.stray \in BOOLEAN /\ r.accepted \in BOOLEAN
    BY DEF CallType
  <2>3. /\ e \in CallType
        /\ e.st = "done" /\ e.folder = None /\ e.answer = answer /\ e.lines = n
        /\ e.stray = r.stray /\ e.accepted = r.accepted
    <3>1. e = done(r.stray, r.accepted)
      BY DEF Ended
    <3> HIDE DEF e, done
    <3> QED
      BY <2>1, <2>2, <3>1, Zenon
  <2>4. CallFacts(e)
    <3>1. ~r.stray
      BY DEF CallFacts
    <3> HIDE DEF e
    <3> QED
      BY <1>1, <2>3, <3>1 DEF CallFacts
  <2> QED
    BY <2>3, <2>4
<1>2. r.lines = 0 /\ (r.accepted => r.tool = "send")
  BY DEF CallFacts
<1>3. Faulted(r) = Ended(r, IF r.tool = "send" /\ r.accepted THEN "unsaved" ELSE "error", 1)
  BY <1>2 DEF Faulted
<1>4. Answered(r) = Ended(r, "ok", 0)
  BY <1>2 DEF Answered
<1> QED
  BY <1>1, <1>2, <1>3, <1>4

\* A queue has a call at most once, and whether it has it.
Once(q) == \A i, j \in 1..Len(q) : q[i] = q[j] => i = j

Among(q, d) == \E i \in 1..Len(q) : q[i] = d

\* A queue that a call leaves.
LEMMA QueueLeft ==
  ASSUME NEW q \in Seq(Calls), Once(q), NEW c,
         NEW l, l = RemoveFirst(q, c)
  PROVE  l \in Seq(Calls) /\ Once(l) /\ \A d : Among(l, d) <=> d # c /\ Among(q, d)
<1> USE DEF Once, Among
<1> DEFINE I == {i \in 1..Len(q) : q[i] = c}
<1>1. CASE I = {}
  BY <1>1 DEF RemoveFirst
<1>2. CASE I # {}
  <2>1. PICK k \in 1..Len(q) : q[k] = c
    BY <1>2
  <2>2. I = {k}
    BY <2>1
  <2>3. (CHOOSE x \in I : \A y \in I : x =< y) = k
    BY <2>1, <2>2
  <2>4. l = SubSeq(q, 1, k - 1) \o SubSeq(q, k + 1, Len(q))
    BY <1>2, <2>3 DEF RemoveFirst, RemoveAt, SelectInSeq, Min
  <2> DEFINE n == Len(q)
             f == SubSeq(q, 1, k - 1)
             g == SubSeq(q, k + 1, n)
  <2>5. n \in Nat /\ k \in 1..n
    BY <2>1
  <2>6. f \in Seq(Calls) /\ Len(f) = k - 1 /\ \A i \in 1..(k - 1) : f[i] = q[i]
    BY <2>5
  <2>7. g \in Seq(Calls) /\ Len(g) = n - k /\ \A i \in 1..(n - k) : g[i] = q[k + i]
    BY <2>5
  <2> HIDE DEF f, g, n
  <2>8. /\ l \in Seq(Calls) /\ Len(l) = n - 1
        /\ \A i \in 1..(n - 1) : l[i] = IF i < k THEN q[i] ELSE q[i + 1]
    <3>1. l = f \o g
      BY <2>4 DEF f, g, n
    <3>2. /\ l \in Seq(Calls) /\ Len(l) = Len(f) + Len(g)
          /\ \A i \in 1..(Len(f) + Len(g)) : l[i] = IF i <= Len(f) THEN f[i] ELSE g[i - Len(f)]
      BY <2>6, <2>7, <3>1, ConcatProperties
    <3> QED
      BY <2>5, <2>6, <2>7, <3>2
  <2>9. \A i, j \in 1..Len(l) : l[i] = l[j] => i = j
    BY <2>5, <2>8 DEF n
  <2>10. ASSUME NEW d
         PROVE  (\E i \in 1..Len(l) : l[i] = d) <=> d # c /\ (\E i \in 1..n : q[i] = d)
    <3>1. ASSUME NEW i \in 1..(n - 1), l[i] = d
          PROVE  d # c /\ \E j \in 1..n : q[j] = d
      <4>1. PICK j \in 1..n : j # k /\ q[j] = d
        BY <2>5, <2>8, <3>1
      <4> QED
        BY <2>1, <4>1 DEF n
    <3>2. ASSUME NEW j \in 1..n, q[j] = d, d # c
          PROVE  \E i \in 1..(n - 1) : l[i] = d
      <4>1. j # k
        BY <2>1, <3>2
      <4>2. CASE j < k
        BY <2>5, <2>8, <3>2, <4>2
      <4>3. CASE j > k
        <5>1. j - 1 \in 1..(n - 1) /\ l[j - 1] = q[j]
          BY <2>5, <2>8, <4>3
        <5> QED
          BY <3>2, <5>1
      <4> QED
        BY <2>5, <4>1, <4>2, <4>3
    <3> QED
      BY <2>8, <3>1, <3>2
  <2> QED
    BY <2>8, <2>9, <2>10 DEF n
<1> QED
  BY <1>1, <1>2

-----------------------------------------------------------------------------
(* What steps have in common.                                              *)

LEMMA CallStep ==
  ASSUME TypeOK, CallsInv, NEW c \in Calls, NEW r \in CallType, CallFacts(r),
         call' = [call EXCEPT ![c] = r]
  PROVE  /\ call' \in [Calls -> CallType] /\ CallsInv'
         /\ call'[c] = r /\ \A d \in Calls \ {c} : call'[d] = call[d]
<1>1. \A d \in Calls : call'[d] = IF d = c THEN r ELSE call[d]
  BY DEF TypeOK
<1>2. \A d \in Calls : CallFacts(call'[d])
  BY <1>1 DEF CallsInv
<1>3. CallsInv'
  BY <1>2 DEF CallsInv
<1> QED
  BY <1>1, <1>3 DEF TypeOK

\* Locks, mailboxes and queues are nothing to the clients.
LEMMA SameConnections ==
  ASSUME ConnectionsInv, box' = box,
         \A s \in Sockets : /\ sock'[s].st = sock[s].st /\ sock'[s].of = sock[s].of
                            /\ sock'[s].gen = sock[s].gen,
         TypeOK
  PROVE  ConnectionsInv'
<1>1. ASSUME NEW s \in Sockets
      PROVE  SocketInv(s)'
  <2>1. SocketInv(s)
    BY DEF ConnectionsInv
  <2>2. /\ Begun(s)' = Begun(s) /\ Abandoned(s)' = Abandoned(s)
        /\ sock'[s].st = sock[s].st /\ sock'[s].of = sock[s].of /\ sock'[s].gen = sock[s].gen
    BY DEF Begun, Abandoned
  <2>3. ASSUME NEW b \in Boxes
        PROVE  usable(b)' = usable(b)
    BY DEF usable, TypeOK, BoxType
  <2>4. Begun(s) => sock[s].of \in Boxes
    BY <2>1 DEF SocketInv, Begun
  <2> QED
    BY <2>1, <2>2, <2>3, <2>4 DEF SocketInv
<1>2. ASSUME NEW b \in Boxes
      PROVE  BoxInv(b)'
  BY DEF ConnectionsInv, BoxInv, Begun
<1> QED
  BY <1>1, <1>2 DEF ConnectionsInv

\* A call that neither has nor gets a place in a queue or a lock.
LEMMA PassesBy ==
  ASSUME PlacesInv, sock' = sock, NEW c \in Calls, NEW r,
         call'[c] = r, \A d \in Calls \ {c} : call'[d] = call[d],
         call[c].st \notin {"queued", "locked"}, r.st \notin {"queued", "locked"},
         r.st = "holding" => ~Begun(r.sock)
  PROVE  PlacesInv'
<1> SUFFICES ASSUME NEW d \in Calls
             PROVE  CallPlace(d)'
  BY DEF PlacesInv
<1>1. CallPlace(d) /\ CallPlace(c)
  BY DEF PlacesInv
<1>2. CASE d = c
  BY <1>1, <1>2 DEF CallPlace, Begun, Alive, InQueue
<1>3. CASE d # c
  <2>1. call'[d] = call[d]
    BY <1>3
  <2> QED
    BY <1>1, <2>1 DEF CallPlace, Begun, Alive, InQueue
<1> QED
  BY <1>2, <1>3

\* The lock's `finally`, or a request for it given up: the call is off the connection.
LEMMA Leaves ==
  ASSUME Inv, NEW c \in Calls, call[c].st \in {"holding", "queued", "locked"}, release(c),
         NEW r, call'[c] = r, \A d \in Calls \ {c} : call'[d] = call[d], r.st = "done"
  PROVE  /\ sock' \in [Sockets -> SocketType]
         /\ \A s \in Sockets : /\ sock'[s].st = sock[s].st /\ sock'[s].of = sock[s].of
                               /\ sock'[s].gen = sock[s].gen
         /\ QueuesInv' /\ PlacesInv'
<1> DEFINE x == call[c].sock
           q == sock[x].queue
           l == RemoveFirst(q, c)
<1>1. x \in Sockets
  BY DEF Inv, CallsInv, CallFacts
<1>2. sock[x] \in SocketType /\ q \in Seq(Calls)
  BY <1>1 DEF Inv, TypeOK, SocketType
<1>3. /\ l \in Seq(Calls)
      /\ \A i, j \in 1..Len(l) : l[i] = l[j] => i = j
      /\ \A d : (\E i \in 1..Len(l) : l[i] = d) <=> d # c /\ (\E i \in 1..Len(q) : q[i] = d)
  <2>1. Once(q)
    BY <1>1 DEF Inv, QueuesInv, Once
  <2>2. q \in Seq(Calls) /\ l = RemoveFirst(q, c)
    BY <1>2
  <2> HIDE DEF x, q, l
  <2>3. l \in Seq(Calls) /\ Once(l) /\ \A d : Among(l, d) <=> d # c /\ Among(q, d)
    BY <2>1, <2>2, QueueLeft
  <2> QED
    BY <2>3 DEF Once, Among
<1>4. sock' = [sock EXCEPT ![x] = Left(sock[x], c)]
  BY DEF release
<1> HIDE DEF x, q, l
<1>5. /\ Left(sock[x], c) \in SocketType
      /\ LET y == Left(sock[x], c)
         IN  /\ y.st = sock[x].st /\ y.of = sock[x].of /\ y.gen = sock[x].gen
             /\ y.sel = sock[x].sel /\ y.queue = l
             /\ y.lock = IF sock[x].lock = c THEN None ELSE sock[x].lock
  BY <1>2, <1>3 DEF Left, SocketType, l, q
<1>6. /\ sock' \in [Sockets -> SocketType]
      /\ \A s \in Sockets : /\ sock'[s].st = sock[s].st /\ sock'[s].of = sock[s].of
                            /\ sock'[s].gen = sock[s].gen /\ sock'[s].sel = sock[s].sel
                            /\ s # x => sock'[s] = sock[s]
      /\ sock'[x].queue = l
      /\ sock'[x].lock = IF sock[x].lock = c THEN None ELSE sock[x].lock
  BY <1>1, <1>4, <1>5 DEF Inv, TypeOK
<1>7. QueuesInv'
  BY <1>3, <1>6 DEF Inv, QueuesInv
<1>8. \A s \in Sockets, d \in Calls : InQueue(s, d)' <=> InQueue(s, d) /\ (s # x \/ d # c)
  <2> SUFFICES ASSUME NEW s \in Sockets, NEW d \in Calls
               PROVE  InQueue(s, d)' <=> InQueue(s, d) /\ (s # x \/ d # c)
    OBVIOUS
  <2>1. CASE s = x
    <3>1. InQueue(s, d)' <=> \E i \in 1..Len(l) : l[i] = d
      BY <1>6, <2>1 DEF InQueue
    <3>2. InQueue(s, d) <=> \E i \in 1..Len(q) : q[i] = d
      BY <2>1 DEF InQueue, q
    <3> QED
      BY <1>3, <2>1, <3>1, <3>2
  <2>2. CASE s # x
    BY <1>6, <2>2 DEF InQueue
  <2> QED
    BY <2>1, <2>2
<1>9. \A s \in Sockets, d \in Calls : sock'[s].lock = d <=> sock[s].lock = d /\ (s # x \/ d # c)
  BY <1>6, ConnectionsAssumption
<1>10. PlacesInv'
  <2> SUFFICES ASSUME NEW d \in Calls
               PROVE  CallPlace(d)'
    BY DEF PlacesInv
  <2>1. CallPlace(d) /\ CallPlace(c)
    BY DEF Inv, PlacesInv
  <2>2. CASE d = c
    BY <1>8, <1>9, <2>1, <2>2 DEF CallPlace, x
  <2>3. CASE d # c
    <3>1. call'[d] = call[d]
      BY <2>3
    <3>2. call[d].st \in {"holding", "queued", "locked"} => call[d].sock \in Sockets
      BY DEF Inv, CallsInv, CallFacts
    <3> QED
      BY <1>6, <1>8, <1>9, <2>1, <2>3, <3>1, <3>2 DEF CallPlace, Begun, Alive
  <2> QED
    BY <2>2, <2>3
<1> QED
  BY <1>6, <1>7, <1>10

\* A call that is to ask for a connection.
Asking(r) ==
  r \in CallType /\ CallFacts(r) /\ r.box \in Boxes /\ r.lines = 0 /\ (r.accepted => r.tool = "send")

\* A call that is given a connection: its facts are as before.
Given(r, st, x) == [r EXCEPT !.st = st, !.sock = x]

LEMMA GivenFacts ==
  ASSUME NEW r, Asking(r),
         NEW st \in {"holding", "waiting"}, NEW x \in Sockets,
         NEW q, q = Given(r, st, x)
  PROVE  q \in CallType /\ CallFacts(q) /\ q.st = st /\ q.sock = x
<1> USE DEF Asking, Given
<1>1. q \in CallType
  <2>1. \A u \in CallType : [u EXCEPT !.st = st, !.sock = x] \in CallType
    BY DEF CallType
  <2> QED
    BY <2>1
<1>2. /\ q.st = st /\ q.sock = x /\ q.box = r.box /\ q.folder = r.folder
      /\ q.tool = r.tool /\ q.lines = r.lines
  BY DEF CallType
<1>3. (q.stray <=> r.stray) /\ (q.accepted <=> r.accepted)
  BY DEF CallType
<1>4. CallFacts(q)
  <2>1. CallFacts(r)
    OBVIOUS
  <2>2. r.stray \in BOOLEAN /\ r.accepted \in BOOLEAN
    BY DEF CallType
  <2> QED
    BY <1>2, <1>3, <2>1, <2>2 DEF CallFacts
<1> QED
  BY <1>1, <1>2, <1>4

\* ensureConnected(), up to its first await, for a call that holds nothing.
LEMMA EnsureKeeps ==
  ASSUME Inv, NEW c \in Calls, call[c].st \in {"done", "ready"},
         NEW r, Asking(r), ensureConnected(c, r),
         version' \in 0 .. MaxReloads, pool' \in [Accounts -> Boxes \cup {None}]
  PROVE  Inv'
<1> DEFINE b == r.box
<1>0. TypeOK /\ ConnectionsInv /\ QueuesInv /\ CallsInv /\ PlacesInv
  BY DEF Inv
<1>t. /\ box \in [Boxes -> BoxType] /\ box[b] \in BoxType
      /\ sock \in [Sockets -> SocketType] /\ call \in [Calls -> CallType]
  BY <1>0 DEF TypeOK, Asking
<1>1. ASSUME NEW st \in {"holding", "waiting"}, NEW x \in Sockets,
             call' = [call EXCEPT ![c] = [r EXCEPT !.st = st, !.sock = x]]
      PROVE  /\ call' \in [Calls -> CallType] /\ CallsInv'
             /\ call'[c].st = st /\ call'[c].sock = x
             /\ \A d \in Calls \ {c} : call'[d] = call[d]
  <2> DEFINE q == [r EXCEPT !.st = st, !.sock = x]
  <2>0. q = Given(r, st, x)
    BY DEF Given
  <2> HIDE DEF q
  <2>1. q \in CallType /\ CallFacts(q) /\ q.st = st /\ q.sock = x
    BY <2>0, GivenFacts
  <2>2. call' = [call EXCEPT ![c] = q]
    BY <1>1 DEF q
  <2> QED
    BY <1>0, <2>1, <2>2, CallStep
<1>2. ASSUME NEW st \in {"holding", "waiting"}, NEW x \in Sockets,
             call' = [call EXCEPT ![c] = [r EXCEPT !.st = st, !.sock = x]],
             st = "holding" => ~Begun(x), UNCHANGED <<box, sock>>
      PROVE  Inv'
  <2>1. /\ call' \in [Calls -> CallType] /\ CallsInv'
        /\ call'[c].st = st /\ call'[c].sock = x
        /\ \A d \in Calls \ {c} : call'[d] = call[d]
    BY <1>1, <1>2
  <2>2. PlacesInv'
    <3> DEFINE q == call'[c]
    <3>1. /\ q.st \notin {"queued", "locked"} /\ call[c].st \notin {"queued", "locked"}
          /\ q.st = "holding" => ~Begun(q.sock)
      BY <1>2, <2>1
    <3>2. call'[c] = q /\ \A d \in Calls \ {c} : call'[d] = call[d]
      BY <2>1
    <3> HIDE DEF q
    <3> QED
      BY <1>0, <1>2, <3>1, <3>2, PassesBy
  <2>3. ConnectionsInv' /\ QueuesInv'
    BY <1>0, <1>2, SameConnections DEF QueuesInv
  <2> QED
    BY <1>t, <1>2, <2>1, <2>2, <2>3 DEF Inv, TypeOK
<1>3. CASE /\ usable(b)
           /\ call' = [call EXCEPT ![c] = [r EXCEPT !.st = "holding", !.sock = box[b].client]]
           /\ UNCHANGED <<box, sock>>
  <2>1. box[b].client \in Sockets /\ ~Begun(box[b].client)
    BY <1>t, <1>3 DEF usable, BoxType, Begun
  <2> QED
    BY <1>2, <1>3, <2>1
<1>4. CASE /\ box[b].connecting # None
           /\ call' = [call EXCEPT ![c] = [r EXCEPT !.st = "waiting", !.sock = box[b].connecting]]
           /\ UNCHANGED <<box, sock>>
  <2>1. box[b].connecting \in Sockets
    BY <1>t, <1>4 DEF BoxType
  <2> QED
    BY <1>2, <1>4, <2>1
<1>5. ASSUME NEW s \in Sockets, ~usable(b), box[b].connecting = None, Unreferenced(s),
             sock' = [sock EXCEPT ![s] = [NoSocket EXCEPT !.st = "tls", !.of = b, !.gen = box[b].gen]],
             box' = [box EXCEPT ![b].connecting = s],
             call' = [call EXCEPT ![c] = [r EXCEPT !.st = "waiting", !.sock = s]]
      PROVE  Inv'
  <2>1. /\ call' \in [Calls -> CallType] /\ CallsInv'
        /\ call'[c].st = "waiting" /\ call'[c].sock = s
        /\ \A d \in Calls \ {c} : call'[d] = call[d]
    BY <1>1, <1>5
  <2> DEFINE new == [NoSocket EXCEPT !.st = "tls", !.of = b, !.gen = box[b].gen]
  <2>2. /\ new \in SocketType
        /\ new.st = "tls" /\ new.of = b /\ new.gen = box[b].gen
        /\ new.lock = None /\ Len(new.queue) = 0
    <3>1. \A g \in Nat : [NoSocket EXCEPT !.st = "tls", !.of = b, !.gen = g] \in SocketType
      BY NoSocketType DEF Asking, SocketType, SocketStates
    <3> QED
      BY <1>t, <3>1 DEF BoxType, NoSocket
  <2>3. sock' = [sock EXCEPT ![s] = new]
    BY <1>5
  <2> HIDE DEF new
  <2>4. /\ sock' \in [Sockets -> SocketType] /\ sock'[s] = new
        /\ \A x \in Sockets \ {s} : sock'[x] = sock[x]
    BY <1>t, <2>2, <2>3
  <2>5. /\ box' \in [Boxes -> BoxType]
        /\ \A d \in Boxes : /\ box'[d].client = box[d].client /\ box'[d].gen = box[d].gen
                            /\ box'[d].connecting = IF d = b THEN s ELSE box[d].connecting
    BY <1>t, <1>5 DEF BoxType
  <2>6. /\ sock[s].st = "gone"
        /\ \A d \in Boxes : box[d].client # s /\ box[d].connecting # s
        /\ \A d \in Calls : call[d].sock # s
    BY <1>5 DEF Unreferenced
  <2>7. \A d \in Boxes : usable(d)' <=> usable(d)
    <3> TAKE d \in Boxes
    <3>1. box[d].client = None \/ box[d].client \in Sockets \ {s}
      BY <1>t, <2>6 DEF BoxType
    <3> QED
      BY <2>4, <2>5, <3>1 DEF usable
  <2>8. ASSUME NEW x \in Sockets
        PROVE  SocketInv(x)'
    <3>1. CASE x = s
      BY <1>5, <1>t, <2>2, <2>4, <2>5, <2>7, <3>1 DEF SocketInv, Begun, Abandoned, BoxType
    <3>2. CASE x # s
      <4>1. SocketInv(x) /\ sock'[x] = sock[x]
        BY <1>0, <2>4, <3>2 DEF ConnectionsInv
      <4>2. /\ sock[x].st # "gone" => sock[x].of \in Boxes
            /\ Begun(x) => sock[x].st # "gone"
        BY <4>1 DEF SocketInv, Begun
      <4>3. Begun(x) /\ ~Abandoned(x) => sock[x].of # b
        BY <1>5, <4>1, ConnectionsAssumption DEF SocketInv
      <4> QED
        BY <2>5, <2>7, <4>1, <4>2, <4>3 DEF SocketInv, Begun, Abandoned
    <3> QED
      BY <3>1, <3>2
  <2>9. ASSUME NEW d \in Boxes
        PROVE  BoxInv(d)'
    BY <1>0, <2>2, <2>4, <2>5, <2>6, <2>9 DEF ConnectionsInv, BoxInv, Begun
  <2>10. QueuesInv'
    BY <1>0, <2>2, <2>4 DEF QueuesInv
  <2>11. ASSUME NEW d \in Calls
         PROVE  CallPlace(d)'
    <3>1. CallPlace(d) /\ CallFacts(call[d])
      BY <1>0 DEF PlacesInv, CallsInv
    <3>2. ~InQueue(s, d)' /\ sock'[s].lock # d
      BY <2>2, <2>4, ConnectionsAssumption DEF InQueue
    <3>3. \A x \in Sockets \ {s} : InQueue(x, d)' <=> InQueue(x, d)
      BY <2>4 DEF InQueue
    <3>4. CASE d = c
      BY <2>1, <2>4, <3>1, <3>2, <3>3, <3>4 DEF CallPlace
    <3>5. CASE d # c
      <4>1. call'[d] = call[d]
        BY <2>1, <3>5
      <4>2. call[d].st \in {"holding", "queued", "locked"} => call[d].sock \in Sockets \ {s}
        BY <2>6, <3>1 DEF CallFacts
      <4> QED
        BY <2>4, <3>1, <3>2, <3>3, <4>1, <4>2 DEF CallPlace, Begun, Alive
    <3> QED
      BY <3>4, <3>5
  <2> QED
    BY <2>1, <2>4, <2>5, <2>8, <2>9, <2>10, <2>11 DEF Inv, TypeOK, ConnectionsInv, PlacesInv
<1> QED
  BY <1>3, <1>4, <1>5 DEF ensureConnected

-----------------------------------------------------------------------------
(* The steps of a call.                                                    *)

\* A step that changes one call and nothing else.
LEMMA QuietKeeps ==
  ASSUME Inv, NEW c \in Calls, NEW r \in CallType, CallFacts(r),
         call' = [call EXCEPT ![c] = r],
         box' = box, sock' = sock,
         version' \in 0 .. MaxReloads, pool' \in [Accounts -> Boxes \cup {None}],
         call[c].st \notin {"queued", "locked"}, r.st \notin {"queued", "locked"},
         r.st = "holding" => ~Begun(r.sock)
  PROVE  Inv'
<1>1. /\ call' \in [Calls -> CallType] /\ CallsInv'
      /\ call'[c] = r /\ \A d \in Calls \ {c} : call'[d] = call[d]
  BY CallStep DEF Inv
<1>2. PlacesInv'
  BY <1>1, PassesBy DEF Inv
<1>3. ConnectionsInv' /\ QueuesInv'
  BY SameConnections DEF Inv, QueuesInv
<1> QED
  BY <1>1, <1>2, <1>3 DEF Inv, TypeOK

LEMMA StartKeeps ==
  ASSUME Inv, NEW c \in Calls, NEW tool \in Tools, NEW a \in Accounts,
         NEW f \in Folders \cup {None}, Start(c, tool, a, f)
  PROVE  Inv'
<1> DEFINE b == poolFor(a)
           r == [NoCall EXCEPT !.tool = tool, !.box = b, !.folder = f]
<1>1. b \in Boxes
  BY DEF Inv, TypeOK, poolFor, build, Boxes
<1>2. /\ call[c].st = "done"
      /\ f \in IF tool \in {"read", "change"} THEN Folders ELSE {None}
      /\ pool' = [pool EXCEPT ![a] = b] /\ version' = version
      /\ \/ ensureConnected(c, r)
         \/ /\ tool \in {"draft", "send"}
            /\ call' = [call EXCEPT ![c] = [r EXCEPT !.st = IF tool = "send" THEN "sending" ELSE "ready"]]
            /\ UNCHANGED <<box, sock>>
  BY DEF Start
<1>3. /\ version' \in 0 .. MaxReloads
      /\ pool' \in [Accounts -> Boxes \cup {None}]
  BY <1>1, <1>2 DEF Inv, TypeOK
<1> HIDE DEF b
<1>4. /\ r \in CallType
      /\ r.st = "done" /\ r.tool = tool /\ r.box = b /\ r.folder = f /\ r.lines = 0
      /\ ~r.stray /\ ~r.accepted /\ r.answer = "ok"
  BY <1>1 DEF NoCall, CallType
<1>5. CASE ensureConnected(c, r)
  <2> HIDE DEF r
  <2>1. Asking(r)
    BY <1>1, <1>2, <1>4 DEF Asking, CallFacts, Locks
  <2> QED
    BY <1>2, <1>3, <1>5, <2>1, EnsureKeeps
<1>6. ASSUME NEW st \in {"sending", "ready"}, st = "sending" => tool = "send",
             call' = [call EXCEPT ![c] = [r EXCEPT !.st = st]],
             UNCHANGED <<box, sock>>
      PROVE  Inv'
  <2> DEFINE q == [r EXCEPT !.st = st]
  <2>1. q \in CallType
    <3>1. \A u \in CallType : [u EXCEPT !.st = st] \in CallType
      BY DEF CallType
    <3> QED
      BY <1>4, <3>1
  <2>2. /\ q.st = st /\ q.tool = tool /\ q.box = b /\ q.folder = f /\ q.lines = 0
        /\ ~q.stray /\ ~q.accepted
    BY DEF NoCall
  <2>3. call' = [call EXCEPT ![c] = q]
    BY <1>6
  <2> HIDE DEF q
  <2>4. CallFacts(q)
    BY <1>1, <1>2, <1>6, <2>2 DEF CallFacts, Locks
  <2> QED
    BY <1>2, <1>3, <1>6, <2>1, <2>2, <2>3, <2>4, QuietKeeps
<1> QED
  BY <1>2, <1>5, <1>6

LEMMA SendKeeps ==
  ASSUME Inv, NEW c \in Calls, Send(c)
  PROVE  Inv'
<1> DEFINE r == call[c]
           sent == [r EXCEPT !.accepted = TRUE]
           next == [r EXCEPT !.st = "ready", !.accepted = TRUE]
<1>1. /\ r \in CallType /\ CallFacts(r) /\ r.st = "sending"
      /\ call \in [Calls -> CallType]
      /\ version' \in 0 .. MaxReloads /\ pool' \in [Accounts -> Boxes \cup {None}]
      /\ box' = box /\ sock' = sock
  BY DEF Send, Inv, TypeOK, CallsInv
<1>2. /\ sent \in CallType /\ next \in CallType
      /\ sent.st = "sending" /\ next.st = "ready" /\ sent.accepted /\ next.accepted
      /\ sent.tool = r.tool /\ sent.box = r.box /\ sent.folder = r.folder
      /\ sent.lines = r.lines /\ (sent.stray <=> r.stray)
      /\ next.tool = r.tool /\ next.box = r.box /\ next.folder = r.folder
      /\ next.lines = r.lines /\ (next.stray <=> r.stray)
  <2>1. ASSUME NEW x \in BOOLEAN, NEW u \in CallType
        PROVE  /\ [u EXCEPT !.accepted = x] \in CallType
               /\ [u EXCEPT !.st = "ready", !.accepted = x] \in CallType
    <3>1. [u EXCEPT !.accepted = x] \in CallType
      BY DEF CallType
    <3>2. [u EXCEPT !.st = "ready", !.accepted = x] \in CallType
      BY DEF CallType
    <3> QED
      BY <3>1, <3>2
  <2>2. sent \in CallType /\ next \in CallType
    <3> HIDE DEF r
    <3>1. sent \in CallType
      BY <1>1, <2>1
    <3>2. next \in CallType
      BY <1>1, <2>1
    <3> QED
      BY <3>1, <3>2
  <2>3. /\ sent.st = "sending" /\ next.st = "ready"
        /\ sent.tool = r.tool /\ sent.box = r.box /\ sent.folder = r.folder
        /\ sent.lines = r.lines
        /\ next.tool = r.tool /\ next.box = r.box /\ next.folder = r.folder
        /\ next.lines = r.lines
    BY <1>1 DEF CallType
  <2>4. sent.accepted /\ next.accepted
    BY <1>1 DEF CallType
  <2>5. (sent.stray <=> r.stray) /\ (next.stray <=> r.stray)
    BY <1>1 DEF CallType
  <2> QED
    BY <2>2, <2>3, <2>4, <2>5
<1>3. CASE call' = [call EXCEPT ![c].st = "ready", ![c].accepted = TRUE]
  <2>1. call' = [call EXCEPT ![c] = next]
    BY <1>1, <1>3 DEF CallType
  <2> HIDE DEF next
  <2>2. CallFacts(next)
    BY <1>1, <1>2 DEF CallFacts
  <2> QED
    BY <1>1, <1>2, <2>1, <2>2, QuietKeeps
<1>4. CASE call' = [call EXCEPT ![c] = Answered(sent)]
  <2> HIDE DEF sent
  <2>1. CallFacts(sent)
    BY <1>1, <1>2 DEF CallFacts
  <2> QED
    BY <1>1, <1>2, <1>4, <2>1, EndsWell, QuietKeeps
<1>5. CASE call' = [call EXCEPT ![c] = Faulted(r)]
  BY <1>1, <1>5, EndsWell, QuietKeeps
<1> QED
  BY <1>3, <1>4, <1>5 DEF Send

LEMMA CopyKeeps ==
  ASSUME Inv, NEW c \in Calls, Copy(c)
  PROVE  Inv'
<1>1. Asking(call[c])
  BY DEF Copy, Inv, TypeOK, CallsInv, CallFacts, Asking
<1> QED
  BY <1>1, EnsureKeeps DEF Copy, Inv, TypeOK

LEMMA BuildFailsKeeps ==
  ASSUME Inv, NEW c \in Calls, BuildFails(c)
  PROVE  Inv'
<1> DEFINE r == call[c]
           e == IF r.tool = "draft" THEN Ended(r, "unbuilt", 0) ELSE Faulted(r)
<1>1. /\ r \in CallType /\ CallFacts(r) /\ r.st = "ready"
      /\ version' \in 0 .. MaxReloads /\ pool' \in [Accounts -> Boxes \cup {None}]
      /\ box' = box /\ sock' = sock
      /\ call' = [call EXCEPT ![c] = e]
  BY DEF BuildFails, Inv, TypeOK, CallsInv
<1>2. e \in CallType /\ CallFacts(e) /\ e.st = "done"
  BY <1>1, EndsWell
<1> HIDE DEF e
<1> QED
  BY <1>1, <1>2, QuietKeeps

\* A call that goes on with the connection it has.
LEMMA GoesOn ==
  ASSUME Inv, NEW c \in Calls, call[c].st \in {"holding", "queued"},
         NEW st \in {"queued", "locked"}, call' = [call EXCEPT ![c].st = st]
  PROVE  /\ call' \in [Calls -> CallType] /\ CallsInv'
         /\ call'[c].st = st /\ call'[c].sock = call[c].sock /\ call'[c].folder = call[c].folder
         /\ \A d \in Calls \ {c} : call'[d] = call[d]
<1> DEFINE r == call[c]
           q == [r EXCEPT !.st = st]
<1>1. /\ TypeOK /\ CallsInv
      /\ r \in CallType /\ CallFacts(r) /\ r.st \in {"holding", "queued"}
  BY DEF Inv, TypeOK, CallsInv
<1>2. call' = [call EXCEPT ![c] = q]
  OBVIOUS
<1> HIDE DEF r
<1>3. q \in CallType
  <2>1. \A u \in CallType : [u EXCEPT !.st = st] \in CallType
    BY DEF CallType
  <2> QED
    BY <1>1, <2>1
<1>4. /\ q.st = st /\ q.sock = r.sock /\ q.box = r.box /\ q.folder = r.folder
      /\ q.tool = r.tool /\ q.lines = r.lines
  BY <1>1 DEF CallType
<1>5. (q.stray <=> r.stray) /\ (q.accepted <=> r.accepted)
  BY <1>1 DEF CallType
<1> HIDE DEF q
<1>6. CallFacts(q)
  BY <1>1, <1>4, <1>5 DEF CallFacts
<1>7. /\ call' \in [Calls -> CallType] /\ CallsInv' /\ call'[c] = q
      /\ \A d \in Calls \ {c} : call'[d] = call[d]
  BY <1>1, <1>2, <1>3, <1>6, CallStep
<1> QED
  BY <1>4, <1>7 DEF r

LEMMA AskKeeps ==
  ASSUME Inv, NEW c \in Calls, Ask(c)
  PROVE  Inv'
<1> DEFINE x == call[c].sock
           q == sock[x].queue
           n == Len(q)
           l == Append(q, c)
           y == [sock[x] EXCEPT !.queue = l]
<1>1. /\ call[c].st = "holding" /\ sock[x].st = "open"
      /\ sock' = [sock EXCEPT ![x] = y]
      /\ call' = [call EXCEPT ![c].st = "queued"]
      /\ UNCHANGED <<version, pool, box>>
  BY DEF Ask
<1>2. /\ x \in Sockets /\ sock[x] \in SocketType /\ q \in Seq(Calls)
      /\ sock \in [Sockets -> SocketType]
  BY <1>1 DEF Inv, TypeOK, CallsInv, CallFacts, SocketType
<1>3. /\ n \in Nat /\ l \in Seq(Calls) /\ Len(l) = n + 1
      /\ l[n + 1] = c /\ \A i \in 1..n : l[i] = q[i]
  BY SMTT(30), <1>2
<1>4. \A i \in 1..n : q[i] # c
  <2>1. CallPlace(c)
    BY DEF Inv, PlacesInv
  <2> QED
    BY <1>1, <1>2, <2>1 DEF CallPlace, InQueue
<1>5. /\ y \in SocketType
      /\ y.st = sock[x].st /\ y.of = sock[x].of /\ y.gen = sock[x].gen
      /\ y.sel = sock[x].sel /\ y.lock = sock[x].lock /\ y.queue = l
  BY <1>2, <1>3 DEF SocketType
<1>6. /\ call' \in [Calls -> CallType] /\ CallsInv'
      /\ call'[c].st = "queued" /\ call'[c].sock = x
      /\ \A d \in Calls \ {c} : call'[d] = call[d]
  <2>1. /\ call[c].st \in {"holding", "queued"}
        /\ call' = [call EXCEPT ![c].st = "queued"]
    BY <1>1
  <2> QED
    BY <2>1, GoesOn
<1> HIDE DEF x, q, n, l, y
<1>7. /\ sock' \in [Sockets -> SocketType]
      /\ \A s \in Sockets : /\ sock'[s].st = sock[s].st /\ sock'[s].of = sock[s].of
                            /\ sock'[s].gen = sock[s].gen /\ sock'[s].sel = sock[s].sel
                            /\ sock'[s].lock = sock[s].lock
                            /\ s # x => sock'[s] = sock[s]
      /\ sock'[x].queue = l
  BY <1>1, <1>2, <1>5
<1>8. ConnectionsInv'
  BY <1>1, <1>7, SameConnections DEF Inv
<1>9. \A i, j \in 1..(n + 1) : l[i] = l[j] => i = j
  <2>1. \A i, j \in 1..n : q[i] = q[j] => i = j
    BY <1>2 DEF Inv, QueuesInv, q, n
  <2> QED
    BY <1>3, <1>4, <2>1
<1>10. QueuesInv'
  BY <1>3, <1>7, <1>9 DEF Inv, QueuesInv
<1>11. \A s \in Sockets, d \in Calls :
         InQueue(s, d)' <=> InQueue(s, d) \/ (s = x /\ d = c)
  <2> SUFFICES ASSUME NEW s \in Sockets, NEW d \in Calls
               PROVE  InQueue(s, d)' <=> InQueue(s, d) \/ (s = x /\ d = c)
    OBVIOUS
  <2>1. CASE s = x
    <3>1. InQueue(s, d)' <=> \E i \in 1..(n + 1) : l[i] = d
      BY <1>3, <1>7, <2>1 DEF InQueue
    <3>2. InQueue(s, d) <=> \E i \in 1..n : q[i] = d
      BY <2>1 DEF InQueue, q, n
    <3> QED
      BY <1>3, <2>1, <3>1, <3>2
  <2>2. CASE s # x
    BY <1>7, <2>2 DEF InQueue
  <2> QED
    BY <2>1, <2>2
<1>12. ASSUME NEW d \in Calls
       PROVE  CallPlace(d)'
  <2>1. CallPlace(d) /\ CallFacts(call[d])
    BY DEF Inv, PlacesInv, CallsInv
  <2>2. CASE d = c
    BY <1>1, <1>2, <1>6, <1>7, <1>11, <2>1, <2>2 DEF CallPlace, Begun, Alive, x
  <2>3. CASE d # c
    <3>1. call'[d] = call[d]
      BY <1>6, <2>3
    <3>2. call[d].st \in {"holding", "queued", "locked"} => call[d].sock \in Sockets
      BY <2>1 DEF CallFacts
    <3> QED
      BY <1>7, <1>11, <2>1, <2>3, <3>1, <3>2 DEF CallPlace, Begun, Alive
  <2> QED
    BY <2>2, <2>3
<1> QED
  BY <1>1, <1>6, <1>7, <1>8, <1>10, <1>12 DEF Inv, TypeOK, PlacesInv

LEMMA SelectKeeps ==
  ASSUME Inv, NEW c \in Calls, Select(c)
  PROVE  Inv'
<1> DEFINE x == call[c].sock
           f == call[c].folder
           q == sock[x].queue
           n == Len(q)
           l == Tail(q)
           y == [sock[x] EXCEPT !.lock = c, !.queue = l, !.sel = f]
<1>1. /\ call[c].st = "queued" /\ Alive(x) /\ sock[x].lock = None /\ Head(q) = c
      /\ sock' = [sock EXCEPT ![x] = y]
      /\ call' = [call EXCEPT ![c].st = "locked"]
      /\ UNCHANGED <<version, pool, box>>
  BY DEF Select
<1>2. /\ x \in Sockets /\ sock[x] \in SocketType /\ q \in Seq(Calls)
      /\ sock \in [Sockets -> SocketType] /\ f \in Folders \cup {None}
  BY <1>1 DEF Inv, TypeOK, CallsInv, CallFacts, SocketType, CallType
<1>3. InQueue(x, c)
  BY <1>1 DEF Inv, PlacesInv, CallPlace
<1>4. /\ n \in Nat \ {0} /\ q[1] = c /\ l \in Seq(Calls) /\ Len(l) = n - 1
      /\ \A i \in 1..(n - 1) : l[i] = q[i + 1]
  BY <1>1, <1>2, <1>3 DEF InQueue
<1>5. /\ y \in SocketType
      /\ y.st = sock[x].st /\ y.of = sock[x].of /\ y.gen = sock[x].gen
      /\ y.sel = f /\ y.lock = c /\ y.queue = l
  BY <1>2, <1>4 DEF SocketType
<1>6. /\ call' \in [Calls -> CallType] /\ CallsInv'
      /\ call'[c].st = "locked" /\ call'[c].sock = x /\ call'[c].folder = f
      /\ \A d \in Calls \ {c} : call'[d] = call[d]
  <2>1. /\ call[c].st \in {"holding", "queued"}
        /\ call' = [call EXCEPT ![c].st = "locked"]
    BY <1>1
  <2> QED
    BY <2>1, GoesOn
<1> HIDE DEF x, f, q, n, l, y
<1>7. /\ sock' \in [Sockets -> SocketType]
      /\ \A s \in Sockets : /\ sock'[s].st = sock[s].st /\ sock'[s].of = sock[s].of
                            /\ sock'[s].gen = sock[s].gen
                            /\ s # x => sock'[s] = sock[s]
      /\ sock'[x].queue = l /\ sock'[x].lock = c /\ sock'[x].sel = f
  BY <1>1, <1>2, <1>5
<1>8. ConnectionsInv'
  BY <1>1, <1>7, SameConnections DEF Inv
<1>9. \A i, j \in 1..n : q[i] = q[j] => i = j
  BY <1>2 DEF Inv, QueuesInv, q, n
<1>10. QueuesInv'
  <2>1. \A i, j \in 1..Len(l) : l[i] = l[j] => i = j
    BY <1>4, <1>9
  <2>2. \A s \in Sockets \ {x} : \A i, j \in 1..Len(sock[s].queue) :
          sock[s].queue[i] = sock[s].queue[j] => i = j
    BY DEF Inv, QueuesInv
  <2> QED
    BY <1>7, <2>1, <2>2 DEF QueuesInv
<1>11. \A s \in Sockets, d \in Calls :
         InQueue(s, d)' <=> InQueue(s, d) /\ (s # x \/ d # c)
  <2> SUFFICES ASSUME NEW s \in Sockets, NEW d \in Calls
               PROVE  InQueue(s, d)' <=> InQueue(s, d) /\ (s # x \/ d # c)
    OBVIOUS
  <2>1. CASE s = x
    <3>1. InQueue(s, d)' <=> \E i \in 1..(n - 1) : l[i] = d
      BY <1>4, <1>7, <2>1 DEF InQueue
    <3>2. InQueue(s, d) <=> \E i \in 1..n : q[i] = d
      BY <2>1 DEF InQueue, q, n
    <3>3. ASSUME NEW i \in 1..n, q[i] = d, d # c
          PROVE  \E j \in 1..(n - 1) : l[j] = d
      <4>1. i - 1 \in 1..(n - 1) /\ l[i - 1] = q[i]
        BY <1>4, <3>3
      <4> QED
        BY <3>3, <4>1
    <3>4. ASSUME NEW j \in 1..(n - 1), l[j] = d
          PROVE  d # c /\ \E i \in 1..n : q[i] = d
      <4>1. j + 1 \in 1..n /\ j + 1 # 1 /\ 1 \in 1..n /\ q[j + 1] = d
        BY <1>4, <3>4
      <4> QED
        BY <1>4, <1>9, <4>1
    <3> QED
      BY <2>1, <3>1, <3>2, <3>3, <3>4
  <2>2. CASE s # x
    BY <1>7, <2>2 DEF InQueue
  <2> QED
    BY <2>1, <2>2
<1>12. ASSUME NEW d \in Calls
       PROVE  CallPlace(d)'
  <2>1. CallPlace(d) /\ CallFacts(call[d])
    BY DEF Inv, PlacesInv, CallsInv
  <2>2. CASE d = c
    BY <1>1, <1>2, <1>6, <1>7, <1>11, <2>1, <2>2 DEF CallPlace, Begun, Alive, x
  <2>3. CASE d # c
    <3>1. call'[d] = call[d]
      BY <1>6, <2>3
    <3>2. call[d].st \in {"holding", "queued", "locked"} => call[d].sock \in Sockets
      BY <2>1 DEF CallFacts
    <3>3. call[d].st = "locked" /\ Alive(call[d].sock) => call[d].sock # x
      BY <1>1, <2>1, ConnectionsAssumption DEF CallPlace
    <3> QED
      BY <1>7, <1>11, <2>1, <2>3, <3>1, <3>2, <3>3 DEF CallPlace, Begun, Alive
  <2> QED
    BY <2>2, <2>3
<1> QED
  BY <1>1, <1>6, <1>7, <1>8, <1>10, <1>12 DEF Inv, TypeOK, PlacesInv

\* A command runs in the mailbox of its call: a call that locks one has the lock.
LEMMA RunsWhereItShould ==
  ASSUME Inv, NEW c \in Calls, MayRun(call[c]), Alive(call[c].sock)
  PROVE  ~Strayed(call[c])
<1>1. CallFacts(call[c]) /\ CallPlace(c)
  BY DEF Inv, CallsInv, PlacesInv
<1> QED
  BY <1>1 DEF CallFacts, CallPlace, Strayed, MayRun

\* The note that a command has run astray changes no other fact of a call.
LEMMA NotedFacts ==
  ASSUME NEW r \in CallType, CallFacts(r), NEW x \in BOOLEAN, ~x, NEW y \in BOOLEAN
  PROVE  LET u == [r EXCEPT !.stray = x]
             v == [r EXCEPT !.stray = x, !.half = y]
         IN  /\ u \in CallType /\ CallFacts(u) /\ u.st = r.st
             /\ v \in CallType /\ CallFacts(v)
             /\ v.st = r.st /\ v.sock = r.sock /\ v.folder = r.folder
<1> DEFINE u == [r EXCEPT !.stray = x]
           v == [r EXCEPT !.stray = x, !.half = y]
<1>1. u \in CallType
  BY DEF CallType
<1>2. v \in CallType
  BY DEF CallType
<1>3. /\ u.st = r.st /\ u.sock = r.sock /\ u.box = r.box /\ u.folder = r.folder
      /\ u.tool = r.tool /\ u.lines = r.lines /\ u.answer = r.answer
      /\ v.st = r.st /\ v.sock = r.sock /\ v.box = r.box /\ v.folder = r.folder
      /\ v.tool = r.tool /\ v.lines = r.lines /\ v.answer = r.answer
  BY DEF CallType
<1>4. ~u.stray /\ ~v.stray
  BY DEF CallType
<1>5. (u.accepted <=> r.accepted) /\ (v.accepted <=> r.accepted)
  BY DEF CallType
<1> HIDE DEF u, v
<1>6. CallFacts(u)
  BY <1>3, <1>4, <1>5 DEF CallFacts
<1>7. CallFacts(v)
  BY <1>3, <1>4, <1>5 DEF CallFacts
<1> QED
  BY <1>1, <1>2, <1>3, <1>6, <1>7 DEF u, v

LEMMA FirstKeeps ==
  ASSUME Inv, NEW c \in Calls, First(c)
  PROVE  Inv'
<1> DEFINE x == Strayed(call[c])
           v == [call[c] EXCEPT !.stray = x, !.half = TRUE]
<1>1. /\ call' = [call EXCEPT ![c] = v]
      /\ UNCHANGED <<version, pool, box, sock>>
  BY DEF First
<1>2. ~x /\ x \in BOOLEAN
  BY RunsWhereItShould DEF First, Strayed
<1>3. call[c] \in CallType /\ CallFacts(call[c])
  BY DEF Inv, TypeOK, CallsInv
<1>4. /\ v \in CallType /\ CallFacts(v)
      /\ v.st = call[c].st /\ v.sock = call[c].sock /\ v.folder = call[c].folder
  <2> HIDE DEF x
  <2> QED
    BY <1>2, <1>3, NotedFacts
<1> HIDE DEF x, v
<1>5. /\ call' \in [Calls -> CallType] /\ CallsInv'
      /\ call'[c] = v /\ \A d \in Calls \ {c} : call'[d] = call[d]
  BY <1>1, <1>4, CallStep DEF Inv
<1>6. ASSUME NEW d \in Calls
      PROVE  CallPlace(d)'
  <2>1. CallPlace(d)
    BY DEF Inv, PlacesInv
  <2>2. call'[d].st = call[d].st /\ call'[d].sock = call[d].sock /\ call'[d].folder = call[d].folder
    BY <1>4, <1>5
  <2> QED
    BY <1>1, <2>1, <2>2 DEF CallPlace, Begun, Alive, InQueue
<1>7. ConnectionsInv' /\ QueuesInv'
  BY <1>1, SameConnections DEF Inv, QueuesInv
<1> QED
  BY <1>1, <1>5, <1>6, <1>7 DEF Inv, TypeOK, PlacesInv

\* A call that ends takes its lock and its place with it.
LEMMA EndKeeps ==
  ASSUME Inv, NEW c \in Calls, call[c].st \in {"holding", "queued", "locked"}, release(c),
         NEW r \in CallType, CallFacts(r), r.st = "done",
         call' = [call EXCEPT ![c] = r],
         UNCHANGED <<version, pool, box>>
  PROVE  Inv'
<1>1. /\ call' \in [Calls -> CallType] /\ CallsInv'
      /\ call'[c] = r /\ \A d \in Calls \ {c} : call'[d] = call[d]
  BY CallStep DEF Inv
<1>2. /\ sock' \in [Sockets -> SocketType]
      /\ \A s \in Sockets : /\ sock'[s].st = sock[s].st /\ sock'[s].of = sock[s].of
                            /\ sock'[s].gen = sock[s].gen
      /\ QueuesInv' /\ PlacesInv'
  BY <1>1, Leaves
<1>3. ConnectionsInv'
  BY <1>2, SameConnections DEF Inv
<1> QED
  BY <1>1, <1>2, <1>3 DEF Inv, TypeOK

LEMMA FinishKeeps ==
  ASSUME Inv, NEW c \in Calls, Finish(c)
  PROVE  Inv'
<1> DEFINE x == Strayed(call[c])
           u == [call[c] EXCEPT !.stray = x]
<1>1. /\ call' = [call EXCEPT ![c] = Answered(u)] /\ release(c)
      /\ UNCHANGED <<version, pool, box>>
      /\ call[c].st \in {"holding", "locked"}
  BY DEF Finish, MayRun
<1>2. ~x /\ x \in BOOLEAN
  BY RunsWhereItShould DEF Finish, Strayed
<1>3. call[c] \in CallType /\ CallFacts(call[c])
  BY DEF Inv, TypeOK, CallsInv
<1>4. u \in CallType /\ CallFacts(u) /\ u.st # "done"
  <2> HIDE DEF x
  <2> QED
    BY <1>1, <1>2, <1>3, NotedFacts
<1> HIDE DEF u
<1>5. Answered(u) \in CallType /\ CallFacts(Answered(u)) /\ Answered(u).st = "done"
  BY <1>4, EndsWell
<1> QED
  BY <1>1, <1>5, EndKeeps

LEMMA FinishEmptyKeeps ==
  ASSUME Inv, NEW c \in Calls, FinishEmpty(c)
  PROVE  Inv'
<1> DEFINE u == Answered(call[c])
<1>1. /\ call' = [call EXCEPT ![c] = u] /\ release(c)
      /\ UNCHANGED <<version, pool, box>>
      /\ call[c].st \in {"holding", "locked"}
      /\ call[c] \in CallType /\ CallFacts(call[c])
  BY DEF FinishEmpty, MayRun, Inv, TypeOK, CallsInv
<1>2. u \in CallType /\ CallFacts(u) /\ u.st = "done"
  BY <1>1, EndsWell
<1> HIDE DEF u
<1> QED
  BY <1>1, <1>2, EndKeeps

LEMMA RefusedKeeps ==
  ASSUME Inv, NEW c \in Calls, Refused(c)
  PROVE  Inv'
<1> DEFINE u == Faulted(call[c])
<1>1. /\ call' = [call EXCEPT ![c] = u] /\ release(c)
      /\ UNCHANGED <<version, pool, box>>
      /\ call[c].st \in {"holding", "queued", "locked"}
      /\ call[c] \in CallType /\ CallFacts(call[c])
  BY DEF Refused, Inv, TypeOK, CallsInv
<1>2. u \in CallType /\ CallFacts(u) /\ u.st = "done"
  BY <1>1, EndsWell
<1> HIDE DEF u
<1> QED
  BY <1>1, <1>2, EndKeeps

-----------------------------------------------------------------------------
(* The steps of a connection.                                              *)

\* A connection that is gone: nobody is in its queue, nobody has its lock, and what
\* its calls were waiting for may only fail.
LEMMA GoneKeeps ==
  ASSUME Inv, NEW s \in Sockets, sock[s].st # "gone", sock' = [sock EXCEPT ![s] = NoSocket],
         \A d \in Calls : \/ call'[d] = call[d]
                          \/ call[d].st = "waiting" /\ call'[d].st = "done"
  PROVE  /\ sock' \in [Sockets -> SocketType]
         /\ sock'[s].st = "gone" /\ \A x \in Sockets \ {s} : sock'[x] = sock[x]
         /\ QueuesInv' /\ PlacesInv'
<1>1. /\ sock' \in [Sockets -> SocketType]
      /\ sock'[s] = NoSocket /\ \A x \in Sockets \ {s} : sock'[x] = sock[x]
  BY NoSocketType DEF Inv, TypeOK
<1>2. NoSocket.st = "gone" /\ NoSocket.lock = None /\ Len(NoSocket.queue) = 0
  BY DEF NoSocket
<1>3. QueuesInv'
  BY <1>1, <1>2 DEF Inv, QueuesInv
<1>4. ASSUME NEW d \in Calls
      PROVE  CallPlace(d)'
  <2>1. CallPlace(d) /\ CallFacts(call[d])
    BY DEF Inv, PlacesInv, CallsInv
  <2>2. ~InQueue(s, d)' /\ sock'[s].lock # d
    BY <1>1, <1>2, ConnectionsAssumption DEF InQueue
  <2>3. \A x \in Sockets \ {s} : InQueue(x, d)' <=> InQueue(x, d)
    BY <1>1 DEF InQueue
  <2>4. call[d].st \in {"holding", "queued", "locked"} => call[d].sock \in Sockets
    BY <2>1 DEF CallFacts
  <2>5. CASE call'[d] = call[d]
    BY <1>1, <1>2, <2>1, <2>2, <2>3, <2>4, <2>5 DEF CallPlace, Begun, Alive
  <2>6. CASE call[d].st = "waiting" /\ call'[d].st = "done"
    BY <1>1, <2>1, <2>2, <2>3, <2>6 DEF CallPlace
  <2> QED
    BY <2>5, <2>6
<1> QED
  BY <1>1, <1>2, <1>3, <1>4 DEF PlacesInv

LEMMA AttemptFailsKeeps ==
  ASSUME Inv, NEW s \in Sockets, sock[s].st \in {"tls", "dialing", "leaving"}, AttemptFails(s)
  PROVE  Inv'
<1> DEFINE b == sock[s].of
<1>0. TypeOK /\ ConnectionsInv /\ QueuesInv /\ CallsInv /\ PlacesInv
  BY DEF Inv
<1>1. b \in Boxes
  BY <1>0 DEF ConnectionsInv, SocketInv
<1>2. /\ sock' = [sock EXCEPT ![s] = NoSocket]
      /\ box' = [box EXCEPT ![b].connecting = Forgotten(b, s)]
      /\ call' = [d \in Calls |-> IF d \in Waiting(s) THEN Faulted(call[d]) ELSE call[d]]
      /\ UNCHANGED <<version, pool>>
  BY DEF AttemptFails
<1>3. ASSUME NEW d \in Calls
      PROVE  /\ call'[d] \in CallType /\ CallFacts(call'[d])
             /\ \/ call'[d] = call[d]
                \/ call[d].st = "waiting" /\ call'[d].st = "done"
  <2>1. call[d] \in CallType /\ CallFacts(call[d])
    BY <1>0 DEF TypeOK, CallsInv
  <2>2. CASE call[d].st = "waiting" /\ call[d].sock = s
    <3>1. call'[d] = Faulted(call[d])
      BY <1>2, <2>2 DEF Waiting
    <3>2. Faulted(call[d]) \in CallType /\ CallFacts(Faulted(call[d])) /\ Faulted(call[d]).st = "done"
      BY <2>1, <2>2, EndsWell
    <3> QED
      BY <2>2, <3>1, <3>2
  <2>3. CASE ~(call[d].st = "waiting" /\ call[d].sock = s)
    BY <1>2, <2>1, <2>3 DEF Waiting
  <2> QED
    BY <2>2, <2>3
<1>4. call' \in [Calls -> CallType] /\ CallsInv'
  <2>1. call' \in [Calls -> CallType]
    BY <1>2, <1>3
  <2> QED
    BY <1>3, <2>1 DEF CallsInv
<1>5. /\ sock' \in [Sockets -> SocketType]
      /\ sock'[s].st = "gone" /\ \A x \in Sockets \ {s} : sock'[x] = sock[x]
      /\ QueuesInv' /\ PlacesInv'
  BY <1>2, <1>3, GoneKeeps
<1> HIDE DEF b
<1>6. /\ box' \in [Boxes -> BoxType]
      /\ \A d \in Boxes : /\ box'[d].client = box[d].client /\ box'[d].gen = box[d].gen
                          /\ box'[d].connecting = IF d = b /\ box[b].connecting = s
                                                  THEN None ELSE box[d].connecting
  BY <1>0, <1>1, <1>2 DEF TypeOK, BoxType, Forgotten
<1>7. \A d \in Boxes : box[d].client # s /\ (box[d].connecting = s => d = b)
  BY <1>0 DEF ConnectionsInv, BoxInv, b
<1>8. \A d \in Boxes : usable(d)' <=> usable(d)
  <2> TAKE d \in Boxes
  <2>1. box[d].client = None \/ box[d].client \in Sockets \ {s}
    BY <1>0, <1>7 DEF TypeOK, BoxType
  <2> QED
    BY <1>5, <1>6, <2>1 DEF usable
<1>9. ASSUME NEW x \in Sockets
      PROVE  SocketInv(x)'
  <2>1. CASE x = s
    BY <1>5, <2>1 DEF SocketInv, Begun
  <2>2. CASE x # s
    <3>1. SocketInv(x) /\ sock'[x] = sock[x]
      BY <1>0, <1>5, <2>2 DEF ConnectionsInv
    <3>2. sock[x].st # "gone" => sock[x].of \in Boxes
      BY <3>1 DEF SocketInv
    <3>3. Begun(x) => sock[x].st # "gone"
      BY DEF Begun
    <3> QED
      BY <1>6, <1>8, <2>2, <3>1, <3>2, <3>3 DEF SocketInv, Begun, Abandoned
  <2> QED
    BY <2>1, <2>2
<1>10. ASSUME NEW d \in Boxes
       PROVE  BoxInv(d)'
  <2>1. BoxInv(d)
    BY <1>0 DEF ConnectionsInv
  <2>2. box'[d].client # s /\ box'[d].connecting # s
    BY <1>6, <1>7, ConnectionsAssumption
  <2> QED
    BY <1>5, <1>6, <2>1, <2>2, ConnectionsAssumption DEF BoxInv, Begun
<1> QED
  BY <1>0, <1>2, <1>4, <1>5, <1>6, <1>9, <1>10 DEF Inv, TypeOK, ConnectionsInv

LEMMA DiesKeeps ==
  ASSUME Inv, NEW s \in Sockets, NEW event \in BOOLEAN, Dies(s, event)
  PROVE  Inv'
<1> DEFINE b == sock[s].of
<1>0. TypeOK /\ ConnectionsInv /\ QueuesInv /\ CallsInv /\ PlacesInv
  BY DEF Inv
<1>1. /\ sock[s].st = "open"
      /\ sock' = [sock EXCEPT ![s] = NoSocket]
      /\ box' = [box EXCEPT ![b].client = IF event /\ @ = s THEN None ELSE @]
      /\ UNCHANGED <<version, pool, call>>
  BY DEF Dies
<1>2. b \in Boxes /\ box[b].client = s
  BY <1>0, <1>1 DEF ConnectionsInv, SocketInv
<1>3. /\ sock' \in [Sockets -> SocketType]
      /\ sock'[s].st = "gone" /\ \A x \in Sockets \ {s} : sock'[x] = sock[x]
      /\ QueuesInv' /\ PlacesInv'
  <2>1. \A d \in Calls : call'[d] = call[d]
    BY <1>1
  <2>2. sock[s].st # "gone"
    BY <1>1
  <2> QED
    BY <1>1, <2>1, <2>2, GoneKeeps
<1> HIDE DEF b
<1>4. /\ box' \in [Boxes -> BoxType]
      /\ \A d \in Boxes : /\ box'[d].connecting = box[d].connecting /\ box'[d].gen = box[d].gen
                          /\ d # b => box'[d].client = box[d].client
      /\ box'[b].client \in {None, s}
  BY <1>0, <1>1, <1>2 DEF TypeOK, BoxType
<1>5. \A d \in Boxes : usable(d)' => usable(d)
  <2> TAKE d \in Boxes
  <2>1. box'[d].client \in Sockets \cup {None}
    BY <1>4 DEF BoxType
  <2>2. d = b => ~usable(d)'
    BY <1>3, <1>4 DEF usable
  <2>3. d # b => (usable(d)' => usable(d))
    BY <1>3, <1>4, <2>1 DEF usable
  <2> QED
    BY <2>2, <2>3
<1>6. ASSUME NEW x \in Sockets
      PROVE  SocketInv(x)'
  <2>1. CASE x = s
    BY <1>3, <2>1 DEF SocketInv, Begun
  <2>2. CASE x # s
    <3>1. SocketInv(x) /\ sock'[x] = sock[x]
      BY <1>0, <1>3, <2>2 DEF ConnectionsInv
    <3>2. sock[x].st # "gone" => sock[x].of \in Boxes
      BY <3>1 DEF SocketInv
    <3>3. sock[x].st = "open" => sock[x].of # b
      BY <1>2, <2>2, <3>1 DEF SocketInv
    <3>4. Begun(x) => sock[x].st # "gone"
      BY DEF Begun
    <3> QED
      BY <1>4, <1>5, <3>1, <3>2, <3>3, <3>4 DEF SocketInv, Begun, Abandoned
  <2> QED
    BY <2>1, <2>2
<1>7. ASSUME NEW d \in Boxes
      PROVE  BoxInv(d)'
  <2>1. BoxInv(d)
    BY <1>0 DEF ConnectionsInv
  <2>2. box'[d].client = box[d].client \/ box'[d].client = None \/ box'[d].client = s
    BY <1>4
  <2>3. box[d].connecting # s
    BY <1>1, <2>1 DEF BoxInv, Begun
  <2> QED
    BY <1>3, <1>4, <2>1, <2>2, <2>3, ConnectionsAssumption DEF BoxInv, Begun
<1> QED
  BY <1>0, <1>1, <1>3, <1>4, <1>6, <1>7 DEF Inv, TypeOK, ConnectionsInv, CallsInv

\* An attempt that goes on: nobody holds a connection before it is open.
LEMMA MovesOn ==
  ASSUME Inv, NEW s \in Sockets, Begun(s), NEW st \in {"dialing", "open", "leaving"},
         sock' = [sock EXCEPT ![s].st = st],
         \A d \in Calls :
           \/ call'[d] = call[d]
           \/ /\ st = "open" /\ call[d].st = "waiting"
              /\ call'[d].st = "holding" /\ call'[d].sock = s
  PROVE  /\ sock' \in [Sockets -> SocketType]
         /\ sock'[s].st = st /\ sock'[s].of = sock[s].of /\ sock'[s].gen = sock[s].gen
         /\ \A x \in Sockets \ {s} : sock'[x] = sock[x]
         /\ QueuesInv' /\ PlacesInv'
<1>1. /\ sock' \in [Sockets -> SocketType]
      /\ sock'[s].st = st /\ sock'[s].of = sock[s].of /\ sock'[s].gen = sock[s].gen
      /\ sock'[s].sel = sock[s].sel /\ sock'[s].lock = sock[s].lock
      /\ sock'[s].queue = sock[s].queue
      /\ \A x \in Sockets \ {s} : sock'[x] = sock[x]
  BY ZenonT(60) DEF Inv, TypeOK, SocketType, SocketStates
<1>2. \A x \in Sockets : /\ sock'[x].queue = sock[x].queue /\ sock'[x].lock = sock[x].lock
                         /\ sock'[x].sel = sock[x].sel
  BY <1>1
<1>3. QueuesInv'
  BY <1>2 DEF Inv, QueuesInv
<1>4. ASSUME NEW d \in Calls
      PROVE  CallPlace(d)'
  <2>1. CallPlace(d) /\ CallFacts(call[d])
    BY DEF Inv, PlacesInv, CallsInv
  <2>2. \A x \in Sockets : InQueue(x, d)' <=> InQueue(x, d)
    BY <1>2 DEF InQueue
  <2>3. CASE call'[d] = call[d]
    <3>1. call[d].st \in {"holding", "queued", "locked"} => call[d].sock \in Sockets \ {s}
      BY <2>1 DEF CallFacts, CallPlace
    <3> QED
      BY <1>1, <1>2, <2>1, <2>2, <2>3, <3>1 DEF CallPlace, Begun, Alive
  <2>4. CASE /\ st = "open" /\ call[d].st = "waiting"
             /\ call'[d].st = "holding" /\ call'[d].sock = s
    BY <1>1, <1>2, <2>1, <2>2, <2>4 DEF CallPlace, Begun
  <2> QED
    BY <2>3, <2>4
<1> QED
  BY <1>1, <1>3, <1>4 DEF PlacesInv

LEMMA DialKeeps ==
  ASSUME Inv, NEW s \in Sockets, Dial(s)
  PROVE  Inv'
<1>0. TypeOK /\ ConnectionsInv /\ QueuesInv /\ CallsInv /\ PlacesInv
  BY DEF Inv
<1>1. /\ sock[s].st = "tls" /\ Begun(s)
      /\ sock' = [sock EXCEPT ![s].st = "dialing"]
      /\ UNCHANGED <<version, pool, box, call>>
  BY DEF Dial, Begun
<1>2. /\ sock' \in [Sockets -> SocketType]
      /\ sock'[s].st = "dialing" /\ sock'[s].of = sock[s].of /\ sock'[s].gen = sock[s].gen
      /\ \A x \in Sockets \ {s} : sock'[x] = sock[x]
      /\ QueuesInv' /\ PlacesInv'
  <2>1. \A d \in Calls : call'[d] = call[d]
    BY <1>1
  <2> QED
    BY <1>1, <2>1, MovesOn
<1>3. \A x \in Sockets : /\ Begun(x)' <=> Begun(x)
                         /\ (sock'[x].st = "open") <=> (sock[x].st = "open")
                         /\ sock'[x].st = "gone" <=> sock[x].st = "gone"
                         /\ sock'[x].of = sock[x].of /\ sock'[x].gen = sock[x].gen
  BY <1>1, <1>2 DEF Begun
<1>4. \A d \in Boxes : usable(d)' <=> usable(d)
  BY <1>0, <1>1, <1>3 DEF usable, TypeOK, BoxType
<1>5. ASSUME NEW x \in Sockets
      PROVE  SocketInv(x)'
  <2>1. SocketInv(x)
    BY <1>0 DEF ConnectionsInv
  <2>2. Begun(x) => sock[x].st # "gone"
    BY DEF Begun
  <2> QED
    BY <1>1, <1>3, <1>4, <2>1, <2>2 DEF SocketInv, Abandoned
<1>6. ASSUME NEW d \in Boxes
      PROVE  BoxInv(d)'
  BY <1>0, <1>1, <1>3 DEF ConnectionsInv, BoxInv
<1> QED
  BY <1>0, <1>1, <1>2, <1>5, <1>6 DEF Inv, TypeOK, ConnectionsInv, CallsInv

LEMMA ConnectedTooLateKeeps ==
  ASSUME Inv, NEW s \in Sockets, ConnectedTooLate(s)
  PROVE  Inv'
<1>0. TypeOK /\ ConnectionsInv /\ QueuesInv /\ CallsInv /\ PlacesInv
  BY DEF Inv
<1>1. /\ sock[s].st = "dialing" /\ Begun(s) /\ Abandoned(s)
      /\ sock' = [sock EXCEPT ![s].st = "leaving"]
      /\ UNCHANGED <<version, pool, box, call>>
  BY DEF ConnectedTooLate, Begun
<1>2. /\ sock' \in [Sockets -> SocketType]
      /\ sock'[s].st = "leaving" /\ sock'[s].of = sock[s].of /\ sock'[s].gen = sock[s].gen
      /\ \A x \in Sockets \ {s} : sock'[x] = sock[x]
      /\ QueuesInv' /\ PlacesInv'
  <2>1. \A d \in Calls : call'[d] = call[d]
    BY <1>1
  <2> QED
    BY <1>1, <2>1, MovesOn
<1>3. \A d \in Boxes : box[d].client # s /\ box[d].connecting # s
  BY <1>0, <1>1 DEF ConnectionsInv, BoxInv, Abandoned
<1>4. \A d \in Boxes : usable(d)' <=> usable(d)
  <2> TAKE d \in Boxes
  <2>1. box[d].client \in (Sockets \ {s}) \cup {None}
    BY <1>0, <1>3 DEF TypeOK, BoxType
  <2> QED
    BY <1>1, <1>2, <2>1 DEF usable
<1>5. ASSUME NEW x \in Sockets
      PROVE  SocketInv(x)'
  <2>1. SocketInv(x)
    BY <1>0 DEF ConnectionsInv
  <2>2. CASE x = s
    BY <1>1, <1>2, <2>1, <2>2 DEF SocketInv, Begun
  <2>3. CASE x # s
    <3>1. sock'[x] = sock[x]
      BY <1>2, <2>3
    <3>2. Begun(x) => sock[x].st # "gone"
      BY DEF Begun
    <3> QED
      BY <1>1, <1>4, <2>1, <3>1, <3>2 DEF SocketInv, Begun, Abandoned
  <2> QED
    BY <2>2, <2>3
<1>6. ASSUME NEW d \in Boxes
      PROVE  BoxInv(d)'
  BY <1>0, <1>1, <1>2, <1>3 DEF ConnectionsInv, BoxInv, Begun
<1> QED
  BY <1>0, <1>1, <1>2, <1>5, <1>6 DEF Inv, TypeOK, ConnectionsInv, CallsInv

LEMMA ConnectedKeeps ==
  ASSUME Inv, NEW s \in Sockets, Connected(s)
  PROVE  Inv'
<1> DEFINE b == sock[s].of
<1>0. TypeOK /\ ConnectionsInv /\ QueuesInv /\ CallsInv /\ PlacesInv
  BY DEF Inv
<1>1. /\ sock[s].st = "dialing" /\ Begun(s) /\ ~Abandoned(s)
      /\ sock' = [sock EXCEPT ![s].st = "open"]
      /\ box' = [box EXCEPT ![b].client = s, ![b].connecting = Forgotten(b, s)]
      /\ call' = [d \in Calls |-> IF d \in Waiting(s) THEN [call[d] EXCEPT !.st = "holding"] ELSE call[d]]
      /\ UNCHANGED <<version, pool>>
  BY DEF Connected, Begun
<1>2. b \in Boxes /\ box[b].connecting = s /\ ~usable(b)
  BY <1>0, <1>1 DEF ConnectionsInv, SocketInv
<1>3. ASSUME NEW d \in Calls
      PROVE  /\ call'[d] \in CallType /\ CallFacts(call'[d])
             /\ \/ call'[d] = call[d]
                \/ /\ call[d].st = "waiting" /\ call'[d].st = "holding"
                   /\ call'[d].sock = s
  <2>1. call[d] \in CallType /\ CallFacts(call[d])
    BY <1>0 DEF TypeOK, CallsInv
  <2>2. CASE call[d].st = "waiting" /\ call[d].sock = s
    <3> DEFINE r == call[d]
               q == Given(r, "holding", s)
    <3>1. call'[d] = [r EXCEPT !.st = "holding"]
      BY <1>1, <2>2 DEF Waiting
    <3>2. [r EXCEPT !.st = "holding"] = q
      BY <2>1, <2>2 DEF Given, CallType
    <3>3. Asking(r)
      BY <2>1, <2>2 DEF Asking, CallFacts
    <3> HIDE DEF r, q
    <3>4. q \in CallType /\ CallFacts(q) /\ q.st = "holding" /\ q.sock = s
      BY <3>3, GivenFacts DEF q
    <3> QED
      BY <2>2, <3>1, <3>2, <3>4
  <2>3. CASE ~(call[d].st = "waiting" /\ call[d].sock = s)
    BY <1>1, <2>1, <2>3 DEF Waiting
  <2> QED
    BY <2>2, <2>3
<1>4. call' \in [Calls -> CallType] /\ CallsInv'
  <2>1. call' \in [Calls -> CallType]
    BY <1>1, <1>3
  <2> QED
    BY <1>3, <2>1 DEF CallsInv
<1>5. /\ sock' \in [Sockets -> SocketType]
      /\ sock'[s].st = "open" /\ sock'[s].of = sock[s].of /\ sock'[s].gen = sock[s].gen
      /\ \A x \in Sockets \ {s} : sock'[x] = sock[x]
      /\ QueuesInv' /\ PlacesInv'
  BY <1>1, <1>3, MovesOn
<1>6. sock[s].of = b
  OBVIOUS
<1> HIDE DEF b
<1>7. /\ box' \in [Boxes -> BoxType]
      /\ \A d \in Boxes : box'[d].gen = box[d].gen /\ (d # b => box'[d] = box[d])
      /\ box'[b].client = s /\ box'[b].connecting = None
  BY ZenonT(60), <1>0, <1>1, <1>2 DEF TypeOK, BoxType, Forgotten
<1>8. \A d \in Boxes : box[d].client # s /\ (d # b => box[d].connecting # s)
  BY <1>0, <1>1, <1>6 DEF ConnectionsInv, BoxInv, Begun
<1>9. \A d \in Boxes \ {b} : usable(d)' <=> usable(d)
  <2> TAKE d \in Boxes \ {b}
  <2>1. box[d].client \in (Sockets \ {s}) \cup {None}
    BY <1>0, <1>8 DEF TypeOK, BoxType
  <2> QED
    BY <1>5, <1>7, <2>1 DEF usable
<1>10. ASSUME NEW x \in Sockets
       PROVE  SocketInv(x)'
  <2>1. SocketInv(x)
    BY <1>0 DEF ConnectionsInv
  <2>2. CASE x = s
    BY <1>2, <1>5, <1>6, <1>7, <2>2 DEF SocketInv, Begun
  <2>3. CASE x # s
    <3>1. sock'[x] = sock[x]
      BY <1>5, <2>3
    <3>2. Begun(x) => sock[x].st # "gone"
      BY DEF Begun
    <3>3. sock[x].st = "open" => sock[x].of # b
      BY <1>2, <2>1, ConnectionsAssumption DEF SocketInv, usable
    <3>4. Begun(x) /\ ~Abandoned(x) => sock[x].of # b
      BY <1>2, <2>1, <2>3 DEF SocketInv
    <3> QED
      BY <1>7, <1>9, <2>1, <3>1, <3>2, <3>3, <3>4 DEF SocketInv, Begun, Abandoned
  <2> QED
    BY <2>2, <2>3
<1>11. ASSUME NEW d \in Boxes
       PROVE  BoxInv(d)'
  <2>1. CASE d = b
    BY <1>1, <1>5, <1>6, <1>7, <2>1, ConnectionsAssumption DEF BoxInv, Abandoned
  <2>2. CASE d # b
    BY <1>0, <1>5, <1>7, <1>8, <2>2 DEF ConnectionsInv, BoxInv, Begun
  <2> QED
    BY <2>1, <2>2
<1> QED
  BY <1>0, <1>1, <1>4, <1>5, <1>7, <1>10, <1>11 DEF Inv, TypeOK, ConnectionsInv

LEMMA ReloadKeeps ==
  ASSUME Inv, Reload
  PROVE  Inv'
<1> DEFINE old == {pool[a] : a \in Accounts} \ {None}
           leaving == {s \in Sockets : sock[s].st = "open" /\ sock[s].of \in old /\ box[sock[s].of].client = s}
<1>0. TypeOK /\ ConnectionsInv /\ QueuesInv /\ CallsInv /\ PlacesInv
  BY DEF Inv
<1>1. /\ version' = version + 1 /\ version < MaxReloads /\ call' = call
      /\ pool' = [a \in Accounts |-> None]
      /\ box' = [b \in Boxes |-> IF b \in old THEN Closed(b) ELSE box[b]]
      /\ sock' = [s \in Sockets |-> IF s \in leaving THEN [sock[s] EXCEPT !.st = "leaving"] ELSE sock[s]]
  BY DEF Reload, resetAll
<1>2. \A s \in Sockets : s \in leaving <=> sock[s].st = "open" /\ sock[s].of \in old
  BY <1>0 DEF ConnectionsInv, SocketInv
<1> HIDE DEF old, leaving
<1>3. /\ version' \in 0 .. MaxReloads
      /\ pool' \in [Accounts -> Boxes \cup {None}]
  BY <1>0, <1>1, ConnectionsAssumption DEF TypeOK
<1>4. /\ box' \in [Boxes -> BoxType]
      /\ \A d \in Boxes :
           /\ d \notin old => box'[d] = box[d]
           /\ d \in old => /\ box'[d].client = None /\ box'[d].connecting = None
                           /\ box'[d].gen = box[d].gen + 1
           /\ box[d].gen \in Nat
  <2>1. ASSUME NEW d \in Boxes
        PROVE  /\ Closed(d) \in BoxType /\ Closed(d).client = None /\ Closed(d).connecting = None
               /\ Closed(d).gen = box[d].gen + 1 /\ box[d].gen \in Nat /\ box[d] \in BoxType
    <3>1. \A u \in BoxType, n \in Nat : [u EXCEPT !.gen = n, !.connecting = None, !.client = None] \in BoxType
      BY DEF BoxType
    <3>2. box[d] \in BoxType
      BY <1>0 DEF TypeOK
    <3>3. box[d].gen + 1 \in Nat
      BY <3>2 DEF BoxType
    <3>4. Closed(d) \in BoxType
      BY <3>1, <3>2, <3>3 DEF Closed
    <3> QED
      BY <3>2, <3>4 DEF BoxType, Closed
  <2>2. \A d \in Boxes : box'[d] = IF d \in old THEN Closed(d) ELSE box[d]
    BY <1>1
  <2>3. box' \in [Boxes -> BoxType]
    BY <1>1, <2>1
  <2> QED
    BY <2>1, <2>2, <2>3
<1>5. /\ sock' \in [Sockets -> SocketType]
      /\ \A s \in Sockets :
           /\ sock'[s].st = IF sock[s].st = "open" /\ sock[s].of \in old THEN "leaving" ELSE sock[s].st
           /\ sock'[s].of = sock[s].of /\ sock'[s].gen = sock[s].gen
           /\ sock'[s].sel = sock[s].sel /\ sock'[s].lock = sock[s].lock
           /\ sock'[s].queue = sock[s].queue
           /\ sock[s].gen \in Nat
  BY ZenonT(60), <1>0, <1>1, <1>2 DEF TypeOK, SocketType, SocketStates
<1>6. \A s \in Sockets : (Begun(s)' <=> Begun(s)) /\ (Alive(s)' <=> Alive(s))
  BY <1>5 DEF Begun, Alive
<1>7. ASSUME NEW d \in Boxes
      PROVE  usable(d)' => usable(d) /\ d \notin old
  <2>1. d \notin old => box[d].client \in Sockets \cup {None}
    BY <1>0 DEF TypeOK, BoxType
  <2> QED
    BY <1>4, <1>5, <2>1 DEF usable
<1>8. ASSUME NEW s \in Sockets
      PROVE  SocketInv(s)'
  <2>1. SocketInv(s)
    BY <1>0 DEF ConnectionsInv
  <2>2. Begun(s) => sock[s].st # "gone"
    BY DEF Begun
  <2>3. sock'[s].st = "open" => sock[s].st = "open" /\ sock[s].of \notin old
    BY <1>5
  <2>4. Begun(s) => sock'[s].gen <= box'[sock'[s].of].gen
    BY <1>4, <1>5, <2>1, <2>2 DEF SocketInv
  <2>5. Begun(s) /\ ~Abandoned(s)' => ~Abandoned(s) /\ sock[s].of \notin old
    BY <1>4, <1>5, <2>1, <2>2 DEF SocketInv, Abandoned
  <2> QED
    BY <1>4, <1>5, <1>6, <1>7, <2>1, <2>2, <2>3, <2>4, <2>5 DEF SocketInv
<1>9. ASSUME NEW d \in Boxes
      PROVE  BoxInv(d)'
  <2>1. BoxInv(d)
    BY <1>0 DEF ConnectionsInv
  <2>2. CASE d \in old
    BY <1>4, <2>2, ConnectionsAssumption DEF BoxInv
  <2>3. CASE d \notin old
    BY <1>4, <1>5, <1>6, <2>1, <2>3 DEF BoxInv
  <2> QED
    BY <2>2, <2>3
<1>10. QueuesInv'
  BY <1>0, <1>5 DEF QueuesInv
<1>11. ASSUME NEW d \in Calls
       PROVE  CallPlace(d)'
  <2>1. CallPlace(d) /\ CallFacts(call[d])
    BY <1>0 DEF PlacesInv, CallsInv
  <2>2. call'[d] = call[d]
    BY <1>1
  <2>3. \A s \in Sockets : InQueue(s, d)' <=> InQueue(s, d)
    BY <1>5 DEF InQueue
  <2>4. call[d].st \in {"holding", "queued", "locked"} => call[d].sock \in Sockets
    BY <2>1 DEF CallFacts
  <2> QED
    BY <1>5, <1>6, <2>1, <2>2, <2>3, <2>4 DEF CallPlace
<1> QED
  BY <1>0, <1>1, <1>3, <1>4, <1>5, <1>8, <1>9, <1>10, <1>11
     DEF Inv, TypeOK, ConnectionsInv, CallsInv, PlacesInv

-----------------------------------------------------------------------------
(* The invariant.                                                          *)

LEMMA InitInv == Init => Inv
<1> SUFFICES ASSUME Init
             PROVE  Inv
  OBVIOUS
<1>1. /\ version = 0
      /\ pool \in [Accounts -> Boxes \cup {None}]
      /\ box \in [Boxes -> BoxType]
      /\ \A b \in Boxes : box[b].client = None /\ box[b].connecting = None
  BY DEF Init, NewBox, BoxType
<1>2. /\ sock \in [Sockets -> SocketType]
      /\ \A s \in Sockets : sock[s].st = "gone" /\ sock[s].lock = None /\ Len(sock[s].queue) = 0
  BY NoSocketType DEF Init, NoSocket
<1>3. NoCall \in CallType /\ CallFacts(NoCall) /\ NoCall.st = "done"
  BY DEF NoCall, CallType, CallFacts
<1>4. call \in [Calls -> CallType] /\ \A c \in Calls : CallFacts(call[c]) /\ call[c].st = "done"
  BY <1>3 DEF Init
<1>5. TypeOK
  BY <1>1, <1>2, <1>4, ConnectionsAssumption DEF TypeOK
<1>6. ConnectionsInv
  BY <1>1, <1>2, ConnectionsAssumption DEF ConnectionsInv, SocketInv, BoxInv, Begun
<1>7. QueuesInv
  BY <1>2 DEF QueuesInv
<1>8. PlacesInv
  BY <1>2, <1>4, ConnectionsAssumption DEF PlacesInv, CallPlace, InQueue
<1> QED
  BY <1>4, <1>5, <1>6, <1>7, <1>8 DEF Inv, CallsInv

LEMMA NothingMoves == Inv /\ UNCHANGED vars => Inv'
<1> SUFFICES ASSUME Inv, UNCHANGED vars
             PROVE  Inv'
  OBVIOUS
<1>1. version' = version /\ pool' = pool /\ box' = box /\ sock' = sock /\ call' = call
  BY DEF vars
<1>2. TypeOK'
  BY <1>1 DEF Inv, TypeOK
<1>3. ConnectionsInv' /\ QueuesInv'
  BY <1>1, SameConnections DEF Inv, QueuesInv
<1>4. CallsInv'
  BY <1>1 DEF Inv, CallsInv
<1>5. PlacesInv'
  BY <1>1 DEF Inv, PlacesInv, CallPlace, Begun, Alive, InQueue
<1> QED
  BY <1>2, <1>3, <1>4, <1>5 DEF Inv

LEMMA NextKeeps == Inv /\ Next => Inv'
<1> SUFFICES ASSUME Inv, Next
             PROVE  Inv'
  OBVIOUS
<1>1. CASE Reload
  BY <1>1, ReloadKeeps
<1>2. ASSUME NEW c \in Calls, NEW tool \in Tools, NEW a \in Accounts, NEW f \in Folders \cup {None},
             Start(c, tool, a, f)
      PROVE  Inv'
  BY <1>2, StartKeeps
<1>3. ASSUME NEW c \in Calls,
             \/ Send(c) \/ Copy(c) \/ BuildFails(c)
             \/ Ask(c) \/ Select(c) \/ First(c) \/ Finish(c) \/ FinishEmpty(c) \/ Refused(c)
      PROVE  Inv'
  BY <1>3, SendKeeps, CopyKeeps, BuildFailsKeeps, AskKeeps, SelectKeeps, FirstKeeps,
     FinishKeeps, FinishEmptyKeeps, RefusedKeeps
<1>4. ASSUME NEW s \in Sockets, GiveUp(s) \/ ConnectFails(s) \/ LoggedOut(s)
      PROVE  Inv'
  <2>1. sock[s].st \in {"tls", "dialing", "leaving"} /\ AttemptFails(s)
    BY <1>4 DEF GiveUp, ConnectFails, LoggedOut
  <2> QED
    BY <2>1, AttemptFailsKeeps
<1>5. ASSUME NEW s \in Sockets, Dial(s) \/ Connected(s) \/ ConnectedTooLate(s)
      PROVE  Inv'
  BY <1>5, DialKeeps, ConnectedKeeps, ConnectedTooLateKeeps
<1>6. ASSUME NEW s \in Sockets, NEW event \in BOOLEAN, Dies(s, event)
      PROVE  Inv'
  BY <1>6, DiesKeeps
<1> QED
  BY <1>1, <1>2, <1>3, <1>4, <1>5, <1>6 DEF Next

LEMMA Invariance == Spec => []Inv
<1>1. Inv /\ [Next]_vars => Inv'
  BY NextKeeps, NothingMoves
<1> QED
  BY InitInv, <1>1, PTL DEF Spec

-----------------------------------------------------------------------------
(* What follows.                                                           *)

\* The pool refers to clients that were built, the clients to connections, and the
\* queue of a mailbox lock holds calls: src/client-pool.ts, src/imap-client.ts.
THEOREM TypeCorrect == Spec => []TypeOK
<1>1. Inv => TypeOK
  BY DEF Inv
<1> QED
  BY <1>1, Invariance, PTL

\* However calls, connection attempts, deaths and reloads follow each other, a client
\* has one open connection at most and keeps it, so that close() reaches it
\* (ensureConnected() and close() of src/imap-client.ts).
THEOREM OneConnectionKept == Spec => []OpenIsKept
<1>1. Inv => OpenIsKept
  BY DEF Inv, ConnectionsInv, SocketInv, OpenIsKept
<1> QED
  BY <1>1, Invariance, PTL

\* What a client hands to a call, or lets it wait for, was begun after its last close():
\* the generation that connect() compares leaves no attempt behind that could become the
\* client's later (src/imap-client.ts).
THEOREM NothingStaleHandedOut == Spec => []NothingFromBeforeTheClose
<1>1. Inv => NothingFromBeforeTheClose
  <2> SUFFICES ASSUME Inv, NEW b \in Boxes
               PROVE  /\ \A s \in {box[b].client} \ {None} : sock[s].st = "open" => sock[s].gen = box[b].gen
                      /\ \A s \in {box[b].connecting} \ {None} :
                           sock[s].st \in {"tls", "dialing"} /\ sock[s].gen = box[b].gen
    BY DEF NothingFromBeforeTheClose
  <2>1. box[b].client \in Sockets \cup {None} /\ box[b].connecting \in Sockets \cup {None}
    BY DEF Inv, TypeOK, BoxType
  <2> QED
    BY <2>1 DEF Inv, ConnectionsInv, BoxInv, Begun
<1> QED
  BY <1>1, Invariance, PTL

\* Every command runs in the mailbox its call has locked, whatever other calls do on the
\* same connection between two of its commands, and whoever ends has given back its lock
\* and its place in the queue, also when it never got the lock (getMailboxLock()
\* and lock.release() in src/imap-client.ts).
THEOREM CommandsStayInTheirMailbox == Spec => []NoCommandStrays
<1>1. Inv => NoCommandStrays
  <2> SUFFICES ASSUME Inv, NEW c \in Calls
               PROVE  /\ ~call[c].stray
                      /\ \A s \in Sockets :
                           (sock[s].lock = c \/ \E i \in DOMAIN sock[s].queue : sock[s].queue[i] = c)
                             => call[c].sock = s /\ call[c].st \in {"queued", "locked"}
    BY DEF NoCommandStrays
  <2>1. CallFacts(call[c]) /\ CallPlace(c)
    BY DEF Inv, CallsInv, PlacesInv
  <2>2. \A s \in Sockets : DOMAIN sock[s].queue = 1..Len(sock[s].queue)
    BY DEF Inv, TypeOK, SocketType
  <2> QED
    BY <2>1, <2>2 DEF CallFacts, CallPlace, InQueue
<1> QED
  BY <1>1, Invariance, PTL

\* A mail the SMTP server took is not answered as an error, although the copy to Sent
\* may fail in every way a connection may, and every failure leaves one line in the log
\* (send_message and reportingFailures() of src/tools-mail.ts).
THEOREM SentIsNeverAnError == Spec => []SendingIsAnswered
<1>1. Inv => SendingIsAnswered
  BY DEF Inv, CallsInv, CallFacts, SendingIsAnswered
<1> QED
  BY <1>1, Invariance, PTL

=============================================================================
