---------------------------- MODULE Connections ----------------------------
(***************************************************************************)
(* The connections the mail tools share: one ImapClient (src/imap-client.ts)*)
(* per account in the pool (src/client-pool.ts), used by every tool call   *)
(* (src/tools-mail.ts) that runs at the time, dropped and closed when      *)
(* accounts.json is reloaded, while calls that took it before still hold   *)
(* it; and the SMTP transport of one send (src/smtp-client.ts).            *)
(***************************************************************************)
EXTENDS Naturals, SequencesExt

CONSTANTS
  Calls,       \* tool calls that may run at the same time
  Accounts,
  Folders,     \* mailboxes read from and changed
  Sockets,     \* bound: connections that exist at the same time
  MaxReloads,  \* bound: reloads of accounts.json
  None

ASSUME ConnectionsAssumption ==
  /\ MaxReloads \in Nat
  /\ None \notin Calls \cup Accounts \cup Folders \cup Sockets

Boxes == Accounts \X (0 .. MaxReloads)

VARIABLES
  version,   \* how often accounts.json has been reloaded
  pool,      \* ClientPool.pool: the clients cached for each account
  box,       \* every ImapClient (and its CalDavClient) ever built, by account and version
  sock,      \* every ImapFlow: the attempt that opens it, then the connection
  call       \* the tool calls

vars == <<version, pool, box, sock, call>>

\* `usable` is ImapFlow's: a connection that is neither closed nor logging out.
SocketStates == {"gone", "tls", "dialing", "open", "leaving"}

NoSocket == [st |-> "gone", of |-> None, gen |-> 0, sel |-> None, lock |-> None, queue |-> <<>>]

NewBox == [client |-> None, connecting |-> None, gen |-> 0]

\* The tools, by how they use the connections: list_folders takes no mailbox
\* lock; list_messages (STATUS, a SEARCH for the unread, FETCH), search_messages
\* and get_message read in several commands under one; mark_read, move_message
\* and delete_message are one command under it; create_draft and send_message
\* append without it.
Tools == {"list", "read", "change", "draft", "send"}

\* Faulty: reading takes no lock.
LocksToChange(tool) == tool = "change"

Locks(tool) == tool \in {"read", "change"}

NoCall == [st |-> "done", tool |-> None, box |-> None, folder |-> None, sock |-> None, half |-> FALSE,
           stray |-> FALSE, accepted |-> FALSE, answer |-> "ok", lines |-> 0]

BoxType ==
  [ client     : Sockets \cup {None},
    connecting : Sockets \cup {None},
    gen        : Nat ]

SocketType ==
  [ st    : SocketStates,
    of    : Boxes \cup {None},     \* the client it is for
    gen   : Nat,                   \* that client's, when the attempt began
    sel   : Folders \cup {None},   \* the mailbox selected
    lock  : Calls \cup {None},
    queue : Seq(Calls) ]

CallType ==
  [ st       : {"done", "sending", "ready", "waiting", "holding", "queued", "locked"},
    tool     : Tools \cup {None},
    box      : Boxes \cup {None},
    folder   : Folders \cup {None},
    sock     : Sockets \cup {None},
    half     : BOOLEAN,
    stray    : BOOLEAN,
    accepted : BOOLEAN,
    answer   : {"ok", "error", "unsaved", "unbuilt"},
    lines    : Nat ]

TypeOK ==
  /\ version \in 0 .. MaxReloads
  /\ pool \in [Accounts -> Boxes \cup {None}]
  /\ box \in [Boxes -> BoxType]
  /\ sock \in [Sockets -> SocketType]
  /\ call \in [Calls -> CallType]

Init ==
  /\ version = 0
  /\ pool = [a \in Accounts |-> None]
  /\ box = [b \in Boxes |-> NewBox]
  /\ sock = [s \in Sockets |-> NoSocket]
  /\ call = [c \in Calls |-> NoCall]

-----------------------------------------------------------------------------
(* What a call leaves when it ends *)

Ended(r, answer, lines) ==
  [NoCall EXCEPT !.st = "done", !.stray = r.stray, !.accepted = r.accepted, !.answer = answer, !.lines = lines]

\* Faulty: the copy to Sent that fails fails the call.
RethrownCopy(r) == Ended(r, "error", r.lines + 1)

\* reportingFailures() logs one line and throws; the copy to Sent that fails
\* is logged and answered as not saved.
Faulted(r) ==
  Ended(r, IF r.tool = "send" /\ r.accepted THEN "unsaved" ELSE "error", r.lines + 1)

Answered(r) == Ended(r, "ok", r.lines)

\* The connection s without call c: its lock and its place in the queue.
Left(s, c) ==
  [s EXCEPT !.lock = IF @ = c THEN None ELSE @, !.queue = RemoveFirst(@, c)]

\* The lock's `finally`.
release(c) ==
  LET s == call[c].sock IN sock' = [sock EXCEPT ![s] = Left(@, c)]

-----------------------------------------------------------------------------
(* ImapClient *)

\* A connection nobody refers to any more may stand for the next one.
Unreferenced(s) ==
  /\ sock[s].st = "gone"
  /\ \A b \in Boxes : box[b].client # s /\ box[b].connecting # s
  /\ \A c \in Calls : call[c].sock # s

usable(b) == box[b].client # None /\ sock[box[b].client].st = "open"

\* ensureConnected(), up to its first await.  `r` is the call as it is when it
\* asks.
ensureConnected(c, r) ==
  LET b == r.box IN
    \/ /\ usable(b)
       /\ call' = [call EXCEPT ![c] = [r EXCEPT !.st = "holding", !.sock = box[b].client]]
       /\ UNCHANGED <<box, sock>>
    \/ /\ ~usable(b) /\ box[b].connecting # None
       /\ call' = [call EXCEPT ![c] = [r EXCEPT !.st = "waiting", !.sock = box[b].connecting]]
       /\ UNCHANGED <<box, sock>>
    \/ /\ ~usable(b) /\ box[b].connecting = None
       /\ \E s \in Sockets :
            /\ Unreferenced(s)
            /\ sock' = [sock EXCEPT ![s] = [NoSocket EXCEPT !.st = "tls", !.of = b, !.gen = box[b].gen]]
            /\ box' = [box EXCEPT ![b].connecting = s]
            /\ call' = [call EXCEPT ![c] = [r EXCEPT !.st = "waiting", !.sock = s]]

\* Faulty: the `finally` forgets whatever is there.
ForgotAny(b, s) == None

\* The `finally` of the attempt: it forgets itself, and no later attempt.
Forgotten(b, s) == IF box[b].connecting = s THEN None ELSE box[b].connecting

Waiting(s) == {c \in Calls : call[c].st = "waiting" /\ call[c].sock = s}

\* An attempt that fails rejects for everybody who shares it.
AttemptFails(s) ==
  LET b == sock[s].of IN
    /\ sock' = [sock EXCEPT ![s] = NoSocket]
    /\ box' = [box EXCEPT ![b].connecting = Forgotten(b, s)]
    /\ call' = [c \in Calls |-> IF c \in Waiting(s) THEN Faulted(call[c]) ELSE call[c]]
    /\ UNCHANGED <<version, pool>>

\* Faulty: connect() never asks.
NeverAbandoned(s) == FALSE

\* close() ran since the attempt began.
Abandoned(s) == sock[s].gen # box[sock[s].of].gen

\* imapTlsOptions() has answered: the connection is dialled, unless close() ran.
Dial(s) ==
  /\ sock[s].st = "tls"
  /\ ~Abandoned(s)
  /\ sock' = [sock EXCEPT ![s].st = "dialing"]
  /\ UNCHANGED <<version, pool, box, call>>

GiveUp(s) ==
  /\ sock[s].st = "tls" /\ Abandoned(s)
  /\ AttemptFails(s)

ConnectFails(s) ==
  /\ sock[s].st \in {"tls", "dialing"}
  /\ AttemptFails(s)

\* The connection becomes the client's, for everybody who waits for it.
Connected(s) ==
  LET b == sock[s].of IN
    /\ sock[s].st = "dialing"
    /\ ~Abandoned(s)
    /\ sock' = [sock EXCEPT ![s].st = "open"]
    /\ box' = [box EXCEPT ![b].client = s, ![b].connecting = Forgotten(b, s)]
    /\ call' = [c \in Calls |-> IF c \in Waiting(s) THEN [call[c] EXCEPT !.st = "holding"] ELSE call[c]]
    /\ UNCHANGED <<version, pool>>

\* close() ran meanwhile: the connection is logged out instead.
ConnectedTooLate(s) ==
  /\ sock[s].st = "dialing" /\ Abandoned(s)
  /\ sock' = [sock EXCEPT ![s].st = "leaving"]
  /\ UNCHANGED <<version, pool, box, call>>

\* logout() of an abandoned attempt, or of close(), is over, well or not.
LoggedOut(s) ==
  /\ sock[s].st = "leaving"
  /\ AttemptFails(s)

\* The connection dies: with an "error" event, which clears `client`, or not.
Dies(s, event) ==
  LET b == sock[s].of IN
    /\ sock[s].st = "open"
    /\ sock' = [sock EXCEPT ![s] = NoSocket]
    /\ box' = [box EXCEPT ![b].client = IF event /\ @ = s THEN None ELSE @]
    /\ UNCHANGED <<version, pool, call>>

-----------------------------------------------------------------------------
(* ClientPool *)

\* The clients of an account as accounts.json has it now.
build(a) == <<a, version>>

\* for(): the clients cached for the account, or new ones.
poolFor(a) == IF pool[a] # None THEN pool[a] ELSE build(a)

\* close(): the parts before logout() is awaited.
Closed(b) == [box[b] EXCEPT !.gen = @ + 1, !.connecting = None, !.client = None]

\* resetAll() empties the pool and then closes what was in it.
resetAll ==
  LET old == {pool[a] : a \in Accounts} \ {None}
      leaving == {s \in Sockets : sock[s].st = "open" /\ sock[s].of \in old /\ box[sock[s].of].client = s}
  IN
    /\ pool' = [a \in Accounts |-> None]
    /\ box' = [b \in Boxes |-> IF b \in old THEN Closed(b) ELSE box[b]]
    /\ sock' = [s \in Sockets |-> IF s \in leaving THEN [sock[s] EXCEPT !.st = "leaving"] ELSE sock[s]]

\* The store has new accounts, and says so.
Reload ==
  /\ version < MaxReloads
  /\ version' = version + 1
  /\ resetAll
  /\ UNCHANGED call

-----------------------------------------------------------------------------
(* The tools *)

\* A mail tool that reads or changes goes straight to the connection;
\* send_message hands its mail to the SMTP server first, create_draft builds
\* it first.
Start(c, tool, a, f) ==
  LET b == poolFor(a)
      r == [NoCall EXCEPT !.tool = tool, !.box = b, !.folder = f]
  IN
    /\ call[c].st = "done"
    /\ f \in IF tool \in {"read", "change"} THEN Folders ELSE {None}
    /\ pool' = [pool EXCEPT ![a] = b]
    /\ UNCHANGED version
    /\ \/ tool \in {"list", "read", "change"} /\ ensureConnected(c, r)
       \/ /\ tool \in {"draft", "send"}
          /\ call' = [call EXCEPT ![c] = [r EXCEPT !.st = IF tool = "send" THEN "sending" ELSE "ready"]]
          /\ UNCHANGED <<box, sock>>

\* SmtpClient.send(): a transport of its own, closed however it ends.  The
\* answer may be lost after the server took the mail; only one that came is
\* `accepted`.
Send(c) ==
  /\ call[c].st = "sending"
  /\ \/ call' = [call EXCEPT ![c].st = "ready", ![c].accepted = TRUE]
     \/ call' = [call EXCEPT ![c] = Answered([@ EXCEPT !.accepted = TRUE])]   \* no Sent folder
     \/ call' = [call EXCEPT ![c] = Faulted(@)]
  /\ UNCHANGED <<version, pool, box, sock>>

\* buildRawSource() is done: the message is appended.
Copy(c) ==
  /\ call[c].st = "ready"
  /\ ensureConnected(c, call[c])
  /\ UNCHANGED <<version, pool>>

\* Only the draft's building is outside reportingFailures().
BuildFails(c) ==
  /\ call[c].st = "ready"
  /\ call' = [call EXCEPT ![c] = IF @.tool = "draft" THEN Ended(@, "unbuilt", 0) ELSE Faulted(@)]
  /\ UNCHANGED <<version, pool, box, sock>>

\* A connection that is closing still answers what it was asked before.
Alive(s) == sock[s].st \in {"open", "leaving"}

\* getMailboxLock(): ImapFlow grants it in the order of the asking.
Ask(c) ==
  LET s == call[c].sock IN
    /\ call[c].st = "holding" /\ Locks(call[c].tool)
    /\ sock[s].st = "open"
    /\ sock' = [sock EXCEPT ![s].queue = Append(@, c)]
    /\ call' = [call EXCEPT ![c].st = "queued"]
    /\ UNCHANGED <<version, pool, box>>

\* The lock is granted, and the mailbox selected.
Select(c) ==
  LET s == call[c].sock IN
    /\ call[c].st = "queued" /\ Alive(s)
    /\ sock[s].lock = None /\ Head(sock[s].queue) = c
    /\ sock' = [sock EXCEPT ![s].lock = c, ![s].queue = Tail(@), ![s].sel = call[c].folder]
    /\ call' = [call EXCEPT ![c].st = "locked"]
    /\ UNCHANGED <<version, pool, box>>

\* A command needing a mailbox runs in the one that is selected.
Strayed(r) == r.stray \/ (r.folder # None /\ sock[r.sock].sel # r.folder)

MayRun(r) == r.st = "locked" \/ (r.st = "holding" /\ ~Locks(r.tool))

\* A command of a reading before its last: STATUS, SEARCH, or one and then the other.
First(c) ==
  /\ MayRun(call[c]) /\ call[c].tool = "read"
  /\ Alive(call[c].sock)
  /\ call' = [call EXCEPT ![c].stray = Strayed(call[c]), ![c].half = TRUE]
  /\ UNCHANGED <<version, pool, box, sock>>

\* The command is answered, and with it the call.
Finish(c) ==
  /\ MayRun(call[c]) /\ (call[c].tool = "read" => call[c].half)
  /\ Alive(call[c].sock)
  /\ call' = [call EXCEPT ![c] = Answered([@ EXCEPT !.stray = Strayed(call[c])])]
  /\ release(c)
  /\ UNCHANGED <<version, pool, box>>

\* The mailbox is empty, or nothing matches: nothing is fetched.
FinishEmpty(c) ==
  /\ MayRun(call[c]) /\ call[c].half
  /\ call' = [call EXCEPT ![c] = Answered(@)]
  /\ release(c)
  /\ UNCHANGED <<version, pool, box>>

\* A connection that is gone fails what waits for it; the server may refuse a
\* SELECT or a command.
Refused(c) ==
  /\ call[c].st \in {"holding", "queued", "locked"}
  /\ call[c].st = "queued" /\ Alive(call[c].sock) =>
       sock[call[c].sock].lock = None /\ Head(sock[call[c].sock].queue) = c
  /\ call' = [call EXCEPT ![c] = Faulted(@)]
  /\ release(c)
  /\ UNCHANGED <<version, pool, box>>

-----------------------------------------------------------------------------

Next ==
  \/ Reload
  \/ \E c \in Calls : \/ \E tool \in Tools, a \in Accounts, f \in Folders \cup {None} : Start(c, tool, a, f)
                      \/ Send(c) \/ Copy(c) \/ BuildFails(c)
                      \/ Ask(c) \/ Select(c) \/ First(c) \/ Finish(c) \/ FinishEmpty(c) \/ Refused(c)
  \/ \E s \in Sockets : \/ Dial(s) \/ GiveUp(s) \/ ConnectFails(s) \/ Connected(s) \/ ConnectedTooLate(s)
                        \/ LoggedOut(s) \/ \E event \in BOOLEAN : Dies(s, event)

Spec == Init /\ [][Next]_vars

-----------------------------------------------------------------------------
(* What the tools count on *)

\* A connection that is open is the one its client keeps, so that close() can
\* reach it and nobody's second connection is left behind.
OpenIsKept ==
  \A s \in Sockets : sock[s].st = "open" => box[sock[s].of].client = s

\* What a client keeps, or is waiting for, was begun after it was last
\* closed: a connection its owner closed is not handed to a later call, and an
\* attempt that has ended is not waited for.
NothingFromBeforeTheClose ==
  \A b \in Boxes :
    /\ \A s \in {box[b].client} \ {None} : sock[s].st = "open" => sock[s].gen = box[b].gen
    /\ \A s \in {box[b].connecting} \ {None} : sock[s].st \in {"tls", "dialing"} /\ sock[s].gen = box[b].gen

\* Every command that needs a mailbox ran in the one its call had locked, whatever
\* others did on the connection meanwhile; and no call that ended has left a lock
\* behind, or a place in its queue (getMailboxLock(), lock.release()).
NoCommandStrays ==
  \A c \in Calls :
    /\ ~call[c].stray
    /\ \A s \in Sockets :
         (sock[s].lock = c \/ \E i \in DOMAIN sock[s].queue : sock[s].queue[i] = c)
           => call[c].sock = s /\ call[c].st \in {"queued", "locked"}

\* A mail the server took is never answered as an error (the model would send
\* it again), and what failed, a copy to Sent included, left one line.
SendingIsAnswered ==
  \A c \in Calls : call[c].st = "done" =>
    /\ call[c].accepted => call[c].answer # "error"
    /\ call[c].lines = IF call[c].answer \in {"error", "unsaved"} THEN 1 ELSE 0

=============================================================================
