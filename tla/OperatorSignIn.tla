--------------------------- MODULE OperatorSignIn ---------------------------
(***************************************************************************)
(* The operator's credential, browser sessions and failed attempts of the  *)
(* OAuth layer (oauth/src/operator.ts, session.ts, throttle.ts, the        *)
(* sign-in, sign-out and password routes of settings-routes.ts and the     *)
(* sign-in of app.ts).                                                     *)
(*                                                                         *)
(* A call is one request.  Its steps are the stretches between two awaits: *)
(* verifying a cookie, verifying a password, hashing one, signing a        *)
(* cookie, and the write of the operator file.  A session cookie carries   *)
(* the session epoch it was made in and is good while that is the          *)
(* record's.                                                               *)
(*                                                                         *)
(* One address: addresses share nothing.  OPERATOR_FILE names a file.      *)
(***************************************************************************)
EXTENDS Integers, FiniteSets, Sequences

CONSTANTS
  Calls,       \* requests; each is made at most once
  Passwords,   \* what can be typed
  Seed,        \* the password of the seeded record
  MaxFailures, \* MAX_FAILURES
  Window,      \* WINDOW_SECONDS
  Ttl,         \* SESSION_TTL_SECONDS
  MaxTime,     \* bound: the clock
  MaxRestarts  \* bound: restarts of the process

ASSUME SignInAssumption ==
  /\ Seed \in Passwords
  /\ {MaxFailures, Window, Ttl} \subseteq Nat \ {0}
  /\ MaxTime \in Nat /\ MaxRestarts \in Nat

\* POST /settings/login, POST /authorize, GET /settings/..., POST /settings/logout
\* with all=1, POST /settings/password.
Kinds == {"login", "authorize", "page", "logout", "password"}
Steps == {"idle", "guard", "verify", "sign", "hash", "save", "end"}
Answers == {"none", "ok", "wrong", "throttled", "signedOut", "rules", "error", "dropped"}

VARIABLES
  record,    \* #data
  file,      \* what OPERATOR_FILE holds
  chain,     \* #writeChain: the writes queued, the one at work first
  landed,    \* the writes on the file whose callers are not answered yet
  failures,  \* the address's failed attempts, a call's at most one
  calls,     \* the requests
  cookies,   \* session cookies handed out
  now,
  restarts,
  hist       \* history: see HistType

vars == <<record, file, chain, landed, failures, calls, cookies, now, restarts, hist>>

\* A session epoch is bumped by a call, so there are never more than calls; gen
\* numbers the bumps over all restarts, for the properties.
Records == [password : Passwords, epoch : Nat]
Claims == [epoch : Nat, gen : Nat]
Cookies == [claims : Claims, exp : Nat]
Writes == [by : Calls, data : Records, gen : Nat]
Failures == [by : Calls, at : Nat]

CallType ==
  [ kind   : Kinds,
    step   : Steps,
    typed  : Passwords,
    next   : Passwords,      \* the new password of a change
    good   : BOOLEAN,        \* what verify() or verifySession() will answer
    claims : Claims,         \* the session the cookie sent, or to be sent, names
    answer : Answers ]

HistType ==
  [ gen      : Nat,            \* bumps of the session epoch so far
    answered : Nat,            \* the last of them a caller was told of
    told     : SUBSET Records, \* the records callers were told are saved
    lost     : BOOLEAN,        \* a restart lost a bump
    abreast  : BOOLEAN ]       \* two attempts were verified at the same time

-----------------------------------------------------------------------------
(* throttle.ts                                                             *)

LiveAt(t) == {f \in failures : f.at > t - Window}
Live == LiveAt(now)
\* Faulty: one attempt too many.
BlockedLate == Cardinality(Live) > MaxFailures

Blocked == Cardinality(Live) >= MaxFailures

\* Until the oldest of them ages out.
RetryAfter ==
  IF Blocked
  THEN LET oldest == CHOOSE f \in Live : \A g \in Live : f.at <= g.at
       IN  oldest.at + Window - now
  ELSE 0

RecordFailure(r) == failures' = Live \cup {[by |-> r, at |-> now]}
RecordSuccess == failures' = {}

-----------------------------------------------------------------------------
(* The steps of a call.                                                    *)

At(r, step) == calls[r].step = step
GoTo(r, step) == calls' = [calls EXCEPT ![r].step = step]
Answer(r, a) == calls' = [calls EXCEPT ![r].step = "end", ![r].answer = a]

\* operator.verify() is called: it compares with the hash of now.
Verify(r, call) ==
  /\ calls' = [calls EXCEPT ![r] =
       [call EXCEPT !.step = "verify", !.good = call.typed = record.password]]
  /\ hist' = [hist EXCEPT !.abreast = @ \/ \E q \in Calls \ {r} : At(q, "verify")]

\* The check of the throttle, then the password.
Attempt(r, call) ==
  \/ /\ Blocked
     /\ calls' = [calls EXCEPT ![r] = [call EXCEPT !.step = "end", !.answer = "throttled"]]
     /\ UNCHANGED hist
  \/ ~Blocked /\ Verify(r, call)

\* A sign-in is submitted.
SignIn(r) ==
  /\ At(r, "idle")
  /\ \E kind \in {"login", "authorize"}, typed \in Passwords :
       Attempt(r, [calls[r] EXCEPT !.kind = kind, !.typed = typed])
  /\ UNCHANGED <<record, file, chain, landed, failures, cookies, now, restarts>>

Accepted(c) == c.claims.epoch = record.epoch /\ c.exp > now

\* A request with a session cookie: verifySession() is called with the epoch of now.
Visit(r) ==
  /\ At(r, "idle")
  /\ \E kind \in {"page", "logout", "password"}, c \in cookies, typed, next \in Passwords :
       /\ kind # "password" => typed = Seed /\ next = Seed
       /\ calls' = [calls EXCEPT ![r] =
            [@ EXCEPT !.kind = kind, !.step = "guard", !.typed = typed, !.next = next,
                      !.good = Accepted(c), !.claims = c.claims]]
  /\ UNCHANGED <<record, file, chain, landed, failures, cookies, now, restarts, hist>>

\* Faulty: the epoch stays.
BumpNot(r, password) ==
  LET data == [password |-> password, epoch |-> record.epoch]
  IN  /\ record' = data
      /\ chain' = Append(chain, [by |-> r, data |-> data, gen |-> hist.gen + 1])
      /\ hist' = [hist EXCEPT !.gen = @ + 1]
      /\ GoTo(r, "save")

\* A change of the record with a new session epoch, its write queued at once.
Bump(r, password) ==
  LET data == [password |-> password, epoch |-> record.epoch + 1]
  IN  /\ record' = data
      /\ chain' = Append(chain, [by |-> r, data |-> data, gen |-> hist.gen + 1])
      /\ hist' = [hist EXCEPT !.gen = @ + 1]
      /\ GoTo(r, "save")

SignOutAll(r) == calls[r].good /\ calls[r].kind = "logout" /\ Bump(r, record.password)

\* requireSession() and what follows it at once.
Guarded(r) ==
  /\ At(r, "guard")
  /\ \/ /\ ~calls[r].good
        /\ Answer(r, "signedOut") /\ UNCHANGED <<record, chain, hist>>
     \/ /\ calls[r].good /\ calls[r].kind = "page"
        /\ GoTo(r, "sign") /\ UNCHANGED <<record, chain, hist>>
     \/ SignOutAll(r)
     \/ /\ calls[r].good /\ calls[r].kind = "password"
        /\ Attempt(r, calls[r]) /\ UNCHANGED <<record, chain>>
  /\ UNCHANGED <<file, landed, failures, cookies, now, restarts>>

\* The password is verified.
Wrong(r) == ~calls[r].good /\ RecordFailure(r) /\ Answer(r, "wrong")

\* The claims of a new session hold the epoch of now.
LoggedIn(r) ==
  /\ calls[r].good /\ calls[r].kind = "login"
  /\ RecordSuccess
  /\ calls' = [calls EXCEPT ![r].step = "sign",
                 ![r].claims = [epoch |-> record.epoch, gen |-> hist.gen]]

Authorized(r) ==
  calls[r].good /\ calls[r].kind = "authorize" /\ RecordSuccess /\ Answer(r, "ok")

\* The new password may still be one the rules refuse.
MayChange(r) ==
  /\ calls[r].good /\ calls[r].kind = "password"
  /\ Answer(r, "rules") \/ GoTo(r, "hash")
  /\ UNCHANGED failures

Verified(r) ==
  /\ At(r, "verify")
  /\ Wrong(r) \/ LoggedIn(r) \/ Authorized(r) \/ MayChange(r)
  /\ UNCHANGED <<record, file, chain, landed, cookies, now, restarts, hist>>

\* The cookie is signed and sent.
Signed(r) ==
  /\ At(r, "sign")
  /\ cookies' = cookies \cup {[claims |-> calls[r].claims, exp |-> now + Ttl]}
  /\ Answer(r, "ok")
  /\ UNCHANGED <<record, file, chain, landed, failures, now, restarts, hist>>

\* changePassword(), once the new password is hashed.
Hashed(r) ==
  /\ At(r, "hash")
  /\ Bump(r, calls[r].next)
  /\ UNCHANGED <<file, landed, failures, cookies, now, restarts>>

\* A write lands, and the rest of the chain goes on.
Landing(w, rest) ==
  /\ file' = w.data
  /\ chain' = rest
  /\ landed' = landed \cup {w}
  /\ UNCHANGED <<record, failures, calls, cookies, now, restarts, hist>>

\* Faulty: the writes do not wait for each other.
WrittenAtOnce ==
  \E i \in DOMAIN chain :
    Landing(chain[i], SubSeq(chain, 1, i - 1) \o SubSeq(chain, i + 1, Len(chain)))

\* The first write of the chain lands, or it fails and its caller hears of that.
Written == chain # <<>> /\ Landing(Head(chain), Tail(chain))

NotWritten ==
  /\ chain # <<>>
  /\ chain' = Tail(chain)
  /\ Answer(Head(chain).by, "error")
  /\ UNCHANGED <<record, file, landed, failures, cookies, now, restarts, hist>>

\* The caller of a write that landed is answered.
Saved ==
  \E w \in landed :
    /\ landed' = landed \ {w}
    /\ Answer(w.by, "ok")
    /\ hist' = [hist EXCEPT !.answered = IF w.gen > @ THEN w.gen ELSE @, !.told = @ \cup {w.data}]
    /\ UNCHANGED <<record, file, chain, failures, cookies, now, restarts>>

-----------------------------------------------------------------------------

\* The process ends, whatever is under way, and opens the file again.
Restart ==
  /\ restarts < MaxRestarts
  /\ restarts' = restarts + 1
  /\ record' = file /\ chain' = <<>> /\ landed' = {} /\ failures' = {}
  /\ calls' = [r \in Calls |->
       IF calls[r].step \in {"idle", "end"} THEN calls[r]
       ELSE [calls[r] EXCEPT !.step = "end", !.answer = "dropped"]]
  /\ hist' = [hist EXCEPT !.lost = @ \/ record # file]
  /\ UNCHANGED <<file, cookies, now>>

Tick ==
  /\ now < MaxTime
  /\ now' = now + 1
  /\ UNCHANGED <<record, file, chain, landed, failures, calls, cookies, restarts, hist>>

Init ==
  /\ record = [password |-> Seed, epoch |-> 0]
  /\ file = record
  /\ chain = <<>> /\ landed = {}
  /\ failures = {}
  /\ calls = [r \in Calls |->
       [ kind |-> "login", step |-> "idle", typed |-> Seed, next |-> Seed, good |-> FALSE,
         claims |-> [epoch |-> 0, gen |-> 0], answer |-> "none" ]]
  /\ cookies = {}
  /\ now = 0
  /\ restarts = 0
  /\ hist = [gen |-> 0, answered |-> 0, told |-> {}, lost |-> FALSE, abreast |-> FALSE]

Step(r) == Guarded(r) \/ Verified(r) \/ Signed(r) \/ Hashed(r)

\* Every call ended: nothing need happen any more.
Quiet == (\A r \in Calls : At(r, "end")) /\ UNCHANGED vars

Next ==
  \/ \E r \in Calls : SignIn(r) \/ Visit(r) \/ Step(r)
  \/ Written \/ NotWritten \/ Saved
  \/ Restart \/ Tick \/ Quiet

Spec == Init /\ [][Next]_vars

-----------------------------------------------------------------------------

TypeOK ==
  /\ record \in Records /\ file \in Records
  /\ chain \in Seq(Writes) /\ landed \subseteq Writes
  /\ failures \subseteq Failures
  /\ calls \in [Calls -> CallType]
  /\ cookies \subseteq Cookies
  /\ now \in Nat /\ restarts \in Nat
  /\ hist \in HistType

\* A bump of the session epoch that was answered ends every session made before it
\* (session.ts), if no restart lost a bump in between.
SignedOutStaysOut ==
  ~hist.lost => \A c \in cookies : Accepted(c) => c.claims.gen >= hist.answered

OnFile(data) == file = data \/ file.epoch > data.epoch

\* Every record a caller was told is saved, by a password change or a sign-out, is what
\* the file holds, or a record of a later epoch took its place there: no write that
\* was queued before it, no failed one and no restart brings an older one back.
AnsweredIsFiled == \A data \in hist.told : OnFile(data)

\* Attempts made one after the other: no more failures count than the throttle
\* allows, and whoever waits as long as RetryAfter says is let in.
ThrottleKeepsItsWord ==
  ~hist.abreast =>
    /\ Cardinality(Live) <= MaxFailures
    /\ Cardinality(LiveAt(now + RetryAfter)) < MaxFailures

=============================================================================
