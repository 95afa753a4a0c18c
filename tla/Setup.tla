------------------------------- MODULE Setup -------------------------------
(***************************************************************************)
(* An instance from its first boot to its claim: the claim token, the gate *)
(* in front of every route, the setup wizard and the operator's record     *)
(* (oauth/src/bootstrap.ts, setup-state.ts, setup-routes.ts, app.ts), with *)
(* the secrets both services boot from (Secrets) and the connector that    *)
(* stores the wizard's mailboxes.                                          *)
(*                                                                         *)
(* A request is one form submission, from any tab that has the setup link; *)
(* its steps are what its handler awaits.  What the forms say is left out, *)
(* but for the mailbox a save would store.                                 *)
(***************************************************************************)
EXTENDS Secrets

CONSTANTS
  Oauth, Connector,   \* the two services
  Requests,           \* form submissions, each made once
  Nobody, Earlier,    \* no operator record, one written before the first state
  MaxEdits            \* bound: accounts.json saved by other programs

ASSUME SetupAssumption ==
  /\ Procs = {Oauth, Connector} /\ Oauth # Connector
  /\ Nobody # Earlier /\ {Nobody, Earlier} \cap Requests = {}
  /\ MaxEdits \in Nat

VARIABLES
  token,     \* the claim token's file is there
  record,    \* who wrote operator.json
  noted,     \* the furthest screen in the progress file
  used,      \* the OAuth state file is there: a client has registered
  gate,      \* the OAuth service: "down", "open" to the wizard, "shut" once claimed
  furthest,  \* the furthest screen in memory
  live,      \* the operator record this process signs people in with
  reqs,      \* the submissions
  version,   \* the stamp of accounts.json
  stored,    \* the submissions whose mailbox is in it
  edits,     \* how often another program saved it
  finished,  \* history: Finish removed the claim token
  lost       \* history: operator.json was removed by hand

volume == <<token, record, noted, used>>
process == <<gate, furthest, live>>
accounts == <<version, stored, edits>>
vars == <<secretsVars, volume, process, reqs, accounts, finished, lost>>

\* SETUP_STEPS: credentials, mailbox, connect.
Screens == 1..3

Kinds == {"credentials", "skip", "save", "finish"}
Screen(k) == CASE k = "credentials" -> 1 [] k \in {"skip", "save"} -> 2 [] OTHER -> 3

RequestType ==
  [kind : Kinds \cup {"none"},
   step : {"idle", "hash", "stamp", "health", "create", "again", "unlink", "shut", "note",
           "done", "gone"},
   sent : {"no", "open", "stored", "refused"},  \* the connector's side of a save
   stamp : Nat,         \* accounts.json when the save began
   default : BOOLEAN,   \* the flag the mailbox is sent with
   asked : BOOLEAN,     \* the connector said whether it had mailboxes
   others : BOOLEAN,    \* there were mailboxes when this one was stored
   moved : BOOLEAN,     \* somebody else changed accounts.json since the stamp was read
   told : {"nothing", "saved", "unknown", "unchanged", "refused", "failed", "on", "claimed"}]

Unsent ==
  [kind |-> "none", step |-> "idle", sent |-> "no", stamp |-> 0, default |-> FALSE,
   asked |-> FALSE, others |-> FALSE, moved |-> FALSE, told |-> "nothing"]

At(r, s) == reqs[r].step = s

Step(r, s) == reqs' = [reqs EXCEPT ![r].step = s]

Tell(r, what) == reqs' = [reqs EXCEPT ![r].step = "done", ![r].told = what]

-----------------------------------------------------------------------------
(* Boot.                                                                   *)

\* Faulty: a record alone says that the instance was claimed.
ClaimedByRecord == record # Nobody

\* isBootstrapped(), where OPERATOR_FILE is set and AUTH_PASSWORD_HASH is not.
ClaimedOnDisk == record # Nobody /\ ~token

\* assertFirstBoot(): without a record, a volume in use refuses to start.
OpensUnclaimed == ~ClaimedOnDisk /\ (record = Nobody => ~used)

\* Bootstrap.open() and SetupState.open(), once the secrets are resolved.  A claim
\* token that is there is kept, and otherwise created.
Boot ==
  /\ On(Oauth, "up") /\ gate = "down"
  /\ \/ ClaimedOnDisk /\ gate' = "shut" /\ live' = record /\ UNCHANGED token
     \/ OpensUnclaimed /\ gate' = "open" /\ live' = Nobody /\ token' = TRUE
  /\ furthest' = noted
  /\ UNCHANGED <<secretsVars, record, noted, used, reqs, accounts, finished, lost>>

Forgotten(r) ==
  IF At(r, "idle") \/ At(r, "done") THEN reqs[r] ELSE [reqs[r] EXCEPT !.step = "gone"]

\* The OAuth service stops, with whatever its requests were doing.
Stop ==
  /\ StopProc(Oauth)
  /\ gate' = "down" /\ live' = Nobody
  /\ reqs' = [r \in Requests |-> Forgotten(r)]
  /\ UNCHANGED <<volume, furthest, accounts, finished, lost>>

-----------------------------------------------------------------------------
(* Progress.                                                               *)

\* advanceTo() a screen: in memory at once, and in the file an await later.
Advance(r, s, what) ==
  /\ furthest' = IF s > furthest THEN s ELSE furthest
  /\ reqs' = [reqs EXCEPT ![r].step = IF s > furthest THEN "note" ELSE "done",
                          ![r].told = what]

\* The progress is written, or the failure is swallowed: two of these writes may
\* end in either order.
Noted(r) ==
  /\ At(r, "note")
  /\ noted' \in {noted, IF reqs[r].kind = "credentials" THEN 2 ELSE 3}
  /\ Step(r, "done")
  /\ UNCHANGED <<secretsVars, token, record, used, process, accounts, finished, lost>>

-----------------------------------------------------------------------------
(* Submissions.                                                            *)

\* The gate lets a submission in while the instance is unclaimed, the wizard if its
\* screen was reached.
Admitted(k) == gate = "open" /\ Screen(k) <= furthest

First(k) ==
  CASE k = "credentials" -> "hash" [] k = "save" -> "stamp" [] k = "finish" -> "unlink"

\* A form with acceptable fields: its handler starts.
Accept(r, k) ==
  /\ reqs' = [reqs EXCEPT ![r].kind = k, ![r].step = First(k)]
  /\ UNCHANGED furthest

\* Bootstrap.complete() refuses without the record.
MayFinish(k) == k # "skip" /\ (k = "finish" => record # Nobody)

Submit(r, k) ==
  /\ At(r, "idle") /\ Admitted(k) /\ MayFinish(k)
  /\ Accept(r, k)
  /\ UNCHANGED <<secretsVars, volume, gate, live, accounts, finished, lost>>

\* A skip has nothing to await but the progress.
Skip(r) ==
  /\ At(r, "idle") /\ Admitted("skip")
  /\ furthest' = 3
  /\ reqs' = [reqs EXCEPT ![r].kind = "skip", ![r].told = "on",
                          ![r].step = IF furthest = 3 THEN "done" ELSE "note"]
  /\ UNCHANGED <<secretsVars, volume, gate, live, accounts, finished, lost>>

\* OperatorRecord.create(): the password hashed, the record replaced, and on to the
\* second screen.
Created(r) ==
  /\ At(r, "hash")
  /\ record' = r
  /\ Advance(r, 2, "on")
  /\ UNCHANGED <<secretsVars, token, noted, used, gate, live, accounts, finished, lost>>

NotCreated(r) ==
  /\ At(r, "hash")
  /\ Tell(r, "failed")
  /\ UNCHANGED <<secretsVars, volume, process, accounts, finished, lost>>

-----------------------------------------------------------------------------
(* Saving a mailbox: the stamp, whether it is the first, the write.        *)

\* The connector accepts an assertion signed with the key it holds itself.
Trusted == On(Connector, "up") /\ procs[Connector].held = procs[Oauth].held

StampRead(r) ==
  /\ At(r, "stamp") /\ Trusted
  /\ reqs' = [reqs EXCEPT ![r].step = "health", ![r].stamp = version, ![r].moved = FALSE]
  /\ UNCHANGED <<secretsVars, volume, process, accounts, finished, lost>>

\* The deadline, an answer that cannot be read, or a refusal.
StampUnread(r) ==
  /\ At(r, "stamp")
  /\ Tell(r, "failed")
  /\ UNCHANGED <<secretsVars, volume, process, accounts, finished, lost>>

\* savedDefault(): whether the connector has a mailbox, or else it is the default.
HealthRead(r) ==
  /\ At(r, "health")
  /\ \E answered \in BOOLEAN :
       /\ answered => On(Connector, "up")
       /\ reqs' = [reqs EXCEPT ![r].step = "create", ![r].sent = "open",
                               ![r].asked = answered,
                               ![r].default = ~(answered /\ stored # {})]
  /\ UNCHANGED <<secretsVars, volume, process, accounts, finished, lost>>

\* Everybody whose stamp was read sees the file move, but who moves it.
Moves(me) ==
  [r \in Requests |-> IF r # me /\ reqs[r].step \in {"health", "create", "again"}
                      THEN [reqs[r] EXCEPT !.moved = TRUE] ELSE reqs[r]]

\* Faulty: the stamp is not compared.
StoresUnstamped(r) ==
  /\ reqs[r].sent = "open" /\ On(Connector, "up")
  /\ Trusted \/ reqs[r].step # "create"
  /\ version' = version + 1
  /\ stored' = stored \cup {r}
  /\ reqs' = [Moves(r) EXCEPT ![r].sent = "stored", ![r].others = stored # {}]
  /\ UNCHANGED <<secretsVars, volume, process, edits, finished, lost>>

\* The connector's route stores a mailbox sent with the stamp of the file, whether
\* or not the wizard still waits.
Stores(r) ==
  /\ reqs[r].sent = "open" /\ On(Connector, "up")
  /\ Trusted \/ reqs[r].step # "create"
  /\ reqs[r].stamp = version
  /\ version' = version + 1
  /\ stored' = stored \cup {r}
  /\ reqs' = [Moves(r) EXCEPT ![r].sent = "stored", ![r].others = stored # {}]
  /\ UNCHANGED <<secretsVars, volume, process, edits, finished, lost>>

\* It refuses: the stamp is old, the id is taken, a field or a server objects, or the
\* assertion is not its own.
Refuses(r) ==
  /\ reqs[r].sent = "open" /\ On(Connector, "up")
  /\ reqs' = [reqs EXCEPT ![r].sent = "refused"]
  /\ UNCHANGED <<secretsVars, volume, process, accounts, finished, lost>>

Answered(r) ==
  /\ At(r, "create")
  /\ \/ reqs[r].sent = "stored" /\ Advance(r, 3, "saved")
     \/ reqs[r].sent = "refused" /\ Tell(r, "refused") /\ UNCHANGED furthest
  /\ UNCHANGED <<secretsVars, volume, gate, live, accounts, finished, lost>>

\* The deadline passes or the connection breaks, whatever became of the request.
Unanswered(r) ==
  /\ At(r, "create")
  /\ Step(r, "again")
  /\ UNCHANGED <<secretsVars, volume, process, accounts, finished, lost>>

\* Faulty: silence is taken for a save that was not made.
AsksNobody(r) ==
  /\ At(r, "again")
  /\ Tell(r, "unchanged") /\ UNCHANGED furthest
  /\ UNCHANGED <<secretsVars, volume, gate, live, accounts, finished, lost>>

\* The stamp, read a second time: a file that moved is taken for the write.
Asks(r) ==
  /\ At(r, "again")
  /\ \/ /\ Trusted
        /\ IF version # reqs[r].stamp THEN Advance(r, 3, "saved")
           ELSE Tell(r, "unchanged") /\ UNCHANGED furthest
     \/ Tell(r, "unknown") /\ UNCHANGED furthest
  /\ UNCHANGED <<secretsVars, volume, gate, live, accounts, finished, lost>>

-----------------------------------------------------------------------------
(* Finish, and what the claimed process does first.                        *)

\* Bootstrap.complete(): the claim token is removed, or another submission did it.
Unlinks(r) ==
  /\ At(r, "unlink")
  /\ token' = FALSE /\ finished' = TRUE
  /\ Step(r, "shut")
  /\ UNCHANGED <<secretsVars, record, noted, used, process, accounts, lost>>

\* The gate shuts behind the wizard.
Shuts(r) ==
  /\ At(r, "shut")
  /\ gate' = "shut"
  /\ Tell(r, "claimed")
  /\ UNCHANGED <<secretsVars, volume, furthest, live, accounts, finished, lost>>

\* The token cannot be removed: the link stays open.
NotUnlinked(r) ==
  /\ At(r, "unlink") /\ token
  /\ Tell(r, "failed")
  /\ UNCHANGED <<secretsVars, volume, process, accounts, finished, lost>>

\* liveOperator(): a process that was claimed while it ran reads the record once.
Visit ==
  /\ gate = "shut" /\ live = Nobody /\ record # Nobody
  /\ live' = record
  /\ UNCHANGED <<secretsVars, volume, gate, furthest, reqs, accounts, finished, lost>>

\* A client registers, which only a claimed instance lets it do.
Register ==
  /\ gate = "shut"
  /\ used' = TRUE
  /\ UNCHANGED <<secretsVars, token, record, noted, process, reqs, accounts, finished, lost>>

-----------------------------------------------------------------------------
(* Other hands.                                                            *)

\* Another program saves accounts.json: it matters while a save is under way.
Edit ==
  /\ edits < MaxEdits
  /\ \E r \in Requests : reqs[r].step \in {"health", "create", "again"}
  /\ edits' = edits + 1 /\ version' = version + 1
  /\ reqs' = Moves(Nobody)
  /\ UNCHANGED <<secretsVars, volume, process, stored, finished, lost>>

\* operator.json is lost from the volume while the service is down.
Lose ==
  /\ gate = "down" /\ record # Nobody
  /\ record' = Nobody /\ lost' = TRUE
  /\ UNCHANGED <<secretsVars, token, noted, used, process, reqs, accounts, finished>>

-----------------------------------------------------------------------------
(* The whole system.                                                       *)

Handle(r) ==
  \/ Created(r) \/ NotCreated(r) \/ Noted(r)
  \/ StampRead(r) \/ StampUnread(r) \/ HealthRead(r)
  \/ Answered(r) \/ Unanswered(r) \/ Asks(r)
  \/ Unlinks(r) \/ Shuts(r) \/ NotUnlinked(r)

\* The secrets of either service: the OAuth service resolves its own on the way up.
Secret ==
  /\ (\E p \in Procs : Resolve(p)) \/ StopProc(Connector)
  /\ UNCHANGED <<volume, process, reqs, accounts, finished, lost>>

\* A fresh volume, or one on which an earlier boot stopped after the first screen.
Init ==
  /\ SecretsInit
  /\ \/ token = FALSE /\ record = Nobody /\ noted = 1
     \/ token = TRUE /\ record = Earlier /\ noted = 2
  /\ used = FALSE
  /\ gate = "down" /\ furthest = 1 /\ live = Nobody
  /\ reqs = [r \in Requests |-> Unsent]
  /\ version = 0 /\ stored = {} /\ edits = 0
  /\ finished = FALSE /\ lost = FALSE

Next ==
  \/ Secret \/ Boot \/ Stop \/ Visit \/ Register \/ Edit \/ Lose
  \/ \E r \in Requests :
       \/ Handle(r) \/ Stores(r) \/ Refuses(r) \/ Skip(r)
       \/ \E k \in Kinds : Submit(r, k)

Spec == Init /\ [][Next]_vars

-----------------------------------------------------------------------------
(* What holds.                                                             *)

Writers == Requests \cup {Nobody, Earlier}

TypeOK ==
  /\ SecretsTypeOK
  /\ token \in BOOLEAN /\ record \in Writers /\ noted \in Screens /\ used \in BOOLEAN
  /\ gate \in {"down", "open", "shut"} /\ furthest \in Screens /\ live \in Writers
  /\ reqs \in [Requests -> RequestType]
  /\ version \in Nat /\ stored \in SUBSET Requests /\ edits \in 0..MaxEdits
  /\ finished \in BOOLEAN /\ lost \in BOOLEAN

\* A service that serves as claimed has an operator to sign in and its wizard was
\* finished, restarts half way included; and once a client has registered, no
\* restart opens the wizard again, not even without the operator's record.
ClaimedOnce ==
  /\ gate = "shut" => finished /\ record # Nobody
  /\ used => gate # "open"

Established(r) ==
  reqs[r].told = "nothing" =>
    /\ reqs'[r].told = "saved" => reqs[r].sent = "stored" \/ reqs[r].moved
    /\ reqs'[r].told = "unchanged" => reqs[r].sent # "stored"

\* The wizard says of a save only what it has established: "stored" of a mailbox
\* that is there, unless somebody else moved accounts.json; "unchanged" of one that
\* is not there at that moment.
AnswersEstablished == [][\A r \in Requests : Established(r)]_vars

\* A mailbox is stored as the default beside others only if the connector could not
\* say that there were others.
NoDefaultTaken ==
  \A r \in Requests :
    reqs[r].sent = "stored" /\ reqs[r].default /\ reqs[r].others => ~reqs[r].asked

=============================================================================
