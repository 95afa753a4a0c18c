----------------------------- MODULE SetupProofs -----------------------------
(***************************************************************************)
(* The setup flow for every number of boots and submissions and every      *)
(* order of their steps, and the screens that add a mailbox for every      *)
(* address, password and time limit.                                       *)
(***************************************************************************)
EXTENDS Setup, AddMailbox, TLAPS

\* A boot's own secret is named by its number, which is counted from one.
BootsCounted ==
  \A p \in Procs : procs[p].boots <= MaxBoots[p] /\ (~On(p, "off") => procs[p].boots > 0)

\* Until a secret was removed as blank, the file is what everybody who is up holds.
FileIsHeld ==
  emptied \/ \A p \in Procs : On(p, "up") => procs[p].held = secret /\ secret \notin Nothing

SecretsInv == SecretsTypeOK /\ BootsCounted /\ FileIsHeld

\* A handler between two awaits.
Active(r) == reqs[r].step \notin {"idle", "done", "gone"}

\* The claim token goes only through Finish, which only a process with a record
\* and an open gate gets to; and what has been used has no token any more.
ClaimInv ==
  /\ ~token /\ ~finished => record = Nobody /\ gate = "down"
  /\ gate = "shut" => finished /\ record # Nobody /\ ~token
  /\ used => ~token /\ gate # "open"
  /\ \A r \in Requests :
       /\ Active(r) => gate # "down"
       /\ At(r, "unlink") \/ At(r, "shut") => record # Nobody
       /\ At(r, "shut") => finished /\ ~token

\* What a save knows of accounts.json: the stamp it read is the file's still, or
\* the file moved by its own hand or by another's; and as long as it is the file's,
\* what the connector said about other mailboxes is true.
SaveInv(r) ==
  LET q == reqs[r]
  IN  /\ q.stamp <= version
      /\ q.step \in {"idle", "stamp", "health"} => q.sent = "no"
      /\ q.step \in {"health", "create", "again"} =>
           q.stamp = version \/ q.moved \/ q.sent = "stored"
      /\ q.sent = "stored" => q.stamp < version
      /\ q.sent = "open" /\ q.asked /\ q.default /\ q.stamp = version => stored = {}
      /\ q.sent = "stored" /\ q.default /\ q.others => ~q.asked

SavesInv == \A r \in Requests : SaveInv(r)

-----------------------------------------------------------------------------
(* The secrets.                                                            *)

LEMMA NewSecretIsValue ==
  ASSUME SecretsInv, NEW p \in Procs, ~On(p, "off")
  PROVE  NewSecret(p) \in Values /\ NewSecret(p) \notin Nothing
<1>1. procs[p] \in ProcType /\ procs[p].boots \in 1..MaxBoots[p]
  BY SecretsAssumption DEF SecretsInv, SecretsTypeOK, ProcType, BootsCounted
<1>2. <<p, procs[p].boots>> \in {p} \X (1..MaxBoots[p])
  BY <1>1
<1>3. <<p, procs[p].boots>> \in Values
  BY <1>2 DEF Values
<1>4. <<p, procs[p].boots>> \notin Nothing
  BY <1>1, SecretsAssumption DEF ProcType, Nothing
<1> QED
  BY <1>3, <1>4, SecretsAssumption DEF NewSecret, Values, Nothing

LEMMA SecretsStep ==
  ASSUME SecretsInv, NEW p \in Procs, Resolve(p) \/ StopProc(p)
  PROVE  SecretsInv'
<1> USE SecretsAssumption
<1>0. procs \in [Procs -> ProcType] /\ procs[p] \in ProcType
  BY DEF SecretsInv, SecretsTypeOK
<1>1. CASE BootSecret(p)
  BY <1>0, <1>1 DEF SecretsInv, SecretsTypeOK, BootsCounted, FileIsHeld, BootSecret, On, ProcType
<1>2. CASE Read(p)
  BY <1>0, <1>2 DEF SecretsInv, SecretsTypeOK, BootsCounted, FileIsHeld, Read, On, Go, Hold, ProcType
<1>3. CASE Look(p)
  BY <1>0, <1>3 DEF SecretsInv, SecretsTypeOK, BootsCounted, FileIsHeld, Look, On, Go, ProcType
<1>4. CASE Clear(p)
  BY <1>0, <1>4 DEF SecretsInv, SecretsTypeOK, BootsCounted, FileIsHeld, Clear, On, Go, ProcType, Nothing
<1>5. CASE Link(p)
  <2>1. NewSecret(p) \in Values /\ NewSecret(p) \notin Nothing
    BY <1>5, NewSecretIsValue DEF Link, On
  <2> HIDE DEF NewSecret
  <2> QED
    BY <1>0, <1>5, <2>1
    DEF SecretsInv, SecretsTypeOK, BootsCounted, FileIsHeld, Link, On, Go, Hold, ProcType, Nothing
<1>6. CASE Adopt(p)
  BY <1>0, <1>6 DEF SecretsInv, SecretsTypeOK, BootsCounted, FileIsHeld, Adopt, On, Go, Hold, ProcType
<1>7. CASE Fail(p)
  BY <1>0, <1>7 DEF SecretsInv, SecretsTypeOK, BootsCounted, FileIsHeld, Fail, On, Go, ProcType
<1>8. CASE StopProc(p)
  BY <1>0, <1>8 DEF SecretsInv, SecretsTypeOK, BootsCounted, FileIsHeld, StopProc, On, ProcType
<1> QED
  BY <1>1, <1>2, <1>3, <1>4, <1>5, <1>6, <1>7, <1>8 DEF Resolve

LEMMA SecretsStart == SecretsInit => SecretsInv
<1> SUFFICES ASSUME SecretsInit PROVE SecretsInv
  OBVIOUS
<1>1. \A p \in Procs : /\ procs[p] \in ProcType
                       /\ procs[p].step = "off" /\ procs[p].boots = 0
  BY DEF SecretsInit, ProcType
<1>2. procs \in [Procs -> ProcType]
  BY <1>1 DEF SecretsInit
<1>3. SecretsTypeOK
  BY <1>2 DEF SecretsInit, SecretsTypeOK, Values, Nothing
<1>4. BootsCounted /\ FileIsHeld
  BY <1>1, SecretsAssumption DEF BootsCounted, FileIsHeld, On
<1> QED
  BY <1>3, <1>4 DEF SecretsInv

LEMMA SecretsStutter ==
  ASSUME SecretsInv, UNCHANGED secretsVars
  PROVE  SecretsInv'
BY DEF SecretsInv, SecretsTypeOK, BootsCounted, FileIsHeld, secretsVars, On

-----------------------------------------------------------------------------
(* The claim and the saves, action by action.                              *)

Inv == TypeOK /\ SecretsInv /\ ClaimInv /\ SavesInv

LEMMA InitInv == Init => Inv
<1> SUFFICES ASSUME Init PROVE Inv
  OBVIOUS
<1>1. SecretsInv
  BY SecretsStart DEF Init
<1>2. Unsent \in RequestType
  BY DEF Unsent, RequestType
<1>3. TypeOK
  <2>1. reqs \in [Requests -> RequestType]
    BY <1>2 DEF Init
  <2>2. noted \in Screens /\ furthest \in Screens
    BY DEF Init, Screens
  <2>3. version \in Nat /\ edits \in 0..MaxEdits
    BY SetupAssumption DEF Init
  <2> QED
    BY <1>1, <2>1, <2>2, <2>3 DEF Init, TypeOK, SecretsInv, Writers
<1>4. ClaimInv
  BY DEF Init, ClaimInv, Unsent, Active, At
<1>5. SavesInv
  BY DEF Init, SavesInv, SaveInv, Unsent
<1> QED
  BY <1>1, <1>3, <1>4, <1>5 DEF Inv

\* An action that leaves the secrets alone, and whose effect on the rest is given,
\* needs the three parts that speak of the rest.
LEMMA BootInv ==
  ASSUME Inv, Boot
  PROVE  Inv'
<1> USE DEF Inv
<1>1. SecretsInv'
  BY SecretsStutter DEF Boot
<1>2. TypeOK'
  BY <1>1 DEF Boot, TypeOK, SecretsInv, Writers, accounts
<1>3. ClaimInv'
  BY DEF Boot, ClaimInv, OpensUnclaimed, ClaimedOnDisk, Active, At, TypeOK
<1>4. SavesInv'
  BY DEF Boot, SavesInv, SaveInv, accounts
<1> QED
  BY <1>1, <1>2, <1>3, <1>4

LEMMA StopInv ==
  ASSUME Inv, Stop
  PROVE  Inv'
<1> USE DEF Inv
<1>1. SecretsInv'
  BY SecretsStep, SetupAssumption DEF Stop
<1>2. \A r \in Requests :
        /\ reqs'[r] \in RequestType
        /\ \/ reqs'[r] = reqs[r] /\ ~Active(r)
           \/ reqs'[r] = [reqs[r] EXCEPT !.step = "gone"]
  BY DEF Stop, Forgotten, TypeOK, RequestType, Active, At
<1>3. TypeOK'
  BY <1>1, <1>2 DEF Stop, TypeOK, SecretsInv, Writers, volume, accounts
<1>4. ClaimInv'
  BY <1>2 DEF Stop, ClaimInv, Active, At, TypeOK, volume, RequestType
<1>5. SavesInv'
  BY <1>2 DEF Stop, SavesInv, SaveInv, accounts, TypeOK, RequestType
<1> QED
  BY <1>1, <1>3, <1>4, <1>5

LEMMA SecretInv ==
  ASSUME Inv, Secret
  PROVE  Inv'
<1> USE DEF Inv
<1>1. SecretsInv'
  BY SecretsStep, SetupAssumption DEF Secret
<1>2. TypeOK' /\ ClaimInv' /\ SavesInv'
  BY <1>1
  DEF Secret, TypeOK, SecretsInv, ClaimInv, SavesInv, SaveInv, Active, At, Writers,
      volume, process, accounts
<1> QED
  BY <1>1, <1>2

LEMMA ClaimedInv ==
  ASSUME Inv, Visit \/ Register
  PROVE  Inv'
<1> USE DEF Inv
<1>1. SecretsInv'
  BY SecretsStutter DEF Visit, Register
<1>2. TypeOK'
  BY <1>1 DEF Visit, Register, TypeOK, SecretsInv, volume, process, accounts
<1>3. ClaimInv'
  BY DEF Visit, Register, ClaimInv, Active, At, volume, process
<1>4. SavesInv'
  BY DEF Visit, Register, SavesInv, SaveInv, accounts
<1> QED
  BY <1>1, <1>2, <1>3, <1>4

LEMMA LoseInv ==
  ASSUME Inv, Lose
  PROVE  Inv'
<1> USE DEF Inv
<1>1. SecretsInv'
  BY SecretsStutter DEF Lose
<1>2. TypeOK' /\ ClaimInv' /\ SavesInv'
  BY <1>1
  DEF Lose, TypeOK, SecretsInv, ClaimInv, SavesInv, SaveInv, Active, At, Writers,
      process, accounts
<1> QED
  BY <1>1, <1>2

\* Submissions that have the stamp of the file see it move.
LEMMA MovesFields ==
  ASSUME TypeOK, NEW me
  PROVE  /\ Moves(me) \in [Requests -> RequestType]
         /\ \A r \in Requests :
              /\ Moves(me)[r].moved =
                   (reqs[r].moved \/ (r # me /\ reqs[r].step \in {"health", "create", "again"}))
              /\ Moves(me)[r] = [reqs[r] EXCEPT !.moved = Moves(me)[r].moved]
<1>1. \A r \in Requests :
        /\ reqs[r] \in RequestType
        /\ Moves(me)[r] =
             IF r # me /\ reqs[r].step \in {"health", "create", "again"}
             THEN [reqs[r] EXCEPT !.moved = TRUE] ELSE reqs[r]
  BY DEF Moves, TypeOK
<1>2. \A r \in Requests : Moves(me)[r] \in RequestType
  <2>1. ASSUME NEW q \in RequestType
        PROVE  [q EXCEPT !.moved = TRUE] \in RequestType
    BY DEF RequestType
  <2> QED
    BY <1>1, <2>1
<1>3. Moves(me) \in [Requests -> RequestType]
  BY <1>2 DEF Moves
<1> QED
  BY <1>1, <1>3 DEF RequestType

LEMMA EditInv ==
  ASSUME Inv, Edit
  PROVE  Inv'
<1> USE DEF Inv
<1>1. SecretsInv'
  BY SecretsStutter DEF Edit
<1>2. /\ reqs' \in [Requests -> RequestType]
      /\ \A r \in Requests :
           /\ reqs'[r].moved =
                (reqs[r].moved \/ reqs[r].step \in {"health", "create", "again"})
           /\ reqs'[r] = [reqs[r] EXCEPT !.moved = reqs'[r].moved]
  BY MovesFields, SetupAssumption DEF Edit
<1>3. version' = version + 1 /\ version \in Nat
  BY DEF Edit, TypeOK
<1>4. TypeOK'
  BY <1>1, <1>2, <1>3, SetupAssumption
  DEF Edit, TypeOK, SecretsInv, Writers, volume, process
<1>5. ClaimInv'
  BY <1>2 DEF Edit, ClaimInv, Active, At, volume, process, TypeOK, RequestType
<1>6. SavesInv'
  BY <1>2, <1>3 DEF Edit, SavesInv, SaveInv, TypeOK, RequestType
<1> QED
  BY <1>1, <1>4, <1>5, <1>6

-----------------------------------------------------------------------------
(* The steps of a submission: each changes its own record alone.           *)

\* Submission r becomes q, and every other stays what it is.
Becomes(r, q) ==
  /\ reqs' \in [Requests -> RequestType]
  /\ reqs'[r] = q
  /\ \A s \in Requests \ {r} : reqs'[s] = reqs[s]

LEMMA Becoming ==
  ASSUME TypeOK, NEW r \in Requests, NEW q \in RequestType, reqs' = [reqs EXCEPT ![r] = q]
  PROVE  Becomes(r, q)
BY DEF Becomes, TypeOK

LEMMA NotCreatedInv ==
  ASSUME Inv, NEW r \in Requests, NotCreated(r)
  PROVE  Inv'
<1> DEFINE q == [reqs[r] EXCEPT !.step = "done", !.told = "failed"]
<1>0. /\ TypeOK /\ ClaimInv /\ SavesInv /\ SecretsInv
      /\ reqs[r] \in RequestType /\ version \in Nat
  BY DEF Inv, TypeOK
<1>1. SecretsInv'
  BY <1>0, SecretsStutter DEF NotCreated
<1>2. Becomes(r, q)
  <2>1. q \in RequestType
    <3>1. \A x \in RequestType : [x EXCEPT !.step = "done", !.told = "failed"] \in RequestType
      BY ZenonT(60), <1>0 DEF RequestType
    <3> QED
      BY <1>0, <3>1
  <2>2. reqs' = [reqs EXCEPT ![r] = q]
    BY <1>0 DEF NotCreated, Tell, TypeOK
  <2> QED
    BY <1>0, <2>1, <2>2, Becoming
<1>3. /\ q.step = "done"
      /\ q.sent = reqs[r].sent /\ q.stamp = reqs[r].stamp /\ q.default = reqs[r].default
      /\ q.asked = reqs[r].asked /\ q.others = reqs[r].others /\ q.moved = reqs[r].moved
  BY <1>0 DEF RequestType
<1> HIDE DEF q
<1>4. TypeOK'
  BY <1>0, <1>1, <1>2 DEF NotCreated, Becomes, TypeOK, SecretsInv, volume, process, accounts
<1>5. ClaimInv'
  BY <1>0, <1>2, <1>3 DEF NotCreated, Becomes, ClaimInv, Active, At, volume, process
<1>6. SavesInv'
  BY <1>0, <1>2, <1>3 DEF NotCreated, Becomes, SavesInv, SaveInv, At, accounts
<1> QED
  BY <1>1, <1>4, <1>5, <1>6 DEF Inv

LEMMA NotedInv ==
  ASSUME Inv, NEW r \in Requests, Noted(r)
  PROVE  Inv'
<1> DEFINE q == [reqs[r] EXCEPT !.step = "done"]
<1>0. /\ TypeOK /\ ClaimInv /\ SavesInv /\ SecretsInv
      /\ reqs[r] \in RequestType /\ version \in Nat
  BY DEF Inv, TypeOK
<1>1. SecretsInv'
  BY <1>0, SecretsStutter DEF Noted
<1>2. Becomes(r, q)
  <2>1. q \in RequestType
    <3>1. \A x \in RequestType : [x EXCEPT !.step = "done"] \in RequestType
      BY <1>0 DEF RequestType
    <3> QED
      BY <1>0, <3>1
  <2>2. reqs' = [reqs EXCEPT ![r] = q]
    BY <1>0 DEF Noted, Step, TypeOK
  <2> QED
    BY <1>0, <2>1, <2>2, Becoming
<1>3. /\ q.step = "done"
      /\ q.sent = reqs[r].sent /\ q.stamp = reqs[r].stamp /\ q.default = reqs[r].default
      /\ q.asked = reqs[r].asked /\ q.others = reqs[r].others /\ q.moved = reqs[r].moved
  BY <1>0 DEF RequestType
<1> HIDE DEF q
<1>4. TypeOK'
  BY <1>0, <1>1, <1>2 DEF Noted, Becomes, TypeOK, SecretsInv, volume, process, accounts, Screens
<1>5. ClaimInv'
  BY <1>0, <1>2, <1>3 DEF Noted, Becomes, ClaimInv, Active, At, volume, process
<1>6. SavesInv'
  BY <1>0, <1>2, <1>3 DEF Noted, Becomes, SavesInv, SaveInv, At, accounts
<1> QED
  BY <1>1, <1>4, <1>5, <1>6 DEF Inv

LEMMA StampReadInv ==
  ASSUME Inv, NEW r \in Requests, StampRead(r)
  PROVE  Inv'
<1> DEFINE q == [reqs[r] EXCEPT !.step = "health", !.stamp = version, !.moved = FALSE]
<1>0. /\ TypeOK /\ ClaimInv /\ SavesInv /\ SecretsInv
      /\ reqs[r] \in RequestType /\ version \in Nat
  BY DEF Inv, TypeOK
<1>1. SecretsInv'
  BY <1>0, SecretsStutter DEF StampRead
<1>2. Becomes(r, q)
  <2>1. q \in RequestType
    <3>1. \A x \in RequestType : [x EXCEPT !.step = "health", !.stamp = version, !.moved = FALSE] \in RequestType
      BY ZenonT(60), <1>0 DEF RequestType
    <3> QED
      BY <1>0, <3>1
  <2>2. reqs' = [reqs EXCEPT ![r] = q]
    BY <1>0 DEF StampRead, TypeOK
  <2> QED
    BY <1>0, <2>1, <2>2, Becoming
<1>3. /\ q.step = "health" /\ q.stamp = version /\ q.moved = FALSE
      /\ q.sent = reqs[r].sent /\ q.default = reqs[r].default /\ q.asked = reqs[r].asked
      /\ q.others = reqs[r].others
  BY <1>0 DEF RequestType
<1> HIDE DEF q
<1>4. TypeOK'
  BY <1>0, <1>1, <1>2 DEF StampRead, Becomes, TypeOK, SecretsInv, volume, process, accounts
<1>5. ClaimInv'
  BY <1>0, <1>2, <1>3 DEF StampRead, Becomes, ClaimInv, Active, At, volume, process
<1>6. SavesInv'
  BY <1>0, <1>2, <1>3 DEF StampRead, Becomes, SavesInv, SaveInv, At, accounts
<1> QED
  BY <1>1, <1>4, <1>5, <1>6 DEF Inv

LEMMA StampUnreadInv ==
  ASSUME Inv, NEW r \in Requests, StampUnread(r)
  PROVE  Inv'
<1> DEFINE q == [reqs[r] EXCEPT !.step = "done", !.told = "failed"]
<1>0. /\ TypeOK /\ ClaimInv /\ SavesInv /\ SecretsInv
      /\ reqs[r] \in RequestType /\ version \in Nat
  BY DEF Inv, TypeOK
<1>1. SecretsInv'
  BY <1>0, SecretsStutter DEF StampUnread
<1>2. Becomes(r, q)
  <2>1. q \in RequestType
    <3>1. \A x \in RequestType : [x EXCEPT !.step = "done", !.told = "failed"] \in RequestType
      BY ZenonT(60), <1>0 DEF RequestType
    <3> QED
      BY <1>0, <3>1
  <2>2. reqs' = [reqs EXCEPT ![r] = q]
    BY <1>0 DEF StampUnread, Tell, TypeOK
  <2> QED
    BY <1>0, <2>1, <2>2, Becoming
<1>3. /\ q.step = "done"
      /\ q.sent = reqs[r].sent /\ q.stamp = reqs[r].stamp /\ q.default = reqs[r].default
      /\ q.asked = reqs[r].asked /\ q.others = reqs[r].others /\ q.moved = reqs[r].moved
  BY <1>0 DEF RequestType
<1> HIDE DEF q
<1>4. TypeOK'
  BY <1>0, <1>1, <1>2 DEF StampUnread, Becomes, TypeOK, SecretsInv, volume, process, accounts
<1>5. ClaimInv'
  BY <1>0, <1>2, <1>3 DEF StampUnread, Becomes, ClaimInv, Active, At, volume, process
<1>6. SavesInv'
  BY <1>0, <1>2, <1>3 DEF StampUnread, Becomes, SavesInv, SaveInv, At, accounts
<1> QED
  BY <1>1, <1>4, <1>5, <1>6 DEF Inv

LEMMA UnansweredInv ==
  ASSUME Inv, NEW r \in Requests, Unanswered(r)
  PROVE  Inv'
<1> DEFINE q == [reqs[r] EXCEPT !.step = "again"]
<1>0. /\ TypeOK /\ ClaimInv /\ SavesInv /\ SecretsInv
      /\ reqs[r] \in RequestType /\ version \in Nat
  BY DEF Inv, TypeOK
<1>1. SecretsInv'
  BY <1>0, SecretsStutter DEF Unanswered
<1>2. Becomes(r, q)
  <2>1. q \in RequestType
    <3>1. \A x \in RequestType : [x EXCEPT !.step = "again"] \in RequestType
      BY <1>0 DEF RequestType
    <3> QED
      BY <1>0, <3>1
  <2>2. reqs' = [reqs EXCEPT ![r] = q]
    BY <1>0 DEF Unanswered, Step, TypeOK
  <2> QED
    BY <1>0, <2>1, <2>2, Becoming
<1>3. /\ q.step = "again"
      /\ q.sent = reqs[r].sent /\ q.stamp = reqs[r].stamp /\ q.default = reqs[r].default
      /\ q.asked = reqs[r].asked /\ q.others = reqs[r].others /\ q.moved = reqs[r].moved
  BY <1>0 DEF RequestType
<1> HIDE DEF q
<1>4. TypeOK'
  BY <1>0, <1>1, <1>2 DEF Unanswered, Becomes, TypeOK, SecretsInv, volume, process, accounts
<1>5. ClaimInv'
  BY <1>0, <1>2, <1>3 DEF Unanswered, Becomes, ClaimInv, Active, At, volume, process
<1>6. SavesInv'
  BY <1>0, <1>2, <1>3 DEF Unanswered, Becomes, SavesInv, SaveInv, At, accounts
<1> QED
  BY <1>1, <1>4, <1>5, <1>6 DEF Inv

LEMMA RefusesInv ==
  ASSUME Inv, NEW r \in Requests, Refuses(r)
  PROVE  Inv'
<1> DEFINE q == [reqs[r] EXCEPT !.sent = "refused"]
<1>0. /\ TypeOK /\ ClaimInv /\ SavesInv /\ SecretsInv
      /\ reqs[r] \in RequestType /\ version \in Nat
  BY DEF Inv, TypeOK
<1>1. SecretsInv'
  BY <1>0, SecretsStutter DEF Refuses
<1>2. Becomes(r, q)
  <2>1. q \in RequestType
    <3>1. \A x \in RequestType : [x EXCEPT !.sent = "refused"] \in RequestType
      BY <1>0 DEF RequestType
    <3> QED
      BY <1>0, <3>1
  <2>2. reqs' = [reqs EXCEPT ![r] = q]
    BY <1>0 DEF Refuses, TypeOK
  <2> QED
    BY <1>0, <2>1, <2>2, Becoming
<1>3. /\ q.sent = "refused"
      /\ q.step = reqs[r].step /\ q.stamp = reqs[r].stamp /\ q.default = reqs[r].default
      /\ q.asked = reqs[r].asked /\ q.others = reqs[r].others /\ q.moved = reqs[r].moved
  BY <1>0 DEF RequestType
<1> HIDE DEF q
<1>4. TypeOK'
  BY <1>0, <1>1, <1>2 DEF Refuses, Becomes, TypeOK, SecretsInv, volume, process, accounts
<1>5. ClaimInv'
  BY <1>0, <1>2, <1>3 DEF Refuses, Becomes, ClaimInv, Active, At, volume, process
<1>6. SavesInv'
  BY <1>0, <1>2, <1>3 DEF Refuses, Becomes, SavesInv, SaveInv, At, accounts
<1> QED
  BY <1>1, <1>4, <1>5, <1>6 DEF Inv

LEMMA UnlinksInv ==
  ASSUME Inv, NEW r \in Requests, Unlinks(r)
  PROVE  Inv'
<1> DEFINE q == [reqs[r] EXCEPT !.step = "shut"]
<1>0. /\ TypeOK /\ ClaimInv /\ SavesInv /\ SecretsInv
      /\ reqs[r] \in RequestType /\ version \in Nat
  BY DEF Inv, TypeOK
<1>1. SecretsInv'
  BY <1>0, SecretsStutter DEF Unlinks
<1>2. Becomes(r, q)
  <2>1. q \in RequestType
    <3>1. \A x \in RequestType : [x EXCEPT !.step = "shut"] \in RequestType
      BY <1>0 DEF RequestType
    <3> QED
      BY <1>0, <3>1
  <2>2. reqs' = [reqs EXCEPT ![r] = q]
    BY <1>0 DEF Unlinks, Step, TypeOK
  <2> QED
    BY <1>0, <2>1, <2>2, Becoming
<1>3. /\ q.step = "shut"
      /\ q.sent = reqs[r].sent /\ q.stamp = reqs[r].stamp /\ q.default = reqs[r].default
      /\ q.asked = reqs[r].asked /\ q.others = reqs[r].others /\ q.moved = reqs[r].moved
  BY <1>0 DEF RequestType
<1> HIDE DEF q
<1>4. TypeOK'
  BY <1>0, <1>1, <1>2 DEF Unlinks, Becomes, TypeOK, SecretsInv, volume, process, accounts
<1>5. ClaimInv'
  BY <1>0, <1>2, <1>3 DEF Unlinks, Becomes, ClaimInv, Active, At, volume, process
<1>6. SavesInv'
  BY <1>0, <1>2, <1>3 DEF Unlinks, Becomes, SavesInv, SaveInv, At, accounts
<1> QED
  BY <1>1, <1>4, <1>5, <1>6 DEF Inv

LEMMA ShutsInv ==
  ASSUME Inv, NEW r \in Requests, Shuts(r)
  PROVE  Inv'
<1> DEFINE q == [reqs[r] EXCEPT !.step = "done", !.told = "claimed"]
<1>0. /\ TypeOK /\ ClaimInv /\ SavesInv /\ SecretsInv
      /\ reqs[r] \in RequestType /\ version \in Nat
  BY DEF Inv, TypeOK
<1>1. SecretsInv'
  BY <1>0, SecretsStutter DEF Shuts
<1>2. Becomes(r, q)
  <2>1. q \in RequestType
    <3>1. \A x \in RequestType : [x EXCEPT !.step = "done", !.told = "claimed"] \in RequestType
      BY ZenonT(60), <1>0 DEF RequestType
    <3> QED
      BY <1>0, <3>1
  <2>2. reqs' = [reqs EXCEPT ![r] = q]
    BY <1>0 DEF Shuts, Tell, TypeOK
  <2> QED
    BY <1>0, <2>1, <2>2, Becoming
<1>3. /\ q.step = "done"
      /\ q.sent = reqs[r].sent /\ q.stamp = reqs[r].stamp /\ q.default = reqs[r].default
      /\ q.asked = reqs[r].asked /\ q.others = reqs[r].others /\ q.moved = reqs[r].moved
  BY <1>0 DEF RequestType
<1> HIDE DEF q
<1>4. TypeOK'
  BY <1>0, <1>1, <1>2 DEF Shuts, Becomes, TypeOK, SecretsInv, volume, process, accounts
<1>5. ClaimInv'
  BY <1>0, <1>2, <1>3 DEF Shuts, Becomes, ClaimInv, Active, At, volume, process
<1>6. SavesInv'
  BY <1>0, <1>2, <1>3 DEF Shuts, Becomes, SavesInv, SaveInv, At, accounts
<1> QED
  BY <1>1, <1>4, <1>5, <1>6 DEF Inv

LEMMA NotUnlinkedInv ==
  ASSUME Inv, NEW r \in Requests, NotUnlinked(r)
  PROVE  Inv'
<1> DEFINE q == [reqs[r] EXCEPT !.step = "done", !.told = "failed"]
<1>0. /\ TypeOK /\ ClaimInv /\ SavesInv /\ SecretsInv
      /\ reqs[r] \in RequestType /\ version \in Nat
  BY DEF Inv, TypeOK
<1>1. SecretsInv'
  BY <1>0, SecretsStutter DEF NotUnlinked
<1>2. Becomes(r, q)
  <2>1. q \in RequestType
    <3>1. \A x \in RequestType : [x EXCEPT !.step = "done", !.told = "failed"] \in RequestType
      BY ZenonT(60), <1>0 DEF RequestType
    <3> QED
      BY <1>0, <3>1
  <2>2. reqs' = [reqs EXCEPT ![r] = q]
    BY <1>0 DEF NotUnlinked, Tell, TypeOK
  <2> QED
    BY <1>0, <2>1, <2>2, Becoming
<1>3. /\ q.step = "done"
      /\ q.sent = reqs[r].sent /\ q.stamp = reqs[r].stamp /\ q.default = reqs[r].default
      /\ q.asked = reqs[r].asked /\ q.others = reqs[r].others /\ q.moved = reqs[r].moved
  BY <1>0 DEF RequestType
<1> HIDE DEF q
<1>4. TypeOK'
  BY <1>0, <1>1, <1>2 DEF NotUnlinked, Becomes, TypeOK, SecretsInv, volume, process, accounts
<1>5. ClaimInv'
  BY <1>0, <1>2, <1>3 DEF NotUnlinked, Becomes, ClaimInv, Active, At, volume, process
<1>6. SavesInv'
  BY <1>0, <1>2, <1>3 DEF NotUnlinked, Becomes, SavesInv, SaveInv, At, accounts
<1> QED
  BY <1>1, <1>4, <1>5, <1>6 DEF Inv

LEMMA SubmitInv ==
  ASSUME Inv, NEW r \in Requests, NEW k \in Kinds, Submit(r, k)
  PROVE  Inv'
<1> DEFINE q == [reqs[r] EXCEPT !.kind = k, !.step = First(k)]
<1>0. /\ TypeOK /\ ClaimInv /\ SavesInv /\ SecretsInv
      /\ reqs[r] \in RequestType /\ version \in Nat
  BY DEF Inv, TypeOK
<1>k. /\ k \in {"credentials", "save", "finish"}
      /\ First(k) \in {"hash", "stamp", "unlink"}
      /\ First(k) = "unlink" => record # Nobody
      /\ gate = "open" /\ At(r, "idle")
  BY DEF Submit, MayFinish, First, Kinds, Admitted
<1>1. SecretsInv'
  BY <1>0, SecretsStutter DEF Submit
<1>2. Becomes(r, q)
  <2>1. q \in RequestType
    <3>1. \A x \in RequestType, to \in {"hash", "stamp", "unlink"} :
            [x EXCEPT !.kind = k, !.step = to] \in RequestType
      BY ZenonT(60) DEF RequestType
    <3> QED
      BY <1>0, <1>k, <3>1
  <2>2. reqs' = [reqs EXCEPT ![r] = q]
    BY <1>0 DEF Submit, Accept, TypeOK
  <2> QED
    BY <1>0, <2>1, <2>2, Becoming
<1>3. /\ q.step = First(k)
      /\ q.sent = reqs[r].sent /\ q.stamp = reqs[r].stamp /\ q.default = reqs[r].default
      /\ q.asked = reqs[r].asked /\ q.others = reqs[r].others /\ q.moved = reqs[r].moved
  BY <1>0 DEF RequestType
<1> HIDE DEF q
<1>4. TypeOK'
  BY <1>0, <1>1, <1>2 DEF Submit, Becomes, TypeOK, SecretsInv, volume, process, accounts, Accept
<1>5. ClaimInv'
  BY <1>0, <1>k, <1>2, <1>3 DEF Submit, Becomes, ClaimInv, Active, At, volume, process
<1>6. SavesInv'
  BY <1>0, <1>k, <1>2, <1>3 DEF Submit, Becomes, SavesInv, SaveInv, At, accounts
<1> QED
  BY <1>1, <1>4, <1>5, <1>6 DEF Inv

LEMMA SkipInv ==
  ASSUME Inv, NEW r \in Requests, Skip(r)
  PROVE  Inv'
<1> DEFINE q == [reqs[r] EXCEPT !.kind = "skip", !.told = "on", !.step = IF furthest = 3 THEN "done" ELSE "note"]
<1>0. /\ TypeOK /\ ClaimInv /\ SavesInv /\ SecretsInv
      /\ reqs[r] \in RequestType /\ version \in Nat
  BY DEF Inv, TypeOK
<1>1. SecretsInv'
  BY <1>0, SecretsStutter DEF Skip
<1>2. Becomes(r, q)
  <2>1. q \in RequestType
    <3>1. "skip" \in Kinds
      BY DEF Kinds
    <3>2. \A x \in RequestType, to \in {"done", "note"} :
            [x EXCEPT !.kind = "skip", !.told = "on", !.step = to] \in RequestType
      BY ZenonT(60), <3>1 DEF RequestType
    <3> QED
      BY <1>0, <3>2
  <2>2. reqs' = [reqs EXCEPT ![r] = q]
    BY <1>0 DEF Skip, TypeOK
  <2> QED
    BY <1>0, <2>1, <2>2, Becoming
<1>3. /\ q.step \in {"done", "note"}
      /\ q.sent = reqs[r].sent /\ q.stamp = reqs[r].stamp /\ q.default = reqs[r].default
      /\ q.asked = reqs[r].asked /\ q.others = reqs[r].others /\ q.moved = reqs[r].moved
  BY <1>0 DEF RequestType
<1> HIDE DEF q
<1>4. TypeOK'
  BY <1>0, <1>1, <1>2 DEF Skip, Becomes, TypeOK, SecretsInv, volume, process, accounts, Screens
<1>5. ClaimInv'
  BY <1>0, <1>2, <1>3 DEF Skip, Becomes, ClaimInv, Active, At, volume, process, Admitted
<1>6. SavesInv'
  BY <1>0, <1>2, <1>3 DEF Skip, Becomes, SavesInv, SaveInv, At, accounts
<1> QED
  BY <1>1, <1>4, <1>5, <1>6 DEF Inv

LEMMA CreatedInv ==
  ASSUME Inv, NEW r \in Requests, Created(r)
  PROVE  Inv'
<1> DEFINE q == [reqs[r] EXCEPT !.step = IF 2 > furthest THEN "note" ELSE "done", !.told = "on"]
<1>0. /\ TypeOK /\ ClaimInv /\ SavesInv /\ SecretsInv
      /\ reqs[r] \in RequestType /\ version \in Nat
  BY DEF Inv, TypeOK
<1>1. SecretsInv'
  BY <1>0, SecretsStutter DEF Created
<1>2. Becomes(r, q)
  <2>1. q \in RequestType
    <3>1. \A x \in RequestType, to \in {"done", "note"} :
            [x EXCEPT !.step = to, !.told = "on"] \in RequestType
      BY ZenonT(60) DEF RequestType
    <3> QED
      BY <1>0, <3>1
  <2>2. reqs' = [reqs EXCEPT ![r] = q]
    BY <1>0 DEF Created, Advance, TypeOK
  <2> QED
    BY <1>0, <2>1, <2>2, Becoming
<1>3. /\ q.step \in {"done", "note"}
      /\ q.sent = reqs[r].sent /\ q.stamp = reqs[r].stamp /\ q.default = reqs[r].default
      /\ q.asked = reqs[r].asked /\ q.others = reqs[r].others /\ q.moved = reqs[r].moved
  BY <1>0 DEF RequestType
<1> HIDE DEF q
<1>4. TypeOK'
  BY <1>0, <1>1, <1>2 DEF Created, Becomes, TypeOK, SecretsInv, volume, process, accounts, Screens, Writers, Advance
<1>5. ClaimInv'
  BY <1>0, <1>2, <1>3, SetupAssumption DEF Created, Becomes, ClaimInv, Active, At, volume, process, Advance
<1>6. SavesInv'
  BY <1>0, <1>2, <1>3 DEF Created, Becomes, SavesInv, SaveInv, At, accounts
<1> QED
  BY <1>1, <1>4, <1>5, <1>6 DEF Inv

LEMMA HealthReadInv ==
  ASSUME Inv, NEW r \in Requests, HealthRead(r)
  PROVE  Inv'
<1>a. PICK answered \in BOOLEAN :
        reqs' = [reqs EXCEPT ![r].step = "create", ![r].sent = "open", ![r].asked = answered,
                             ![r].default = ~(answered /\ stored # {})]
  BY DEF HealthRead
<1> DEFINE q == [reqs[r] EXCEPT !.step = "create", !.sent = "open", !.asked = answered,
                                !.default = ~(answered /\ stored # {})]
<1>0. /\ TypeOK /\ ClaimInv /\ SavesInv /\ SecretsInv
      /\ reqs[r] \in RequestType /\ version \in Nat
  BY DEF Inv, TypeOK
<1>1. SecretsInv'
  BY <1>0, SecretsStutter DEF HealthRead
<1>2. Becomes(r, q)
  <2>1. q \in RequestType
    <3>1. \A x \in RequestType, c \in BOOLEAN :
            [x EXCEPT !.step = "create", !.sent = "open", !.asked = answered, !.default = c]
              \in RequestType
      BY ZenonT(60) DEF RequestType
    <3> QED
      BY <1>0, <3>1
  <2>2. reqs' = [reqs EXCEPT ![r] = q]
    BY <1>0, <1>a DEF TypeOK
  <2> QED
    BY <1>0, <2>1, <2>2, Becoming
<1>3. /\ q.step = "create" /\ q.sent = "open"
      /\ q.asked /\ q.default => stored = {}
      /\ q.stamp = reqs[r].stamp /\ q.others = reqs[r].others /\ q.moved = reqs[r].moved
  BY <1>0 DEF RequestType
<1> HIDE DEF q
<1>4. TypeOK'
  BY <1>0, <1>1, <1>2 DEF HealthRead, Becomes, TypeOK, SecretsInv, volume, process, accounts
<1>5. ClaimInv'
  BY <1>0, <1>2, <1>3 DEF HealthRead, Becomes, ClaimInv, Active, At, volume, process
<1>6. SavesInv'
  <2>1. version' = version /\ stored' = stored /\ At(r, "health")
    BY DEF HealthRead, accounts
  <2>2. ASSUME NEW s \in Requests \ {r} PROVE SaveInv(s)'
    BY <1>0, <1>2, <2>1 DEF Becomes, SavesInv, SaveInv
  <2>3. SaveInv(r)
    BY <1>0 DEF SavesInv
  <2>4. reqs[r].stamp <= version /\ (reqs[r].stamp = version \/ reqs[r].moved)
    BY <2>1, <2>3 DEF SaveInv, At
  <2>5. SaveInv(r)'
    BY <1>2, <1>3, <2>1, <2>4 DEF Becomes, SaveInv
  <2> QED
    BY <2>2, <2>5 DEF SavesInv
<1> QED
  BY <1>1, <1>4, <1>5, <1>6 DEF Inv

LEMMA StoresInv ==
  ASSUME Inv, NEW r \in Requests, Stores(r)
  PROVE  Inv'
<1>0. /\ TypeOK /\ ClaimInv /\ SavesInv /\ SecretsInv
      /\ reqs[r] \in RequestType /\ version \in Nat
  BY DEF Inv, TypeOK
<1>1. SecretsInv'
  BY <1>0, SecretsStutter DEF Stores
<1> DEFINE m == Moves(r)
           others == stored # {}
           q == [m[r] EXCEPT !.sent = "stored", !.others = others]
<1>2. /\ m \in [Requests -> RequestType]
      /\ \A s \in Requests :
           /\ m[s].moved = (reqs[s].moved \/ (s # r /\ reqs[s].step \in {"health", "create", "again"}))
           /\ m[s] = [reqs[s] EXCEPT !.moved = m[s].moved]
  BY <1>0, MovesFields
<1>3. reqs' = [m EXCEPT ![r].sent = "stored", ![r].others = others]
  BY DEF Stores
<1> HIDE DEF m, others
<1>4. reqs' = [m EXCEPT ![r] = q]
  BY <1>2, <1>3
<1>5. q \in RequestType
  <2>1. \A x \in RequestType, c \in BOOLEAN :
          [x EXCEPT !.sent = "stored", !.others = c] \in RequestType
    BY DEF RequestType
  <2>2. others \in BOOLEAN
    BY DEF others
  <2> QED
    BY <1>2, <2>1, <2>2
<1>6. /\ reqs' \in [Requests -> RequestType] /\ reqs'[r] = q
      /\ \A s \in Requests \ {r} : reqs'[s] = m[s]
  BY <1>2, <1>4, <1>5
<1>7. /\ q.sent = "stored" /\ q.others = others
      /\ q.step = reqs[r].step /\ q.stamp = reqs[r].stamp
      /\ q.asked = reqs[r].asked /\ q.default = reqs[r].default
  BY <1>0, <1>2 DEF RequestType
<1> HIDE DEF q
<1>8. \A s \in Requests \ {r} :
        /\ reqs'[s].step = reqs[s].step /\ reqs'[s].stamp = reqs[s].stamp
        /\ reqs'[s].sent = reqs[s].sent /\ reqs'[s].asked = reqs[s].asked
        /\ reqs'[s].default = reqs[s].default /\ reqs'[s].others = reqs[s].others
        /\ reqs[s].step \in {"health", "create", "again"} => reqs'[s].moved
  BY <1>0, <1>2, <1>6 DEF TypeOK, RequestType
<1>9. /\ reqs[r].sent = "open" /\ reqs[r].stamp = version
      /\ version' = version + 1 /\ stored' = stored \cup {r}
  BY DEF Stores
<1>10. TypeOK'
  BY <1>0, <1>1, <1>6, <1>9 DEF Stores, TypeOK, SecretsInv, volume, process
<1>11. ClaimInv'
  <2>1. \A s \in Requests : reqs'[s].step = reqs[s].step
    BY <1>6, <1>7, <1>8
  <2> QED
    BY <1>0, <2>1 DEF Stores, ClaimInv, Active, At, volume, process
<1>12. SavesInv'
  <2>1. ASSUME NEW s \in Requests \ {r} PROVE SaveInv(s)'
    <3>1. SaveInv(s) /\ reqs[s].stamp \in Nat
      BY <1>0 DEF SavesInv, TypeOK, RequestType
    <3> QED
      BY <1>0, <1>8, <1>9, <3>1 DEF SaveInv
  <2>2. SaveInv(r)'
    <3>1. SaveInv(r)
      BY <1>0 DEF SavesInv
    <3>2. reqs[r].default /\ others => ~reqs[r].asked
      BY <1>9, <3>1 DEF SaveInv, others
    <3> QED
      BY <1>0, <1>6, <1>7, <1>9, <3>1, <3>2 DEF SaveInv
  <2> QED
    BY <2>1, <2>2 DEF SavesInv
<1> QED
  BY <1>1, <1>10, <1>11, <1>12 DEF Inv

\* The end of a save, whichever way its answer, or the file, tells of it.
LEMMA Ended ==
  ASSUME Inv, NEW r \in Requests, NEW to \in {"done", "note"},
         NEW what \in {"saved", "unchanged", "unknown", "refused"},
         Active(r), Becomes(r, [reqs[r] EXCEPT !.step = to, !.told = what]),
         furthest' \in Screens,
         UNCHANGED <<secretsVars, volume, gate, live, accounts, finished, lost>>
  PROVE  Inv'
<1> DEFINE q == [reqs[r] EXCEPT !.step = to, !.told = what]
<1>0. /\ TypeOK /\ ClaimInv /\ SavesInv /\ SecretsInv
      /\ reqs[r] \in RequestType /\ version \in Nat
  BY DEF Inv, TypeOK
<1>1. SecretsInv'
  BY <1>0, SecretsStutter
<1>2. Becomes(r, q)
  OBVIOUS
<1>3. /\ q.step \in {"done", "note"}
      /\ q.sent = reqs[r].sent /\ q.stamp = reqs[r].stamp /\ q.default = reqs[r].default
      /\ q.asked = reqs[r].asked /\ q.others = reqs[r].others /\ q.moved = reqs[r].moved
  BY <1>0 DEF RequestType
<1> HIDE DEF q
<1>4. TypeOK'
  BY <1>0, <1>1, <1>2 DEF Becomes, TypeOK, SecretsInv, volume, accounts
<1>5. ClaimInv'
  BY <1>0, <1>2, <1>3 DEF Becomes, ClaimInv, Active, At, volume
<1>6. SavesInv'
  BY <1>0, <1>2, <1>3 DEF Becomes, SavesInv, SaveInv, accounts
<1> QED
  BY <1>1, <1>4, <1>5, <1>6 DEF Inv

LEMMA EndsByAdvance ==
  ASSUME TypeOK, NEW r \in Requests, Advance(r, 3, "saved")
  PROVE  /\ furthest' \in Screens
         /\ \E to \in {"done", "note"} :
              Becomes(r, [reqs[r] EXCEPT !.step = to, !.told = "saved"])
<1> DEFINE to == IF 3 > furthest THEN "note" ELSE "done"
<1>1. reqs[r] \in RequestType /\ to \in {"done", "note"}
  BY DEF TypeOK
<1>2. furthest' \in Screens
  BY DEF Advance, TypeOK, Screens
<1>3. \A x \in RequestType, y \in {"done", "note"} :
        [x EXCEPT !.step = y, !.told = "saved"] \in RequestType
  BY ZenonT(60) DEF RequestType
<1>4. reqs' = [reqs EXCEPT ![r] = [reqs[r] EXCEPT !.step = to, !.told = "saved"]]
  BY DEF Advance, TypeOK
<1> HIDE DEF to
<1>5. Becomes(r, [reqs[r] EXCEPT !.step = to, !.told = "saved"])
  BY <1>1, <1>3, <1>4, Becoming
<1> QED
  BY <1>1, <1>2, <1>5

LEMMA EndsByTell ==
  ASSUME TypeOK, NEW r \in Requests, NEW what \in {"unchanged", "unknown", "refused"},
         Tell(r, what)
  PROVE  Becomes(r, [reqs[r] EXCEPT !.step = "done", !.told = what])
<1>1. reqs[r] \in RequestType
  BY DEF TypeOK
<1>2. \A x \in RequestType : [x EXCEPT !.step = "done", !.told = what] \in RequestType
  BY ZenonT(60) DEF RequestType
<1>3. reqs' = [reqs EXCEPT ![r] = [reqs[r] EXCEPT !.step = "done", !.told = what]]
  BY DEF Tell, TypeOK
<1> QED
  BY <1>1, <1>2, <1>3, Becoming

LEMMA AnswerInv ==
  ASSUME Inv, NEW r \in Requests, Answered(r) \/ Asks(r)
  PROVE  Inv'
<1>1. /\ TypeOK /\ Active(r)
      /\ UNCHANGED <<secretsVars, volume, gate, live, accounts, finished, lost>>
  BY DEF Inv, Answered, Asks, Active, At
<1>2. CASE Advance(r, 3, "saved")
  BY <1>1, <1>2, EndsByAdvance, Ended
<1>3. CASE \E what \in {"unchanged", "unknown", "refused"} :
             Tell(r, what) /\ UNCHANGED furthest
  <2>1. furthest' \in Screens
    BY <1>1, <1>3 DEF TypeOK
  <2> QED
    BY <1>1, <1>3, <2>1, EndsByTell, Ended
<1> QED
  BY <1>2, <1>3 DEF Answered, Asks

-----------------------------------------------------------------------------
LEMMA StepInv == Inv /\ [Next]_vars => Inv'
<1> SUFFICES ASSUME Inv, [Next]_vars PROVE Inv'
  OBVIOUS
<1>1. CASE Secret \/ Boot \/ Stop \/ Visit \/ Register \/ Edit \/ Lose
  BY <1>1, SecretInv, BootInv, StopInv, ClaimedInv, EditInv, LoseInv
<1>2. ASSUME NEW r \in Requests, Handle(r) PROVE Inv'
  BY <1>2, CreatedInv, NotCreatedInv, NotedInv, StampReadInv, StampUnreadInv, HealthReadInv,
     AnswerInv, UnansweredInv, UnlinksInv, ShutsInv, NotUnlinkedInv DEF Handle
<1>3. ASSUME NEW r \in Requests, Stores(r) \/ Refuses(r) \/ Skip(r) PROVE Inv'
  BY <1>3, StoresInv, RefusesInv, SkipInv
<1>4. ASSUME NEW r \in Requests, NEW k \in Kinds, Submit(r, k) PROVE Inv'
  BY <1>4, SubmitInv
<1>5. CASE UNCHANGED vars
  <2>1. SecretsInv'
    BY <1>5, SecretsStutter DEF Inv, vars
  <2> QED
    BY <1>5, <2>1
    DEF Inv, TypeOK, SecretsInv, ClaimInv, SavesInv, SaveInv, Active, At, vars,
        volume, process, accounts
<1> QED
  BY <1>1, <1>2, <1>3, <1>4, <1>5 DEF Next

LEMMA Invariance == Spec => []Inv
BY InitInv, StepInv, PTL DEF Spec

\* Every variable of an instance keeps its type, over any number of boots.
THEOREM TypeCorrect == Spec => []TypeOK
<1>1. Inv => TypeOK
  BY DEF Inv
<1> QED
  BY <1>1, Invariance, PTL

\* Whichever service boots first, whatever was in the file or in the environment of
\* either, and wherever one stops: two services that are up hold one secret, but
\* after a secret was removed as a blank file.
THEOREM SecretsAgree == Spec => []AgreeUnlessEmptied
<1>1. Inv => AgreeUnlessEmptied
  BY DEF Inv, SecretsInv, FileIsHeld, AgreeUnlessEmptied, Agree
<1> QED
  BY <1>1, Invariance, PTL

\* A process serves as claimed only after Finish and with an operator's record, and
\* no boot opens the wizard on a volume a client has registered on.
THEOREM ClaimedForGood == Spec => []ClaimedOnce
<1>1. Inv => ClaimedOnce
  BY DEF Inv, ClaimInv, ClaimedOnce
<1> QED
  BY <1>1, Invariance, PTL

\* A mailbox saved as the default beside others was so because the connector gave no
\* answer: the stamp it was saved with vouches for what was known of the others.
THEOREM DefaultNotTaken == Spec => []NoDefaultTaken
<1>1. Inv => NoDefaultTaken
  BY DEF Inv, SavesInv, SaveInv, NoDefaultTaken
<1> QED
  BY <1>1, Invariance, PTL

-----------------------------------------------------------------------------
(* What the wizard says of a save.                                         *)

\* No other step says that a mailbox is stored, or that nothing changed.
LEMMA OthersSayNothing ==
  ASSUME TypeOK, [Next]_vars, NEW s \in Requests, ~Answered(s), ~Asks(s)
  PROVE  reqs'[s].told \in {reqs[s].told, "failed", "on", "claimed"}
<1> DEFINE Quiet == reqs'[s].told \in {reqs[s].told, "failed", "on", "claimed"}
<1>0. reqs \in [Requests -> RequestType]
  BY DEF TypeOK
<1> USE DEF RequestType
<1>1. CASE Secret \/ Boot \/ Visit \/ Register \/ Lose \/ UNCHANGED vars
  BY <1>1 DEF Secret, Boot, Visit, Register, Lose, vars
<1>2. CASE Stop
  BY <1>0, <1>2 DEF Stop, Forgotten
<1>3. CASE Edit
  BY <1>0, <1>3 DEF Edit, Moves
<1>4. ASSUME NEW r \in Requests, Handle(r) PROVE Quiet
  <2>1. CASE Created(r)
    BY <1>0, <2>1 DEF Created, Advance
  <2>2. CASE NotCreated(r) \/ NotUnlinked(r) \/ Shuts(r) \/ StampUnread(r)
    BY <1>0, <2>2 DEF NotCreated, NotUnlinked, Shuts, StampUnread, Tell
  <2>3. CASE Noted(r) \/ Unanswered(r) \/ Unlinks(r)
    BY <1>0, <2>3 DEF Noted, Unanswered, Unlinks, Step
  <2>4. CASE StampRead(r)
    BY <1>0, <2>4 DEF StampRead
  <2>5. CASE HealthRead(r)
    BY <1>0, <2>5 DEF HealthRead
  <2>6. CASE Answered(r)
    BY <1>0, <2>6 DEF Answered, Advance, Tell
  <2>7. CASE Asks(r)
    BY <1>0, <2>7 DEF Asks, Advance, Tell
  <2> QED
    BY <1>4, <2>1, <2>2, <2>3, <2>4, <2>5, <2>6, <2>7 DEF Handle
<1>5. ASSUME NEW r \in Requests, Stores(r) PROVE Quiet
  <2>1. Moves(r) \in [Requests -> RequestType]
    BY MovesFields
  <2>2. Moves(r)[s].told = reqs[s].told
    BY <1>0 DEF Moves
  <2> QED
    BY <1>5, <2>1, <2>2 DEF Stores
<1>6. ASSUME NEW r \in Requests, Refuses(r) \/ Skip(r) PROVE Quiet
  BY <1>0, <1>6 DEF Refuses, Skip
<1>7. ASSUME NEW r \in Requests, NEW k \in Kinds, Submit(r, k) PROVE Quiet
  BY <1>0, <1>7 DEF Submit, Accept
<1> QED
  BY <1>1, <1>2, <1>3, <1>4, <1>5, <1>6, <1>7 DEF Next

LEMMA StepEstablishes ==
  ASSUME Inv, [Next]_vars, NEW s \in Requests
  PROVE  Established(s)
<1>1. TypeOK /\ reqs[s] \in RequestType /\ version \in Nat /\ SaveInv(s)
  BY DEF Inv, TypeOK, SavesInv
<1>2. CASE ~Answered(s) /\ ~Asks(s)
  BY <1>1, <1>2, OthersSayNothing DEF Established
<1>3. CASE Answered(s)
  <2>1. reqs[s].sent = "stored" \/ reqs'[s].told = "refused"
    BY <1>1, <1>3 DEF Answered, Tell, TypeOK, RequestType
  <2>2. reqs[s].sent = "stored" => reqs'[s].told = "saved"
    BY <1>1, <1>3 DEF Answered, Advance, TypeOK, RequestType
  <2> QED
    BY <2>1, <2>2 DEF Established
<1>4. CASE Asks(s)
  <2>1. version # reqs[s].stamp => reqs[s].moved \/ reqs[s].sent = "stored"
    BY <1>1, <1>4 DEF Asks, At, SaveInv
  <2>2. version = reqs[s].stamp => reqs[s].sent # "stored"
    BY <1>1 DEF SaveInv, RequestType
  <2>3. reqs'[s].told = "saved" => version # reqs[s].stamp
    BY <1>1, <1>4 DEF Asks, Tell, Advance, TypeOK, RequestType
  <2>4. reqs'[s].told = "unchanged" => version = reqs[s].stamp
    BY <1>1, <1>4 DEF Asks, Tell, Advance, TypeOK, RequestType
  <2> QED
    BY <2>1, <2>2, <2>3, <2>4 DEF Established
<1> QED
  BY <1>2, <1>3, <1>4

\* "Stored" is said of a mailbox that is stored, or when somebody else moved the
\* file; "unchanged" never of one that is there: whether the answer came, was lost,
\* or was asked for again.
THEOREM WhatIsSaidHolds == Spec => AnswersEstablished
<1>1. Inv /\ [Next]_vars => [\A r \in Requests : Established(r)]_vars
  BY StepEstablishes
<1> QED
  BY <1>1, Invariance, PTL DEF Spec, AnswersEstablished

-----------------------------------------------------------------------------
(* Adding a mailbox: the invariant.                                        *)

Steps == {"idle", "resolve", "get", "srv", "caldav_resolve", "caldav_get", "caldav_target", "caldav_srv", "found", "nothing"}

\* A lookup; which server it picks is of no matter here.
LookType(pick) ==
  [at : Steps, tier : Nat, n : Nat, clock : Nat, slice : Nat, smtp : BOOLEAN,
   pick : {pick}, end : Nat, caldav : BOOLEAN]

\* An attempt begins within the budget and takes no more than one attempt may.
LookOK(k) ==
  /\ \E p : k \in LookType(p)
  /\ k.end < Discovery + PerAttempt + Reach
  /\ k.clock < Discovery + PerAttempt + (IF k.at = "found" THEN Reach ELSE 0)
  /\ k.at \in {"get", "caldav_get"} => k.clock < Discovery /\ k.slice <= PerAttempt

AddressOrNone == Addresses \cup {None}

Password == Passwords \cup {Empty}

ScreenType ==
  [view : Views, addr : Addresses, warn : AddressOrNone, shared : Password,
   pass : Boxes, url : BOOLEAN, fresh : BOOLEAN]

\* A screen holds the passwords typed so far, and a warning about its own address.
PageOK(p, program, typed, account) ==
  /\ p \in ScreenType
  /\ p.warn # None => p.warn = Notice(p.addr)
  /\ (program = "Connector" /\ p.view # "address") => p.warn = Notice(p.addr)
  /\ p.view = "address" => p.warn = None
  /\ p.view \notin {"waiting", "done"} => p.pass = typed /\ p.shared = Empty
  /\ p.view \notin {"manual", "edit"} => p.pass = NoPasswords
  /\ p.view = "edit" => program = "Connector" /\ account # None

\* What is to be stored, once it is known: what was typed or, on an edit from the file
\* as it is, what is stored.
FullOK(r, typed, account) ==
  \A s \in Services :
    IF s = Calendar /\ ~r.url THEN r.full[s] = Empty
    ELSE IF typed[s] # Empty THEN r.full[s] = typed[s]
    ELSE r.edits /\ (r.fresh => r.full[s] = account.pass[s])

\* Where a submission stands once its form was read.
WasRead == {"refuse", "check", "probe", "probed", "write"}

\* A submission has every password typed so far, in its boxes or as the one of the cascade.
RequestOK(r, program, typed, account) ==
  /\ r \in SubmissionType
  /\ r.warn # None => r.warn = Notice(r.warnFor)
  /\ r.at = "lookup" => r.warn = None
  /\ r.edits => program = "Connector" /\ account # None
  /\ spreadSharedPassword(r.pass, r.url, r.shared) = typed
  /\ r.at \in {"lookup", "looked", "cascade"} =>
       r.pass = NoPasswords /\ (r.at # "cascade" \/ r.act # "edit" => r.shared = Empty)
  /\ r.at \in WasRead => r.shared = Empty
  /\ r.at \in WasRead \ {"refuse"} => FullOK(r, typed, account)

ScreensInv ==
  /\ ui \in {"Wizard", "Connector"} /\ meant \in Boxes
  /\ acct \in AccountType \cup {None}
  /\ LookOK(look)
  /\ PageOK(page, ui, meant, acct)
  /\ req # None => RequestOK(req, ui, meant, acct) /\ page.view = "waiting"

-----------------------------------------------------------------------------
(* Adding a mailbox: the lookup.                                           *)

LEMMA BudgetConstants ==
  /\ Discovery \in Nat /\ PerAttempt \in Nat /\ Reach \in Nat /\ Discovery > 0 /\ PerAttempt > 0
BY LookupAssumption

\* An attempt has no more than one attempt may take, and no more than is left.
LEMMA SliceIsWhatIsLeft ==
  ASSUME NEW t \in Nat
  PROVE  /\ Slice(t) \in Nat /\ Slice(t) <= PerAttempt
         /\ t <= Discovery => t + Slice(t) <= Discovery
         /\ t >= Discovery => Slice(t) = 0
BY BudgetConstants DEF Slice

LEMMA TierEnds ==
  ASSUME NEW k, LookOK(k), NEW t \in Nat, t < Discovery + PerAttempt, look = k, NextTier(t)
  PROVE  LookOK(look')
<1>1. PICK p : k \in LookType(p)
  BY DEF LookOK
<1> DEFINE at == IF k.tier = 3 THEN "srv" ELSE "resolve"
           n == IF k.tier = 3 THEN 1 ELSE 0
           f == [k EXCEPT !.at = at, !.tier = k.tier + 1, !.n = n]
<1>2. f \in LookType(p) /\ f.at = at /\ f.end = k.end
  <2>1. at \in Steps /\ n \in Nat /\ k.tier + 1 \in Nat
    BY <1>1 DEF LookType, Steps
  <2> HIDE DEF at, n
  <2> QED
    BY <1>1, <2>1 DEF LookType
<1>3. look' = [f EXCEPT !.clock = t, !.slice = 0]
  BY <1>1 DEF NextTier, LookType
<1> HIDE DEF f
<1>4. look' \in LookType(p) /\ look'.at = at /\ look'.end = k.end /\ look'.clock = t
  BY <1>2, <1>3 DEF LookType
<1> QED
  BY <1>4, BudgetConstants DEF LookOK

LEMMA LookupStarts ==
  ASSUME StartLookup
  PROVE  LookOK(look')
<1>1. Idle \in LookType(0)
  BY DEF Idle, LookType, Steps
<1>2. look' = [Idle EXCEPT !.at = "resolve", !.tier = 1]
  BY DEF StartLookup
<1>3. look' \in LookType(0) /\ look'.at = "resolve" /\ look'.clock = 0 /\ look'.end = 0
  BY <1>2 DEF Idle, LookType, Steps
<1> QED
  BY <1>3, BudgetConstants DEF LookOK

LEMMA IdleIsOK == LookOK(Idle)
<1>1. Idle \in LookType(0) /\ Idle.at = "idle" /\ Idle.clock = 0 /\ Idle.end = 0
  BY DEF Idle, LookType, Steps
<1> QED
  BY <1>1, BudgetConstants DEF LookOK

\* Rivals are checked for no longer than Reach, from when the servers are known.
LEMMA ServersFound ==
  ASSUME LookOK(look), NEW t \in Nat, t < Discovery + PerAttempt, Found(t)
  PROVE  LookOK(look')
<1>1. PICK p : look \in LookType(p)
  BY DEF LookOK
<1>2. PICK k \in 1 .. MaxServers : \E d \in Waits(Reach) : \E q :
        look' = [look EXCEPT !.at = "caldav_resolve", !.n = 0, !.slice = 0, !.clock = t, !.pick = q,
                             !.end = IF k < 2 THEN t ELSE t + d]
  BY DEF Found
<1>3. PICK d \in Waits(Reach) : \E q :
        look' = [look EXCEPT !.at = "caldav_resolve", !.n = 0, !.slice = 0, !.clock = t, !.pick = q,
                             !.end = IF k < 2 THEN t ELSE t + d]
  BY <1>2
<1>4. PICK q :
        look' = [look EXCEPT !.at = "caldav_resolve", !.n = 0, !.slice = 0, !.clock = t, !.pick = q,
                             !.end = IF k < 2 THEN t ELSE t + d]
  BY <1>3
<1> DEFINE end == IF k < 2 THEN t ELSE t + d
           f == [look EXCEPT !.at = "caldav_resolve", !.n = 0, !.slice = 0]
<1>5. end \in Nat /\ end < Discovery + PerAttempt + Reach
  BY LookupAssumption DEF Waits
<1>6. f \in LookType(p) /\ f.at = "caldav_resolve"
  BY <1>1 DEF LookType, Steps
<1> HIDE DEF end
<1>7. look' = [f EXCEPT !.clock = t, !.pick = q, !.end = end]
  BY <1>1, <1>4 DEF LookType, end
<1> HIDE DEF f
<1>8. look' \in LookType(q) /\ look'.at = "caldav_resolve" /\ look'.clock = t /\ look'.end = end
  BY <1>5, <1>6, <1>7 DEF LookType
<1> QED
  BY <1>5, <1>8, BudgetConstants DEF LookOK

\* A lookup that goes on: at, clock, slice and the records' marks change only.
LEMMA LookGoesOn ==
  ASSUME NEW p, NEW k \in LookType(p), NEW at \in Steps, NEW t \in Nat, NEW s \in Nat,
         k.end < Discovery + PerAttempt + Reach, at # "found", t < Discovery + PerAttempt,
         at \in {"get", "caldav_get"} => t < Discovery /\ s <= PerAttempt
  PROVE  LookOK([k EXCEPT !.at = at, !.clock = t, !.slice = s])
<1> DEFINE f == [k EXCEPT !.at = at, !.clock = t, !.slice = s]
<1>1. f \in LookType(p) /\ f.at = at /\ f.clock = t /\ f.slice = s /\ f.end = k.end
  BY DEF LookType
<1> HIDE DEF f
<1>2. LookOK(f)
  BY <1>1, BudgetConstants DEF LookOK
<1> QED
  BY <1>2 DEF f

\* The lookup is over when both its branches are.
LEMMA LookupFinishes ==
  ASSUME LookOK(look), NEW caldav \in BOOLEAN, NEW t \in Nat, t < Discovery + PerAttempt, Finish(caldav, t)
  PROVE  LookOK(look')
<1>1. PICK p : look \in LookType(p)
  BY DEF LookOK
<1> DEFINE clock == IF t < look.end THEN look.end ELSE t
           f == [look EXCEPT !.at = "found", !.caldav = caldav, !.slice = 0]
<1>2. clock \in Nat /\ clock < Discovery + PerAttempt + Reach
  BY <1>1, BudgetConstants DEF LookOK, LookType
<1>3. f \in LookType(p) /\ f.at = "found" /\ f.end = look.end
  BY <1>1 DEF LookType, Steps
<1>4. look' = [f EXCEPT !.clock = clock]
  BY <1>1 DEF Finish, LookType
<1> HIDE DEF f, clock
<1>5. look' \in LookType(p) /\ look'.at = "found" /\ look'.end = look.end /\ look'.clock = clock
  BY <1>2, <1>3, <1>4 DEF LookType
<1> QED
  BY <1>2, <1>5, BudgetConstants DEF LookOK

\* The clock of a lookup, and what it waits for now.
LEMMA LookFacts ==
  ASSUME LookOK(look)
  PROVE  /\ \E p : look \in LookType(p)
         /\ look.clock \in Nat /\ look.slice \in Nat /\ look.n \in Nat /\ look.tier \in Nat /\ look.end \in Nat
         /\ look.smtp \in BOOLEAN
         /\ look.end < Discovery + PerAttempt + Reach
         /\ look.at # "found" => look.clock < Discovery + PerAttempt
         /\ look.at \in {"get", "caldav_get"} => look.clock < Discovery /\ look.slice <= PerAttempt
<1>1. PICK p : look \in LookType(p)
  BY DEF LookOK
<1>2. /\ look.clock \in Nat /\ look.slice \in Nat /\ look.n \in Nat /\ look.tier \in Nat /\ look.end \in Nat
      /\ look.smtp \in BOOLEAN
  BY <1>1 DEF LookType
<1> QED
  BY <1>1, <1>2, BudgetConstants DEF LookOK

\* What is waited for ends within one attempt of the budget, and an answer within it.
LEMMA WaitIsShort ==
  ASSUME LookOK(look), look.at # "found", NEW d \in Waits(Slice(look.clock))
  PROVE  look.clock + d \in Nat /\ look.clock + d < Discovery + PerAttempt
<1>1. look.clock \in Nat /\ look.clock < Discovery + PerAttempt
  BY LookFacts
<1> QED
  BY <1>1, SliceIsWhatIsLeft, BudgetConstants DEF Waits

LEMMA AnswerIsInTime ==
  ASSUME LookOK(look), look.at # "found", NEW d \in Answers(Slice(look.clock))
  PROVE  /\ d \in Waits(Slice(look.clock))
         /\ look.clock + d \in Nat /\ look.clock + d < Discovery
<1>1. look.clock \in Nat /\ look.clock < Discovery + PerAttempt
  BY LookFacts
<1>2. Slice(look.clock) \in Nat /\ d \in Nat /\ d < Slice(look.clock)
  BY <1>1, SliceIsWhatIsLeft DEF Answers
<1>3. look.clock < Discovery
  BY <1>1, <1>2, SliceIsWhatIsLeft, BudgetConstants
<1> QED
  BY <1>1, <1>2, <1>3, SliceIsWhatIsLeft, BudgetConstants DEF Waits

LEMMA NameResolved ==
  ASSUME LookOK(look), ResolveName
  PROVE  LookOK(look')
<1>1. look.at = "resolve" /\ look.clock \in Nat /\ look.clock < Discovery + PerAttempt
  BY LookFacts DEF ResolveName
<1> DEFINE s == Slice(look.clock)
<1>2. s \in Nat /\ s <= PerAttempt
  BY <1>1, SliceIsWhatIsLeft
<1>3. \/ \E d \in Waits(s) : NextTier(look.clock + d)
      \/ \E d \in Answers(s) : look' = [look EXCEPT !.at = "get", !.clock = look.clock + d, !.slice = s]
  BY DEF ResolveName
<1>4. ASSUME NEW d \in Waits(s), NextTier(look.clock + d)
      PROVE  LookOK(look')
  BY <1>1, <1>4, WaitIsShort, TierEnds
<1>5. ASSUME NEW d \in Answers(s), look' = [look EXCEPT !.at = "get", !.clock = look.clock + d, !.slice = s]
      PROVE  LookOK(look')
  <2>1. look.clock + d \in Nat /\ look.clock + d < Discovery /\ look.clock + d < Discovery + PerAttempt
    BY <1>1, AnswerIsInTime, BudgetConstants
  <2>2. PICK p : look \in LookType(p) /\ look.end < Discovery + PerAttempt + Reach
    BY LookFacts
  <2>3. "get" \in Steps /\ "get" # "found"
    BY DEF Steps
  <2> HIDE DEF s
  <2> QED
    BY <1>2, <1>5, <2>1, <2>2, <2>3, LookGoesOn
<1> QED
  BY <1>3, <1>4, <1>5

\* A document's answer, or its silence, ends within one attempt of the budget too:
\* it was asked for within it, with a slice that its name was resolved in.
LEMMA DocumentIsInTime ==
  ASSUME LookOK(look), look.at \in {"get", "caldav_get"}, NEW d \in Waits(look.slice) \cup Answers(look.slice)
  PROVE  look.clock + d \in Nat /\ look.clock + d < Discovery + PerAttempt
<1>1. /\ look.clock \in Nat /\ look.clock < Discovery /\ look.slice \in Nat /\ look.slice <= PerAttempt
  BY LookFacts
<1>2. d \in Nat /\ d <= look.slice
  BY <1>1 DEF Waits, Answers
<1> QED
  BY <1>1, <1>2, BudgetConstants

LEMMA DocumentAsked ==
  ASSUME LookOK(look), Get
  PROVE  LookOK(look')
<1>1. look.at = "get" /\ look.n \in Nat
  BY LookFacts DEF Get
<1>2. \/ \E d \in Waits(look.slice) : NextTier(look.clock + d)
      \/ \E d \in Answers(look.slice) : Found(look.clock + d)
      \/ \E d \in Answers(look.slice) :
           look' = [look EXCEPT !.at = "resolve", !.n = look.n + 1, !.clock = look.clock + d, !.slice = 0]
  BY DEF Get
<1>3. ASSUME NEW d \in Waits(look.slice), NextTier(look.clock + d)
      PROVE  LookOK(look')
  BY <1>1, <1>3, DocumentIsInTime, TierEnds
<1>4. ASSUME NEW d \in Answers(look.slice), Found(look.clock + d)
      PROVE  LookOK(look')
  BY <1>1, <1>4, DocumentIsInTime, ServersFound
<1>5. ASSUME NEW d \in Answers(look.slice),
             look' = [look EXCEPT !.at = "resolve", !.n = look.n + 1, !.clock = look.clock + d, !.slice = 0]
      PROVE  LookOK(look')
  <2>1. PICK p : look \in LookType(p) /\ look.end < Discovery + PerAttempt + Reach
    BY LookFacts
  <2> DEFINE f == [look EXCEPT !.n = look.n + 1]
  <2>2. f \in LookType(p) /\ f.end = look.end
    BY <1>1, <2>1 DEF LookType
  <2>3. look' = [f EXCEPT !.at = "resolve", !.clock = look.clock + d, !.slice = 0]
    BY <1>5, <2>1 DEF LookType
  <2>4. "resolve" \in Steps
    BY DEF Steps
  <2>5. look.clock + d \in Nat /\ look.clock + d < Discovery + PerAttempt
    BY <1>1, DocumentIsInTime
  <2> HIDE DEF f
  <2> QED
    BY <2>1, <2>2, <2>3, <2>4, <2>5, LookGoesOn
<1> QED
  BY <1>2, <1>3, <1>4, <1>5

LEMMA RecordAsked ==
  ASSUME LookOK(look), Srv
  PROVE  LookOK(look')
<1>1. PICK p : look \in LookType(p) /\ look.end < Discovery + PerAttempt + Reach
  BY LookFacts
<1>2. look.at = "srv" /\ look.n \in Nat /\ look.smtp \in BOOLEAN
  BY LookFacts DEF Srv
<1>3. PICK d \in Waits(Slice(look.clock)), there \in BOOLEAN :
        LET t == look.clock + d
            known == there /\ d \in Answers(Slice(look.clock))
            smtp == look.smtp \/ (look.n > 1 /\ known)
        IN IF (look.n = 1 /\ ~known) \/ (look.n = 3 /\ ~smtp) THEN Ends("nothing", t)
           ELSE IF look.n = 3 THEN Found(t)
           ELSE look' = [look EXCEPT !.n = @ + 1, !.clock = t, !.smtp = smtp]
  BY DEF Srv
<1> DEFINE t == look.clock + d
           smtp == look.smtp \/ (look.n > 1 /\ there /\ d \in Answers(Slice(look.clock)))
<1>4. t \in Nat /\ t < Discovery + PerAttempt
  BY <1>2, <1>3, WaitIsShort
<1>5. smtp \in BOOLEAN
  BY <1>2
<1>6. \/ Ends("nothing", t)
      \/ Found(t)
      \/ look' = [look EXCEPT !.n = @ + 1, !.clock = t, !.smtp = smtp]
  BY <1>3
<1> HIDE DEF t, smtp
<1>7. CASE Ends("nothing", t)
  <2>1. look' = [look EXCEPT !.at = "nothing", !.clock = t, !.slice = look.slice]
    BY <1>1, <1>7 DEF Ends, LookType
  <2>2. "nothing" \in Steps /\ look.slice \in Nat
    BY LookFacts DEF Steps
  <2> QED
    BY <1>1, <1>4, <2>1, <2>2, LookGoesOn
<1>8. CASE Found(t)
  BY <1>4, <1>8, ServersFound
<1>9. CASE look' = [look EXCEPT !.n = @ + 1, !.clock = t, !.smtp = smtp]
  <2> DEFINE Marks(k, m, u) == [k EXCEPT !.n = m, !.clock = u]
             f == Marks(look, look.n + 1, t)
  <2>1. f \in LookType(p) /\ f.at = "srv" /\ f.clock = t /\ f.end = look.end
    <3>1. \A k \in LookType(p), m \in Nat, u \in Nat :
            /\ Marks(k, m, u) \in LookType(p) /\ Marks(k, m, u).at = k.at
            /\ Marks(k, m, u).clock = u /\ Marks(k, m, u).end = k.end
      BY DEF LookType
    <3>2. look.n + 1 \in Nat
      BY <1>2
    <3> HIDE DEF Marks
    <3>3. look \in LookType(p) /\ look.at = "srv"
      BY <1>1, <1>2
    <3> QED
      BY <1>4, <3>1, <3>2, <3>3
  <2>2. look' = [f EXCEPT !.smtp = smtp]
    BY <1>9
  <2> HIDE DEF f
  <2>3. \A k \in LookType(p), b \in BOOLEAN :
          LET g == [k EXCEPT !.smtp = b]
          IN g \in LookType(p) /\ g.at = k.at /\ g.clock = k.clock /\ g.end = k.end
    BY DEF LookType
  <2>4. look' \in LookType(p) /\ look'.at = "srv" /\ look'.clock = t /\ look'.end = look.end
    BY <1>5, <2>1, <2>2, <2>3
  <2> QED
    BY <1>1, <1>4, <2>4, BudgetConstants DEF LookOK
<1> QED
  BY <1>6, <1>7, <1>8, <1>9

\* The steps of the CalDAV URL that go on.
LEMMA UrlGoesOn ==
  ASSUME LookOK(look), NEW at \in {"caldav_srv", "caldav_get", "caldav_target"}, NEW t \in Nat, NEW s \in Nat,
         t < Discovery + PerAttempt, at = "caldav_get" => t < Discovery /\ s <= PerAttempt,
         look' = [look EXCEPT !.clock = t, !.slice = s, !.at = at]
  PROVE  LookOK(look')
<1>1. PICK p : look \in LookType(p) /\ look.end < Discovery + PerAttempt + Reach
  BY LookFacts
<1>2. at \in Steps /\ at # "found" /\ (at \in {"get", "caldav_get"} => at = "caldav_get")
  BY DEF Steps
<1>3. look' = [look EXCEPT !.at = at, !.clock = t, !.slice = s]
  BY <1>1 DEF LookType
<1>4. LookOK([look EXCEPT !.at = at, !.clock = t, !.slice = s])
  BY <1>1, <1>2, LookGoesOn
<1> QED
  BY <1>3, <1>4

LEMMA UrlNameResolved ==
  ASSUME LookOK(look), CalDavResolve
  PROVE  LookOK(look')
<1>1. look.at = "caldav_resolve" /\ look.clock \in Nat
  BY LookFacts DEF CalDavResolve
<1> DEFINE s == Slice(look.clock)
<1>2. s \in Nat /\ s <= PerAttempt
  BY <1>1, SliceIsWhatIsLeft
<1>3. \/ \E d \in Waits(s) : look' = [look EXCEPT !.clock = look.clock + d, !.slice = 0, !.at = "caldav_srv"]
      \/ \E d \in Answers(s) : look' = [look EXCEPT !.clock = look.clock + d, !.slice = s, !.at = "caldav_get"]
  BY DEF CalDavResolve
<1>4. ASSUME NEW d \in Waits(s), look' = [look EXCEPT !.clock = look.clock + d, !.slice = 0, !.at = "caldav_srv"]
      PROVE  LookOK(look')
  BY <1>1, <1>4, WaitIsShort, UrlGoesOn
<1>5. ASSUME NEW d \in Answers(s), look' = [look EXCEPT !.clock = look.clock + d, !.slice = s, !.at = "caldav_get"]
      PROVE  LookOK(look')
  <2>1. look.clock + d \in Nat /\ look.clock + d < Discovery /\ look.clock + d < Discovery + PerAttempt
    BY <1>1, AnswerIsInTime, BudgetConstants
  <2> HIDE DEF s
  <2> QED
    BY <1>2, <1>5, <2>1, UrlGoesOn
<1> QED
  BY <1>3, <1>4, <1>5

LEMMA UrlAsked ==
  ASSUME LookOK(look), CalDavGet
  PROVE  LookOK(look')
<1>1. look.at = "caldav_get"
  BY DEF CalDavGet
<1>2. \/ \E d \in Answers(look.slice) : Finish(TRUE, look.clock + d)
      \/ \E d \in Answers(look.slice) : look' = [look EXCEPT !.clock = look.clock + d, !.slice = 0, !.at = "caldav_target"]
      \/ \E d \in Waits(look.slice) : look' = [look EXCEPT !.clock = look.clock + d, !.slice = 0, !.at = "caldav_srv"]
  BY DEF CalDavGet
<1>3. ASSUME NEW d \in Answers(look.slice), Finish(TRUE, look.clock + d)
      PROVE  LookOK(look')
  BY <1>1, <1>3, DocumentIsInTime, LookupFinishes
<1>4. ASSUME NEW d \in Answers(look.slice), look' = [look EXCEPT !.clock = look.clock + d, !.slice = 0, !.at = "caldav_target"]
      PROVE  LookOK(look')
  BY <1>1, <1>4, DocumentIsInTime, UrlGoesOn
<1>5. ASSUME NEW d \in Waits(look.slice), look' = [look EXCEPT !.clock = look.clock + d, !.slice = 0, !.at = "caldav_srv"]
      PROVE  LookOK(look')
  BY <1>1, <1>5, DocumentIsInTime, UrlGoesOn
<1> QED
  BY <1>2, <1>3, <1>4, <1>5

LEMMA TargetAsked ==
  ASSUME LookOK(look), CalDavTarget
  PROVE  LookOK(look')
<1>1. look.at = "caldav_target" /\ look.slice \in Nat
  BY LookFacts DEF CalDavTarget
<1>2. \/ \E d \in Answers(Slice(look.clock)) : Finish(TRUE, look.clock + d)
      \/ \E d \in Waits(Slice(look.clock)) : look' = [look EXCEPT !.clock = look.clock + d, !.at = "caldav_srv"]
  BY DEF CalDavTarget
<1>3. ASSUME NEW d \in Answers(Slice(look.clock)), Finish(TRUE, look.clock + d)
      PROVE  LookOK(look')
  BY <1>1, <1>3, AnswerIsInTime, WaitIsShort, LookupFinishes
<1>4. ASSUME NEW d \in Waits(Slice(look.clock)), look' = [look EXCEPT !.clock = look.clock + d, !.at = "caldav_srv"]
      PROVE  LookOK(look')
  <2>1. PICK p : look \in LookType(p)
    BY LookFacts
  <2>2. look' = [look EXCEPT !.clock = look.clock + d, !.slice = look.slice, !.at = "caldav_srv"]
    BY <1>4, <2>1 DEF LookType
  <2> QED
    BY <1>1, <2>2, WaitIsShort, UrlGoesOn
<1> QED
  BY <1>2, <1>3, <1>4

LEMMA UrlRecordAsked ==
  ASSUME LookOK(look), CalDavSrv
  PROVE  LookOK(look')
<1>1. PICK d \in Waits(Slice(look.clock)), there \in BOOLEAN :
        Finish(there /\ d \in Answers(Slice(look.clock)), look.clock + d)
  BY DEF CalDavSrv
<1>2. look.at = "caldav_srv"
  BY DEF CalDavSrv
<1>3. look.clock + d \in Nat /\ look.clock + d < Discovery + PerAttempt
  BY <1>1, <1>2, WaitIsShort
<1>4. (there /\ d \in Answers(Slice(look.clock))) \in BOOLEAN
  OBVIOUS
<1> QED
  BY <1>1, <1>3, <1>4, LookupFinishes

LEMMA LookupStays == LookOK(look) /\ LookupStep => LookOK(look')
BY NameResolved, DocumentAsked, RecordAsked, UrlNameResolved, UrlAsked, TargetAsked, UrlRecordAsked DEF LookupStep

-----------------------------------------------------------------------------
(* Adding a mailbox: screens and submissions.                              *)

LEMMA MailboxConstants ==
  /\ BlankAddress \in Addresses /\ BlankAddress \notin Warned /\ Warned \subseteq Addresses
  /\ Notice(BlankAddress) = None
  /\ NoPasswords \in Boxes /\ \A s \in Services : NoPasswords[s] = Empty
BY AddMailboxAssumption DEF Notice, NoPasswords, Boxes

LEMMA NoticeIsAnAddress == \A a \in Addresses : Notice(a) \in AddressOrNone
BY DEF Notice, AddressOrNone

LEMMA NothingIsAllowed == None \in AddressOrNone /\ Empty \in Password
BY DEF AddressOrNone, Password

\* The one password fills the boxes left empty, and none when there is none.
LEMMA BoxesFilled ==
  ASSUME NEW pass \in Boxes, NEW url, NEW shared \in Password
  PROVE  /\ spreadSharedPassword(pass, url, shared) \in Boxes
         /\ shared = Empty => spreadSharedPassword(pass, url, shared) = pass
BY DEF Boxes, spreadSharedPassword, Password

\* What is true or false.
Flag(b) == b \in BOOLEAN

LEMMA ScreenIs ==
  ASSUME NEW v \in Views, NEW a \in Addresses, NEW w \in AddressOrNone,
         NEW shared \in Password, NEW pass \in Boxes, NEW url, Flag(url),
         NEW p, p = ScreenOf(v, a, w, shared, pass, url)
  PROVE  p \in ScreenType /\ p.view = v /\ p.addr = a /\ p.warn = w /\ p.shared = shared /\ p.pass = pass
<1> USE DEF Flag
<1>1. \A b \in BOOLEAN :
        [view |-> v, addr |-> a, warn |-> w, shared |-> shared, pass |-> pass, url |-> url, fresh |-> b] \in ScreenType
  BY DEF ScreenType
<1>2. p \in ScreenType
  BY <1>1 DEF ScreenOf, Flag
<1> QED
  BY <1>2 DEF ScreenOf

LEMMA ScreenRenewed ==
  ASSUME NEW p \in ScreenType, NEW b \in BOOLEAN, NEW q, q = [p EXCEPT !.fresh = b]
  PROVE  /\ q \in ScreenType /\ q.view = p.view /\ q.addr = p.addr /\ q.warn = p.warn
         /\ q.shared = p.shared /\ q.pass = p.pass
<1>1. \A r \in ScreenType, c \in BOOLEAN : [r EXCEPT !.fresh = c] \in ScreenType
  BY DEF ScreenType
<1>2. q \in ScreenType
  BY <1>1
<1> QED
  BY <1>2 DEF ScreenType

LEMMA ScreenDrawn ==
  ASSUME NEW p \in ScreenType, NEW q, q = Drawn(p)
  PROVE  /\ q \in ScreenType /\ q.view = p.view /\ q.addr = p.addr /\ q.warn = p.warn
         /\ q.pass = p.pass /\ (p.shared = Empty => q.shared = Empty)
<1>1. [p EXCEPT !.shared = Empty] \in ScreenType
  BY NothingIsAllowed DEF ScreenType
<1>2. q \in ScreenType
  BY <1>1 DEF Drawn
<1> QED
  BY <1>2 DEF Drawn, ScreenType

\* What a submission is made of.
LEMMA SubmissionIs ==
  ASSUME NEW r \in SubmissionType
  PROVE  /\ r.addr \in Addresses /\ r.warnFor \in Addresses /\ r.warn \in AddressOrNone
         /\ r.shared \in Password /\ r.pass \in Boxes /\ r.full \in Boxes
         /\ Flag(r.url) /\ Flag(r.fresh) /\ Flag(r.edits) /\ Flag(r.found)
<1>1. /\ r.addr \in Addresses /\ r.warnFor \in Addresses /\ r.warn \in AddressOrNone
      /\ r.shared \in Password /\ r.pass \in Boxes /\ r.full \in Boxes
  BY DEF SubmissionType, AddressOrNone, Password
<1>2. Flag(r.url) /\ Flag(r.fresh) /\ Flag(r.edits) /\ Flag(r.found)
  BY DEF SubmissionType, Flag
<1> QED
  BY <1>1, <1>2

\* A warning fits a screen with some address in some program.
Fits(warn, a, program) ==
  /\ warn \in AddressOrNone
  /\ warn # None => warn = Notice(a)
  /\ program = "Connector" => warn = Notice(a)

\* A screen with a warning that fits and what was typed so far is one the operator may have.
LEMMA ScreenIsOK ==
  ASSUME NEW p \in ScreenType, NEW program, NEW typed, NEW account,
         Fits(p.warn, p.addr, program), p.view = "address" => p.warn = None,
         p.pass = typed, p.shared = Empty,
         p.view \notin {"manual", "edit"} => p.pass = NoPasswords,
         p.view = "edit" => program = "Connector" /\ account # None
  PROVE  PageOK(p, program, typed, account)
BY DEF PageOK, Fits

\* An empty screen fits when nothing was typed, and before and after a submission.
LEMMA FreshIsOK ==
  ASSUME NEW v \in Views \ {"edit"}, NEW program, NEW typed, NEW account,
         v \notin {"waiting", "done"} => typed = NoPasswords
  PROVE  PageOK(Fresh(v), program, typed, account) /\ Fresh(v).view = v
<1> DEFINE p == Fresh(v)
<1>1. p \in ScreenType /\ p.view = v /\ p.addr = BlankAddress /\ p.warn = None /\ p.shared = Empty /\ p.pass = NoPasswords
  <2>1. PICK url : url = FALSE /\ Flag(url)
    BY DEF Flag
  <2>2. p = ScreenOf(v, BlankAddress, None, Empty, NoPasswords, url)
    BY <2>1 DEF Fresh
  <2> HIDE DEF p
  <2>3. /\ v \in Views /\ None \in AddressOrNone /\ Empty \in Password
        /\ BlankAddress \in Addresses /\ NoPasswords \in Boxes
    BY MailboxConstants, NothingIsAllowed
  <2> QED
    BY <2>1, <2>2, <2>3, ScreenIs
<1> HIDE DEF p
<1>2. PageOK(p, program, typed, account) /\ p.view = v
  BY <1>1, MailboxConstants DEF PageOK
<1> QED
  BY <1>2 DEF p

LEMMA WaitingIsOK ==
  ASSUME NEW program, NEW typed, NEW account
  PROVE  PageOK(Waiting, program, typed, account) /\ Waiting.view = "waiting"
BY FreshIsOK DEF Waiting, Views

\* The warning of the next screen is about the address submitted, and the one the
\* operator was given if the address is still the same.
LEMMA WarningFits ==
  ASSUME ScreensInv, req # None
  PROVE  /\ Fits(Warning, req.addr, ui) /\ (req.addr = BlankAddress => Warning = None)
         /\ req.warn # None /\ req.addr = req.warnFor => Warning = req.warn
<1>1. RequestOK(req, ui, meant, acct) /\ ui \in {"Wizard", "Connector"}
  BY DEF ScreensInv
<1>3. req.addr \in Addresses /\ req.warn \in AddressOrNone /\ req.warnFor \in Addresses
  BY <1>1, SubmissionIs DEF RequestOK
<1>2. req.warn # None => req.warn = Notice(req.warnFor)
  BY <1>1 DEF RequestOK
<1> QED
  BY <1>1, <1>2, <1>3, MailboxConstants, NoticeIsAnAddress DEF Warning, Carried, Fits

\* The screen after a lookup.
LEMMA LookupScreen ==
  ASSUME NEW a \in Addresses, NEW known, NEW url, Flag(url), NEW warn, NEW program, NEW account,
         Fits(warn, a, program), NEW p, p = Drawn(stepFromLookup(a, Empty, known, url, warn))
  PROVE  PageOK(p, program, NoPasswords, account) /\ (p.view = "address" \/ p.warn = warn)
<1> DEFINE s == stepFromLookup(a, Empty, known, url, warn)
<1>1. PICK no : no = FALSE /\ Flag(no)
  BY DEF Flag
<1>flag. Flag(no)
  BY <1>1
<1>2. warn \in AddressOrNone /\ None \in AddressOrNone /\ Empty \in Password
  BY NothingIsAllowed DEF Fits
<1>3. NoPasswords \in Boxes /\ "address" \in Views /\ "suggestion" \in Views /\ "providers" \in Views
  BY MailboxConstants DEF Views
<1>4. /\ s \in ScreenType /\ s.addr = a /\ s.shared = Empty /\ s.pass = NoPasswords
      /\ s.view \in {"address", "suggestion", "providers"}
      /\ s.view = "address" => s.warn = None /\ a = BlankAddress
      /\ s.view # "address" => s.warn = warn
  <2>1. CASE a = BlankAddress
    <3>1. s = ScreenOf("address", a, None, Empty, NoPasswords, no)
      BY <1>1, <2>1 DEF stepFromLookup
    <3> HIDE DEF s
    <3>2. s \in ScreenType /\ s.view = "address" /\ s.addr = a /\ s.warn = None /\ s.shared = Empty /\ s.pass = NoPasswords
      BY <1>flag, <1>2, <1>3, <3>1, ScreenIs
    <3> QED
      BY <2>1, <3>2
  <2>2. CASE a # BlankAddress /\ known
    <3>1. s = ScreenOf("suggestion", a, warn, Empty, NoPasswords, url)
      BY <2>2 DEF stepFromLookup
    <3> HIDE DEF s
    <3>2. s \in ScreenType /\ s.view = "suggestion" /\ s.addr = a /\ s.warn = warn /\ s.shared = Empty /\ s.pass = NoPasswords
      BY <1>2, <1>3, <3>1, ScreenIs
    <3> QED
      BY <3>2
  <2>3. CASE a # BlankAddress /\ ~known
    <3>1. s = ScreenOf("providers", a, warn, Empty, NoPasswords, no)
      BY <1>1, <2>3 DEF stepFromLookup
    <3> HIDE DEF s
    <3>2. s \in ScreenType /\ s.view = "providers" /\ s.addr = a /\ s.warn = warn /\ s.shared = Empty /\ s.pass = NoPasswords
      BY <1>flag, <1>2, <1>3, <3>1, ScreenIs
    <3> QED
      BY <3>2
  <2> QED
    BY <2>1, <2>2, <2>3
<1> HIDE DEF s
<1>5. /\ p \in ScreenType /\ p.view = s.view /\ p.addr = a /\ p.warn = s.warn
      /\ p.pass = NoPasswords /\ p.shared = Empty
  BY <1>4, ScreenDrawn DEF s
<1>6. Fits(p.warn, p.addr, program)
  BY <1>4, <1>5, MailboxConstants DEF Fits
<1> QED
  BY <1>4, <1>5, <1>6, ScreenIsOK

\* The screen after a provider is chosen, or none.
LEMMA ProviderScreen ==
  ASSUME NEW a \in Addresses, NEW listed, NEW url, Flag(url), NEW warn, NEW program, NEW account,
         Fits(warn, a, program), a = BlankAddress => warn = None,
         NEW p, p = Drawn(stepFromProvider(a, Empty, listed, url, warn))
  PROVE  PageOK(p, program, NoPasswords, account) /\ p.warn = warn
<1> DEFINE s == stepFromProvider(a, Empty, listed, url, warn)
<1>1. PICK no : no = FALSE /\ Flag(no)
  BY DEF Flag
<1>flag. Flag(no)
  BY <1>1
<1>2. warn \in AddressOrNone /\ None \in AddressOrNone /\ Empty \in Password
  BY NothingIsAllowed DEF Fits
<1>views. "manual" \in Views /\ "providers" \in Views
  BY DEF Views
<1>3. /\ NoPasswords \in Boxes
      /\ spreadSharedPassword(NoPasswords, url, Empty) = NoPasswords
  BY MailboxConstants, NothingIsAllowed, BoxesFilled
<1>4. /\ s \in ScreenType /\ s.addr = a /\ s.shared = Empty /\ s.pass = NoPasswords
      /\ s.view \in {"manual", "providers"} /\ s.warn = warn
  <2>1. CASE a = BlankAddress \/ ~listed
    <3>1. s = ScreenOf("providers", a, warn, Empty, NoPasswords, no)
      BY <1>1, <2>1 DEF stepFromProvider
    <3> HIDE DEF s
    <3> QED
      BY <1>flag, <1>2, <1>3, <1>views, <3>1, ScreenIs
  <2>2. CASE a # BlankAddress /\ listed
    <3>1. s = ScreenOf("manual", a, warn, Empty, NoPasswords, url)
      BY <1>3, <2>2 DEF stepFromProvider
    <3> HIDE DEF s
    <3> QED
      BY <1>2, <1>3, <1>views, <3>1, ScreenIs
  <2> QED
    BY <2>1, <2>2
<1> HIDE DEF s
<1>5. /\ p \in ScreenType /\ p.view = s.view /\ p.addr = a /\ p.warn = warn
      /\ p.pass = NoPasswords /\ p.shared = Empty
  BY <1>4, ScreenDrawn DEF s
<1> QED
  BY <1>4, <1>5, ScreenIsOK

\* The full form, from another screen or drawn again.
LEMMA FormScreen ==
  ASSUME NEW view \in {"manual", "edit"}, NEW a \in Addresses, NEW warn, NEW pass \in Boxes,
         NEW url, Flag(url), NEW program, NEW account, Fits(warn, a, program),
         view = "edit" => program = "Connector" /\ account # None,
         NEW p, p = ScreenOf(view, a, warn, Empty, pass, url)
  PROVE  p \in ScreenType /\ PageOK(p, program, pass, account) /\ p.warn = warn
<1>1. warn \in AddressOrNone /\ Empty \in Password /\ view \in Views
  BY NothingIsAllowed DEF Fits, Views
<1>2. p \in ScreenType /\ p.view = view /\ p.addr = a /\ p.warn = warn /\ p.shared = Empty /\ p.pass = pass
  BY <1>1, ScreenIs
<1> QED
  BY <1>2, ScreenIsOK

\* Only the stamp of a screen changes.
LEMMA SameScreen ==
  ASSUME NEW p \in ScreenType, NEW program, NEW typed, NEW account, PageOK(p, program, typed, account),
         NEW b \in BOOLEAN, NEW q, q = [p EXCEPT !.fresh = b]
  PROVE  PageOK(q, program, typed, account) /\ q.warn = p.warn /\ q.view = p.view
BY ScreenRenewed DEF PageOK

\* A submission, as it is posted from a screen.
LEMMA Posted ==
  ASSUME ScreensInv, NEW act \in {"lookup", "provider", "edit", "test", "save", "anyway"},
         NEW at \in {"lookup", "cascade", "parse"}, NEW a \in Addresses, NEW shared \in Password,
         NEW pass \in Boxes, NEW url, Flag(url), Post(act, at, a, shared, pass, url),
         at = "lookup" => page.view = "address",
         at \in {"lookup", "cascade"} => pass = NoPasswords /\ (at = "lookup" \/ act # "edit" => shared = Empty),
         UNCHANGED <<ui, acct>>, meant' \in Boxes, meant' = spreadSharedPassword(pass, url, shared),
         LookOK(look')
  PROVE  ScreensInv'
<1> DEFINE warn == IF ui = "Wizard" THEN page.warn ELSE None
           editing == page.view = "edit"
<1>1. /\ PageOK(page, ui, meant, acct) /\ page \in ScreenType /\ page.warn \in AddressOrNone
      /\ page.addr \in Addresses /\ ui \in {"Wizard", "Connector"} /\ acct \in AccountType \cup {None}
  BY DEF ScreensInv, PageOK, ScreenType
<1>2. warn \in AddressOrNone /\ (at = "lookup" => warn = None)
      /\ (warn # None => warn = Notice(page.addr))
  <2>1. /\ page.view = "address" => page.warn = None
        /\ page.warn # None => page.warn = Notice(page.addr)
    BY <1>1 DEF PageOK
  <2> QED
    BY <1>1, <2>1, NothingIsAllowed
<1>3. editing => ui = "Connector" /\ acct # None
  BY <1>1 DEF PageOK
<1>4. page.fresh \in BOOLEAN
  BY <1>1 DEF ScreenType
<1>5. /\ page' = Waiting
      /\ req' = [act |-> act, at |-> at, addr |-> a, shared |-> shared, pass |-> pass, url |-> url,
                 warn |-> warn, warnFor |-> page.addr, fresh |-> page.fresh, edits |-> editing,
                 full |-> NoPasswords, found |-> FALSE, ok |-> {}]
  BY DEF Post
<1>6. PICK ed \in BOOLEAN : ed = editing
  OBVIOUS
<1>7. req' = [act |-> act, at |-> at, addr |-> a, shared |-> shared, pass |-> pass, url |-> url,
              warn |-> warn, warnFor |-> page.addr, fresh |-> page.fresh, edits |-> ed,
              full |-> NoPasswords, found |-> FALSE, ok |-> {}]
  BY <1>5, <1>6
<1> HIDE DEF warn, editing
<1>8. /\ req'.act = act /\ req'.at = at /\ req'.addr = a /\ req'.shared = shared /\ req'.pass = pass
      /\ req'.url = url /\ req'.warn = warn /\ req'.warnFor = page.addr
  BY <1>7
<1>9. req'.edits = ed
  BY <1>7
<1>10. req' \in SubmissionType
  <2>1. \A b, c, d \in BOOLEAN :
          [act |-> act, at |-> at, addr |-> a, shared |-> shared, pass |-> pass, url |-> b,
           warn |-> warn, warnFor |-> page.addr, fresh |-> c, edits |-> d,
           full |-> NoPasswords, found |-> FALSE, ok |-> {}] \in SubmissionType
    BY <1>1, <1>2, MailboxConstants DEF SubmissionType, AddressOrNone, Password
  <2>2. url \in BOOLEAN
    BY DEF Flag
  <2> QED
    BY <1>4, <1>6, <1>7, <2>1, <2>2
<1>11. req'.edits => ui = "Connector" /\ acct # None
  BY <1>3, <1>6, <1>9
<1>12. RequestOK(req', ui, meant', acct)
  <2>1. req'.at \notin WasRead
    BY <1>8 DEF WasRead
  <2>2. req'.at \in {"lookup", "looked", "cascade"} => at \in {"lookup", "cascade"}
    BY <1>8
  <2> QED
    BY <1>2, <1>8, <1>10, <1>11, <2>1, <2>2 DEF RequestOK
<1>13. PageOK(page', ui, meant', acct) /\ page'.view = "waiting"
  BY <1>5, WaitingIsOK
<1> QED
  BY <1>1, <1>12, <1>13 DEF ScreensInv

LEMMA ScreensStart == ScreensInit => ScreensInv
<1> SUFFICES ASSUME ScreensInit PROVE ScreensInv
  OBVIOUS
<1> DEFINE some == CHOOSE a \in Addresses \ {BlankAddress} : TRUE
           written == [addr |-> some, pass |-> [s \in Services |-> IF s \in Mail THEN Right ELSE Empty], url |-> FALSE]
<1>1. some \in Addresses
  BY AddMailboxAssumption
<1>2. written \in AccountType
  <2>1. [s \in Services |-> IF s \in Mail THEN Right ELSE Empty] \in Boxes
    BY AddMailboxAssumption DEF Boxes
  <2> HIDE DEF some
  <2> QED
    BY <1>1, <2>1 DEF AccountType
<1>3. /\ ui \in {"Wizard", "Connector"} /\ page = Fresh("address") /\ req = None /\ meant = NoPasswords /\ look = Idle
      /\ acct \in {None, written}
  BY DEF ScreensInit
<1>4. "address" \in Views \ {"edit"}
  BY DEF Views
<1>5. PageOK(page, ui, meant, acct)
  BY <1>3, <1>4, FreshIsOK
<1> HIDE DEF written
<1> QED
  BY <1>2, <1>3, <1>5, IdleIsOK, MailboxConstants DEF ScreensInv

\* Nothing is in flight when the operator acts.
LEMMA LinkFollowed ==
  ASSUME ScreensInv, NEW view \in {"address", "providers", "manual"}, Open(view)
  PROVE  ScreensInv' /\ WarningStays
<1>1. view \in Views \ {"edit"}
  BY DEF Views
<1>2. /\ req = None /\ page' = Fresh(view) /\ meant' = NoPasswords
      /\ ui' = ui /\ req' = req /\ acct' = acct /\ look' = look
  BY DEF Open
<1>3. PageOK(page', ui, NoPasswords, acct)
  BY <1>1, <1>2, FreshIsOK
<1> QED
  BY <1>2, <1>3, MailboxConstants DEF ScreensInv, WarningStays

LEMMA EditOpened ==
  ASSUME ScreensInv, OpenEdit
  PROVE  ScreensInv' /\ WarningStays
<1>1. /\ req = None /\ ui = "Connector" /\ acct # None /\ meant' = NoPasswords
      /\ page' = ScreenOf("edit", acct.addr, Notice(acct.addr), Empty, NoPasswords, acct.url)
      /\ ui' = ui /\ req' = req /\ acct' = acct /\ look' = look
  BY DEF OpenEdit
<1>2. acct \in AccountType
  BY <1>1 DEF ScreensInv
<1>3. acct.addr \in Addresses
  BY <1>2 DEF AccountType
<1>4. Flag(acct.url)
  BY <1>2 DEF AccountType, Flag
<1>5. Fits(Notice(acct.addr), acct.addr, ui)
  BY <1>3, NoticeIsAnAddress DEF Fits
<1>6. NoPasswords \in Boxes
  BY MailboxConstants
<1>7. PageOK(page', ui, NoPasswords, acct)
  BY <1>1, <1>3, <1>4, <1>5, <1>6, FormScreen
<1> QED
  BY <1>1, <1>6, <1>7 DEF ScreensInv, WarningStays

LEMMA AddressSubmitted ==
  ASSUME ScreensInv, SubmitAddress
  PROVE  ScreensInv' /\ WarningStays
<1>1. PICK a \in Addresses :
        /\ Post("lookup", "lookup", a, Empty, NoPasswords, FALSE)
        /\ IF ui = "Wizard" /\ a = BlankAddress THEN UNCHANGED look ELSE StartLookup
  BY DEF SubmitAddress
<1>2. req = None /\ page.view = "address" /\ ui' = ui /\ acct' = acct /\ meant' = meant
  BY DEF SubmitAddress
<1>3. meant = NoPasswords
  BY <1>2 DEF ScreensInv, PageOK
<1>4. PICK no : no = FALSE /\ Flag(no)
  BY DEF Flag
<1>5. Post("lookup", "lookup", a, Empty, NoPasswords, no)
  BY <1>1, <1>4
<1>flag. Flag(no)
  BY <1>4
<1>6. LookOK(look')
  <2>1. LookOK(look)
    BY DEF ScreensInv
  <2> QED
    BY <1>1, <2>1, LookupStarts
<1>7. /\ NoPasswords \in Boxes /\ Empty \in Password
      /\ NoPasswords = spreadSharedPassword(NoPasswords, no, Empty)
  BY MailboxConstants, NothingIsAllowed, BoxesFilled
<1>8. ScreensInv'
  BY <1>2, <1>3, <1>5, <1>flag, <1>6, <1>7, Posted
<1> QED
  BY <1>2, <1>8 DEF WarningStays

LEMMA ProviderSubmitted ==
  ASSUME ScreensInv, SubmitProvider
  PROVE  ScreensInv' /\ WarningStays
<1>1. PICK a \in Addresses : Post("provider", "cascade", a, page.shared, NoPasswords, FALSE)
  BY DEF SubmitProvider
<1>2. req = None /\ page.view = "providers" /\ ui' = ui /\ acct' = acct /\ meant' = meant /\ look' = look
  BY DEF SubmitProvider
<1>3. meant = NoPasswords /\ page.shared = Empty
  BY <1>2 DEF ScreensInv, PageOK
<1>4. PICK no : no = FALSE /\ Flag(no)
  BY DEF Flag
<1>5. Post("provider", "cascade", a, Empty, NoPasswords, no)
  BY <1>1, <1>3, <1>4
<1>flag. Flag(no)
  BY <1>4
<1>6. LookOK(look')
  BY <1>2 DEF ScreensInv
<1>7. /\ NoPasswords \in Boxes /\ Empty \in Password
      /\ NoPasswords = spreadSharedPassword(NoPasswords, no, Empty)
  BY MailboxConstants, NothingIsAllowed, BoxesFilled
<1>8. ScreensInv'
  BY <1>2, <1>3, <1>5, <1>flag, <1>6, <1>7, Posted
<1> QED
  BY <1>2, <1>8 DEF WarningStays

LEMMA SuggestionSubmitted ==
  ASSUME ScreensInv, SubmitSuggestion
  PROVE  ScreensInv' /\ WarningStays
<1>1. /\ req = None /\ page.view = "suggestion" /\ ui' = ui /\ acct' = acct /\ look' = look
      /\ page \in ScreenType
  BY DEF SubmitSuggestion, ScreensInv, PageOK
<1>2. meant = NoPasswords /\ page.shared = Empty
  BY <1>1 DEF ScreensInv, PageOK
<1>3. PICK act \in {"save", "edit"}, p \in Passwords \cup {Empty} :
        /\ Post(act, IF act = "edit" THEN "cascade" ELSE "parse", page.addr, p, NoPasswords, page.url)
        /\ Typed(spreadSharedPassword(NoPasswords, page.url, p))
  BY <1>2 DEF SubmitSuggestion
<1>4. page.addr \in Addresses
  BY <1>1 DEF ScreenType
<1>5. Flag(page.url)
  BY <1>1 DEF ScreenType, Flag
<1>6. LookOK(look')
  BY <1>1 DEF ScreensInv
<1>7. p \in Password
  BY DEF Password
<1>8. /\ NoPasswords \in Boxes
      /\ spreadSharedPassword(NoPasswords, page.url, p) \in Boxes
  BY <1>7, MailboxConstants, BoxesFilled
<1>9. meant' = spreadSharedPassword(NoPasswords, page.url, p)
  <2> DEFINE b == spreadSharedPassword(NoPasswords, page.url, p)
  <2>1. b \in Boxes
    BY <1>8
  <2>2. meant' = [s \in Services |-> IF b[s] # Empty THEN b[s] ELSE meant[s]]
    BY <1>3 DEF Typed
  <2> HIDE DEF b
  <2>3. \A s \in Services : (IF b[s] # Empty THEN b[s] ELSE meant[s]) = b[s]
    BY <1>2, MailboxConstants
  <2>4. meant' = b
    BY <2>1, <2>2, <2>3 DEF Boxes
  <2> QED
    BY <2>4 DEF b
<1>10. ScreensInv'
  <2>1. CASE act = "edit"
    <3>1. Post("edit", "cascade", page.addr, p, NoPasswords, page.url)
      BY <1>3, <2>1
    <3> QED
      BY <3>1, <1>1, <1>4, <1>5, <1>6, <1>7, <1>8, <1>9, Posted
  <2>2. CASE act = "save"
    <3>1. Post("save", "parse", page.addr, p, NoPasswords, page.url)
      BY <1>3, <2>2
    <3> QED
      BY <3>1, <1>1, <1>4, <1>5, <1>6, <1>7, <1>8, <1>9, Posted
  <2> QED
    BY <2>1, <2>2
<1> QED
  BY <1>1, <1>10 DEF WarningStays

LEMMA FormSubmitted ==
  ASSUME ScreensInv, SubmitForm
  PROVE  ScreensInv' /\ WarningStays
<1>1. /\ req = None /\ page.view \in {"manual", "edit"} /\ ui' = ui /\ acct' = acct /\ look' = look
  BY DEF SubmitForm
<1>2. page.pass = meant /\ meant \in Boxes
  BY <1>1 DEF ScreensInv, PageOK
<1> DEFINE filled(typed) == [s \in Services |-> IF typed[s] # Empty THEN typed[s] ELSE page.pass[s]]
<1>3. PICK act \in {"test", "save", "anyway"}, a \in Addresses, url \in BOOLEAN, typed \in Boxes :
        Post(act, "parse", a, Empty, filled(typed), url) /\ Typed(typed)
  BY DEF SubmitForm
<1>4. Flag(url)
  BY DEF Flag
<1>5. filled(typed) \in Boxes
  BY <1>2 DEF Boxes
<1>6. meant' = filled(typed)
  BY <1>2, <1>3 DEF Typed
<1> HIDE DEF filled
<1>7. meant' = spreadSharedPassword(filled(typed), url, Empty) /\ Empty \in Password
  BY <1>5, <1>6, NothingIsAllowed, BoxesFilled
<1>8. LookOK(look')
  BY <1>1 DEF ScreensInv
<1>9. ScreensInv'
  BY <1>1, <1>3, <1>4, <1>5, <1>6, <1>7, <1>8, Posted
<1> QED
  BY <1>1, <1>9 DEF WarningStays

\* A screen that answers ends the submission.
LEMMA ScreenAnswers ==
  ASSUME ScreensInv, req # None, NEW p, Answer(p), PageOK(p, ui, meant, acct),
         (req.warn # None /\ req.addr = req.warnFor /\ p.view \notin {"address", "done"}) => p.warn = req.warn,
         UNCHANGED <<ui, acct, meant>>, LookOK(look')
  PROVE  ScreensInv' /\ WarningStays
<1>1. page' = p /\ req' = None
  BY DEF Answer
<1> QED
  BY <1>1 DEF ScreensInv, WarningStays

\* The lookup is heard of, or given up: nothing is on the screen yet.
LEMMA LookupHeard ==
  ASSUME ScreensInv, HearLookup
  PROVE  ScreensInv' /\ WarningStays
<1>1. req # None /\ req.at = "lookup" /\ look' = Idle /\ UNCHANGED <<ui, page, acct, meant>>
  BY DEF HearLookup
<1>2. RequestOK(req, ui, meant, acct) /\ LookOK(look) /\ page.view = "waiting" /\ req \in SubmissionType
  BY <1>1 DEF ScreensInv, RequestOK
<1>3. /\ req.warn = None /\ req.pass = NoPasswords /\ req.shared = Empty
      /\ meant = spreadSharedPassword(req.pass, req.url, req.shared)
      /\ req.edits => ui = "Connector" /\ acct # None
  BY <1>1, <1>2 DEF RequestOK
<1>4. req.addr \in Addresses /\ Flag(req.url) /\ Flag(req.found)
  BY <1>2, SubmissionIs
<1>5. meant = NoPasswords
  BY <1>3, MailboxConstants, NothingIsAllowed, BoxesFilled
<1>6. look.caldav \in BOOLEAN
  BY <1>2 DEF LookOK, LookType
<1>7. PICK found \in BOOLEAN, url \in BOOLEAN, warn \in AddressOrNone :
        /\ warn # None => warn = Notice(req.addr)
        /\ req' = [req EXCEPT !.at = "looked", !.found = found, !.url = url, !.warn = warn, !.warnFor = req.addr]
  <2>1. CASE req' = [req EXCEPT !.at = "looked", !.found = look.at = "found", !.url = look.caldav,
                                !.warn = Notice(req.addr), !.warnFor = req.addr]
    <3>1. Notice(req.addr) \in AddressOrNone
      BY <1>4, NoticeIsAnAddress
    <3>2. PICK found \in BOOLEAN : found = (look.at = "found")
      OBVIOUS
    <3>3. req' = [req EXCEPT !.at = "looked", !.found = found, !.url = look.caldav,
                             !.warn = Notice(req.addr), !.warnFor = req.addr]
      BY <2>1, <3>2
    <3> QED
      BY <1>6, <3>1, <3>3
  <2>2. CASE req' = [req EXCEPT !.at = "looked", !.warnFor = req.addr]
    <3>1. PICK found \in BOOLEAN, url \in BOOLEAN : found = req.found /\ url = req.url
      BY <1>4 DEF Flag
    <3>2. PICK warn \in AddressOrNone : warn = req.warn /\ warn = None
      BY <1>3, NothingIsAllowed
    <3>3. req' = [req EXCEPT !.at = "looked", !.found = found, !.url = url, !.warn = warn, !.warnFor = req.addr]
      BY <1>2, <2>2, <3>1, <3>2 DEF SubmissionType
    <3> QED
      BY <3>2, <3>3
  <2> QED
    BY <2>1, <2>2 DEF HearLookup
<1>8. PICK r : r = req'
  OBVIOUS
<1>9. r \in SubmissionType
  <2>1. \A x \in SubmissionType, b, c \in BOOLEAN : [x EXCEPT !.found = b, !.url = c] \in SubmissionType
    BY DEF SubmissionType
  <2>2. \A x \in SubmissionType, w \in AddressOrNone, a \in Addresses :
          [x EXCEPT !.at = "looked", !.warn = w, !.warnFor = a] \in SubmissionType
    BY DEF SubmissionType, AddressOrNone
  <2>3. r = [[req EXCEPT !.found = found, !.url = url] EXCEPT !.at = "looked", !.warn = warn, !.warnFor = req.addr]
    BY <1>2, <1>7, <1>8 DEF SubmissionType
  <2> QED
    BY <1>2, <1>4, <2>1, <2>2, <2>3
<1>10. /\ r.at = "looked" /\ r.warn = warn /\ r.warnFor = req.addr /\ r.pass = req.pass /\ r.shared = req.shared
  BY <1>2, <1>7, <1>8 DEF SubmissionType
<1>11. r.edits = req.edits
  BY <1>2, <1>7, <1>8 DEF SubmissionType
<1>12. spreadSharedPassword(r.pass, r.url, r.shared) = meant
  BY <1>3, <1>5, <1>10, MailboxConstants, NothingIsAllowed, BoxesFilled
<1>13. RequestOK(r, ui, meant, acct)
  BY <1>3, <1>7, <1>9, <1>10, <1>11, <1>12 DEF RequestOK, WasRead
<1>14. r # None
  BY <1>9, NoneAssumption
<1> QED
  BY <1>1, <1>2, <1>8, <1>13, <1>14, IdleIsOK DEF ScreensInv, WarningStays

\* The form that stands for the list has the warning that came with the address.
LEMMA WithoutTheListIsOK ==
  ASSUME ScreensInv, req # None, req.shared = Empty, meant = NoPasswords
  PROVE  PageOK(WithoutTheList, ui, meant, acct) /\ WithoutTheList.warn = Warning
<1>1. req.addr \in Addresses
  BY SubmissionIs DEF ScreensInv, RequestOK
<1>2. Fits(Warning, req.addr, ui)
  BY WarningFits
<1>3. PICK no : no = FALSE /\ Flag(no)
  BY DEF Flag
<1>flag. Flag(no)
  BY <1>3
<1>4. spreadSharedPassword(NoPasswords, no, Empty) = NoPasswords /\ NoPasswords \in Boxes
  BY MailboxConstants, NothingIsAllowed, BoxesFilled
<1>5. PICK p : p = ScreenOf("manual", req.addr, Warning, Empty, NoPasswords, no) /\ p = WithoutTheList
  BY <1>3, <1>4 DEF WithoutTheList
<1>form. p = ScreenOf("manual", req.addr, Warning, Empty, NoPasswords, no)
  BY <1>5
<1>6. "manual" \in {"manual", "edit"} /\ "manual" # "edit"
  OBVIOUS
<1>7. PageOK(p, ui, NoPasswords, acct) /\ p.warn = Warning
  BY <1>1, <1>2, <1>flag, <1>4, <1>form, <1>6, FormScreen
<1> QED
  BY <1>5, <1>7

LEMMA LookupAnswered ==
  ASSUME ScreensInv, AnswerLookup
  PROVE  ScreensInv' /\ WarningStays
<1>1. req # None /\ req.at = "looked" /\ look' = look /\ ui' = ui /\ acct' = acct /\ meant' = meant
  BY DEF AnswerLookup
<1>2. RequestOK(req, ui, meant, acct) /\ LookOK(look')
  BY <1>1 DEF ScreensInv
<1>3. req \in SubmissionType /\ req.pass = NoPasswords /\ req.shared = Empty
      /\ meant = spreadSharedPassword(req.pass, req.url, req.shared)
  BY <1>1, <1>2 DEF RequestOK
<1>4. req.addr \in Addresses /\ Flag(req.url)
  BY <1>3, SubmissionIs
<1>5. meant = NoPasswords
  BY <1>3, MailboxConstants, NothingIsAllowed, BoxesFilled
<1>6. /\ Fits(Warning, req.addr, ui)
      /\ req.warn # None /\ req.addr = req.warnFor => Warning = req.warn
  BY <1>1, WarningFits
<1>7. Answer(Drawn(stepFromLookup(req.addr, Empty, req.found, req.url, Warning))) \/ Answer(WithoutTheList)
  BY <1>3 DEF AnswerLookup
<1>8. CASE Answer(Drawn(stepFromLookup(req.addr, Empty, req.found, req.url, Warning)))
  <2>1. PICK p : p = Drawn(stepFromLookup(req.addr, Empty, req.found, req.url, Warning)) /\ Answer(p)
    BY <1>8
  <2>2. PageOK(p, ui, meant, acct) /\ (p.view = "address" \/ p.warn = Warning)
    BY <1>4, <1>5, <1>6, <2>1, LookupScreen
  <2> QED
    BY <1>1, <1>2, <1>6, <2>1, <2>2, ScreenAnswers
<1>9. CASE Answer(WithoutTheList)
  BY <1>1, <1>2, <1>3, <1>5, <1>6, <1>9, WithoutTheListIsOK, ScreenAnswers
<1> QED
  BY <1>7, <1>8, <1>9

LEMMA ProviderAnswered ==
  ASSUME ScreensInv, AnswerProvider
  PROVE  ScreensInv' /\ WarningStays
<1>1. req # None /\ req.at = "cascade" /\ req.act = "provider" /\ ui' = ui /\ acct' = acct /\ meant' = meant /\ look' = look
  BY DEF AnswerProvider
<1>2. RequestOK(req, ui, meant, acct) /\ LookOK(look')
  BY <1>1 DEF ScreensInv
<1>3. req \in SubmissionType /\ req.pass = NoPasswords /\ req.shared = Empty
      /\ meant = spreadSharedPassword(req.pass, req.url, req.shared)
  BY <1>1, <1>2 DEF RequestOK
<1>4. req.addr \in Addresses
  BY <1>3, SubmissionIs
<1>5. meant = NoPasswords
  BY <1>3, MailboxConstants, NothingIsAllowed, BoxesFilled
<1>6. /\ Fits(Warning, req.addr, ui) /\ (req.addr = BlankAddress => Warning = None)
      /\ req.warn # None /\ req.addr = req.warnFor => Warning = req.warn
  BY <1>1, WarningFits
<1>7. \/ \E listed, url \in BOOLEAN : Answer(Drawn(stepFromProvider(req.addr, Empty, listed, url, Warning)))
      \/ Answer(WithoutTheList)
  BY <1>3 DEF AnswerProvider
<1>8. CASE \E listed, url \in BOOLEAN : Answer(Drawn(stepFromProvider(req.addr, Empty, listed, url, Warning)))
  <2>1. PICK listed, url, p : Flag(url) /\ p = Drawn(stepFromProvider(req.addr, Empty, listed, url, Warning)) /\ Answer(p)
    BY <1>8 DEF Flag
  <2>2. PageOK(p, ui, meant, acct) /\ p.warn = Warning
    BY <1>4, <1>5, <1>6, <2>1, ProviderScreen
  <2> QED
    BY <1>1, <1>2, <1>6, <2>1, <2>2, ScreenAnswers
<1>9. CASE Answer(WithoutTheList)
  BY <1>1, <1>2, <1>3, <1>5, <1>6, <1>9, WithoutTheListIsOK, ScreenAnswers
<1> QED
  BY <1>7, <1>8, <1>9

LEMMA EditAnswered ==
  ASSUME ScreensInv, AnswerEdit
  PROVE  ScreensInv' /\ WarningStays
<1>1. req # None /\ req.at = "cascade" /\ ui' = ui /\ acct' = acct /\ meant' = meant /\ look' = look
  BY DEF AnswerEdit
<1>2. RequestOK(req, ui, meant, acct) /\ LookOK(look') /\ meant \in Boxes
  BY <1>1 DEF ScreensInv
<1>3. req \in SubmissionType /\ req.pass = NoPasswords
      /\ meant = spreadSharedPassword(req.pass, req.url, req.shared)
  BY <1>1, <1>2 DEF RequestOK
<1>4. req.addr \in Addresses /\ Flag(req.url)
  BY <1>3, SubmissionIs
<1>6. /\ Fits(Warning, req.addr, ui) /\ (req.addr = BlankAddress => Warning = None)
      /\ req.warn # None /\ req.addr = req.warnFor => Warning = req.warn
  BY <1>1, WarningFits
<1>7. PICK p : p = ScreenOf("manual", req.addr, Warning, Empty, meant, req.url) /\ Answer(p)
  BY <1>3, <1>6 DEF AnswerEdit, stepFromEdit
<1>8. "manual" \in {"manual", "edit"} /\ "manual" # "edit"
  OBVIOUS
<1>9. PageOK(p, ui, meant, acct) /\ p.warn = Warning
  BY <1>2, <1>4, <1>6, <1>7, <1>8, FormScreen
<1> QED
  BY <1>1, <1>2, <1>6, <1>7, <1>9, ScreenAnswers

\* The form drawn again holds what was typed.
LEMMA CarriedScreen ==
  ASSUME ScreensInv, req # None, req.at \in WasRead,
         NEW warn, Fits(warn, req.addr, ui), NEW to \in BOOLEAN, NEW p, p = withCarriedPasswords(warn, to)
  PROVE  PageOK(p, ui, meant, acct) /\ p.warn = warn
<1>1. RequestOK(req, ui, meant, acct) /\ meant \in Boxes
  BY DEF ScreensInv
<1>2. req \in SubmissionType /\ req.shared = Empty /\ spreadSharedPassword(req.pass, req.url, req.shared) = meant
      /\ (req.edits => ui = "Connector" /\ acct # None)
  BY <1>1 DEF RequestOK
<1>3. req.addr \in Addresses /\ Flag(req.url) /\ req.pass \in Boxes
  BY <1>2, SubmissionIs
<1>4. req.pass = meant
  BY <1>2, <1>3, NothingIsAllowed, BoxesFilled
<1> DEFINE view == IF req.edits THEN "edit" ELSE "manual"
<1>5. view \in {"manual", "edit"} /\ (view = "edit" => ui = "Connector" /\ acct # None)
  BY <1>2
<1>6. PICK q : q = ScreenOf(view, req.addr, warn, Empty, meant, req.url) /\ p = [q EXCEPT !.fresh = to]
  BY <1>4 DEF withCarriedPasswords
<1> HIDE DEF view
<1>form. q = ScreenOf(view, req.addr, warn, Empty, meant, req.url)
  BY <1>6
<1>7. q \in ScreenType /\ PageOK(q, ui, meant, acct) /\ q.warn = warn
  BY <1>1, <1>3, <1>5, <1>form, FormScreen
<1> QED
  BY <1>6, <1>7, SameScreen

\* An answer with the form: a warning that fits and is the one given before.
LEMMA FormAnswered ==
  ASSUME ScreensInv, req # None, req.at \in WasRead,
         NEW warn, Fits(warn, req.addr, ui), req.warn # None /\ req.addr = req.warnFor => warn = req.warn,
         NEW to \in BOOLEAN, Answer(withCarriedPasswords(warn, to)),
         UNCHANGED <<ui, acct, meant, look>>
  PROVE  ScreensInv' /\ WarningStays
<1>1. PICK p : p = withCarriedPasswords(warn, to) /\ Answer(p)
  OBVIOUS
<1>2. PageOK(p, ui, meant, acct) /\ p.warn = warn
  BY <1>1, CarriedScreen
<1>3. LookOK(look')
  BY DEF ScreensInv
<1> QED
  BY <1>1, <1>2, <1>3, ScreenAnswers

\* A refused draft names the notice of its address.
LEMMA DraftRefused ==
  ASSUME ScreensInv, req # None, req.at \in WasRead,
         NEW to \in BOOLEAN, Answer(Refused(to)), UNCHANGED <<ui, acct, meant, look>>
  PROVE  ScreensInv' /\ WarningStays
<1> DEFINE warn == IF Notice(req.addr) # None THEN Notice(req.addr) ELSE Warning
<1>1. RequestOK(req, ui, meant, acct)
  BY DEF ScreensInv
<1>2. req.addr \in Addresses /\ (req.warn # None => req.warn = Notice(req.warnFor))
  BY <1>1, SubmissionIs DEF RequestOK
<1>3. Fits(Warning, req.addr, ui) /\ (req.warn # None /\ req.addr = req.warnFor => Warning = req.warn)
  BY WarningFits
<1>4. Fits(warn, req.addr, ui)
  BY <1>2, <1>3, NoticeIsAnAddress DEF Fits
<1>5. req.warn # None /\ req.addr = req.warnFor => warn = req.warn
  BY <1>2, <1>3
<1>6. Answer(withCarriedPasswords(warn, to))
  BY DEF Refused
<1> HIDE DEF warn
<1> QED
  BY <1>4, <1>5, <1>6, FormAnswered

LEMMA RefuseAnswered ==
  ASSUME ScreensInv, Refuse
  PROVE  ScreensInv' /\ WarningStays
<1>1. req # None /\ UNCHANGED <<ui, acct, meant, look>>
  BY DEF Refuse
<1>2. RequestOK(req, ui, meant, acct)
  BY <1>1 DEF ScreensInv
<1>3. PICK to \in BOOLEAN : to = req.fresh
  BY <1>2, SubmissionIs DEF RequestOK, Flag
<1>4. /\ Fits(Warning, req.addr, ui)
      /\ req.warn # None /\ req.addr = req.warnFor => Warning = req.warn
  BY <1>1, WarningFits
<1>5. CASE req.at = "refuse" /\ Answer(Refused(req.fresh))
  <2>1. req.at \in WasRead /\ Answer(Refused(to))
    BY <1>3, <1>5 DEF WasRead
  <2> QED
    BY <1>1, <1>3, <2>1, DraftRefused
<1>6. CASE req.at \in {"refuse", "check", "probe", "write"} /\ Answer(withCarriedPasswords(Warning, req.fresh))
  <2>1. req.at \in WasRead /\ Answer(withCarriedPasswords(Warning, to))
    BY <1>3, <1>6 DEF WasRead
  <2> QED
    BY <1>1, <1>3, <1>4, <2>1, FormAnswered
<1> QED
  BY <1>5, <1>6 DEF Refuse

LEMMA TestAnswered ==
  ASSUME ScreensInv, AnswerTest
  PROVE  ScreensInv' /\ WarningStays
<1>1. req # None /\ UNCHANGED <<ui, acct, meant, look>> /\ req.at \in WasRead
  BY DEF AnswerTest, WasRead
<1>2. RequestOK(req, ui, meant, acct)
  BY <1>1 DEF ScreensInv
<1>3. PICK to \in BOOLEAN : to = req.fresh
  BY <1>2, SubmissionIs DEF RequestOK, Flag
<1>4. /\ Fits(Warning, req.addr, ui)
      /\ req.warn # None /\ req.addr = req.warnFor => Warning = req.warn
  BY <1>1, WarningFits
<1>5. Answer(withCarriedPasswords(Warning, to))
  BY <1>3 DEF AnswerTest
<1> QED
  BY <1>1, <1>3, <1>4, <1>5, FormAnswered

\* A submission that goes on towards its test, or the write.
LEMMA SubmissionGoesOn ==
  ASSUME ScreensInv, req # None, req.at \in WasRead \ {"refuse"}, NEW at \in WasRead,
         NEW ok \in SUBSET Services,
         req' = [req EXCEPT !.at = at, !.ok = ok],
         UNCHANGED <<ui, page, acct, meant, look>>
  PROVE  ScreensInv' /\ WarningStays
<1>1. RequestOK(req, ui, meant, acct)
  BY DEF ScreensInv
<1>2. req \in SubmissionType
  BY <1>1 DEF RequestOK
<1>3. PICK r : r = req'
  OBVIOUS
<1>4. r \in SubmissionType
  <2>1. \A x \in SubmissionType : [x EXCEPT !.at = at, !.ok = ok] \in SubmissionType
    BY DEF SubmissionType, WasRead
  <2> QED
    BY <1>2, <1>3, <2>1
<1>5. /\ r.at = at /\ r.act = req.act /\ r.addr = req.addr /\ r.warn = req.warn /\ r.warnFor = req.warnFor
      /\ r.shared = req.shared /\ r.pass = req.pass /\ r.full = req.full
  BY <1>2, <1>3 DEF SubmissionType
<1>6. r.url = req.url
  BY <1>2, <1>3 DEF SubmissionType
<1>7. r.fresh = req.fresh
  BY <1>2, <1>3 DEF SubmissionType
<1>8. r.edits = req.edits
  BY <1>2, <1>3 DEF SubmissionType
<1>9. FullOK(r, meant, acct)
  <2>1. FullOK(req, meant, acct)
    BY <1>1 DEF RequestOK
  <2> QED
    BY <2>1, <1>5, <1>6, <1>7, <1>8 DEF FullOK
<1>10. /\ r.warn # None => r.warn = Notice(r.warnFor)
       /\ r.shared = Empty
       /\ r.at \notin {"lookup", "looked", "cascade"}
  BY <1>1, <1>5 DEF RequestOK, WasRead
<1>11. r.edits => ui = "Connector" /\ acct # None
  BY <1>1, <1>8 DEF RequestOK
<1>12. spreadSharedPassword(r.pass, r.url, r.shared) = meant
  BY <1>1, <1>5, <1>6 DEF RequestOK
<1>13. RequestOK(r, ui, meant, acct)
  BY <1>4, <1>5, <1>9, <1>10, <1>11, <1>12 DEF RequestOK
<1>14. req' # None
  BY <1>3, <1>4, NoneAssumption
<1> QED
  BY <1>3, <1>13, <1>14 DEF ScreensInv, WarningStays

LEMMA UrlChecked ==
  ASSUME ScreensInv, CheckUrl
  PROVE  ScreensInv' /\ WarningStays
<1>1. req # None /\ req.at = "check" /\ UNCHANGED <<ui, page, acct, meant, look>>
  BY DEF CheckUrl
<1>2. PICK at \in {"refuse", "write", "probe"} : req' = [req EXCEPT !.at = at]
  BY DEF CheckUrl
<1>3. req \in SubmissionType
  BY <1>1 DEF ScreensInv, RequestOK
<1>4. req.ok \in SUBSET Services /\ req' = [req EXCEPT !.at = at, !.ok = req.ok]
  BY <1>2, <1>3 DEF SubmissionType
<1>5. at \in WasRead /\ req.at \in WasRead \ {"refuse"}
  BY <1>1, <1>2 DEF WasRead
<1> QED
  BY <1>1, <1>4, <1>5, SubmissionGoesOn

LEMMA ProbeEnded ==
  ASSUME ScreensInv, Probe
  PROVE  ScreensInv' /\ WarningStays
<1>1. req # None /\ req.at = "probe" /\ UNCHANGED <<ui, page, acct, meant, look>>
  BY DEF Probe
<1>2. PICK up \in SUBSET Services : req' = [req EXCEPT !.at = "probed", !.ok = probeAccount(up)]
  BY DEF Probe
<1>3. probeAccount(up) \in SUBSET Services
  BY DEF probeAccount, probeMail, probeCalDav
<1>4. "probed" \in WasRead /\ req.at \in WasRead \ {"refuse"}
  BY <1>1 DEF WasRead
<1> QED
  BY <1>1, <1>2, <1>3, <1>4, SubmissionGoesOn

LEMMA GatePassed ==
  ASSUME ScreensInv, Gate
  PROVE  ScreensInv' /\ WarningStays
<1>1. req # None /\ UNCHANGED <<ui, acct, meant, look>> /\ req.at = "probed" /\ req.at \in WasRead
  BY DEF Gate, WasRead
<1>2. RequestOK(req, ui, meant, acct)
  BY <1>1 DEF ScreensInv
<1>3. PICK to \in BOOLEAN : to = req.fresh
  BY <1>2, SubmissionIs DEF RequestOK, Flag
<1>4. CASE Answer(Refused(req.fresh))
  <2>1. Answer(Refused(to))
    BY <1>3, <1>4
  <2> QED
    BY <1>1, <1>3, <2>1, DraftRefused
<1>5. CASE req' = [req EXCEPT !.at = "write", !.ok = {}] /\ UNCHANGED page
  <2>1. "write" \in WasRead /\ req.at \in WasRead \ {"refuse"} /\ {} \in SUBSET Services
    BY <1>1 DEF WasRead
  <2>2. UNCHANGED <<ui, page, acct, meant, look>>
    BY <1>1, <1>5
  <2> QED
    BY <1>1, <1>5, <2>1, <2>2, SubmissionGoesOn
<1> QED
  BY <1>4, <1>5 DEF Gate

LEMMA MailboxWritten ==
  ASSUME ScreensInv, Write
  PROVE  ScreensInv' /\ WarningStays
<1>1. req # None /\ UNCHANGED <<ui, meant, look>> /\ req.at = "write" /\ req.at \in WasRead
  BY DEF Write, WasRead
<1>2. RequestOK(req, ui, meant, acct) /\ req \in SubmissionType
  BY <1>1 DEF ScreensInv, RequestOK
<1>3. PICK to \in BOOLEAN : to = req.fresh
  BY <1>2 DEF SubmissionType
<1>4. CASE Answer(Refused(TRUE)) /\ UNCHANGED acct
  <2>1. PICK yes \in BOOLEAN : yes = TRUE
    OBVIOUS
  <2>2. req.at \in WasRead /\ Answer(Refused(yes)) /\ UNCHANGED <<ui, acct, meant, look>>
    BY <1>1, <1>4, <2>1
  <2> QED
    BY <1>1, <2>1, <2>2, DraftRefused
<1>5. CASE Answer(Refused(req.fresh)) /\ UNCHANGED acct
  <2>2. req.at \in WasRead /\ Answer(Refused(to)) /\ UNCHANGED <<ui, acct, meant, look>>
    BY <1>1, <1>3, <1>5
  <2> QED
    BY <1>1, <1>3, <2>2, DraftRefused
<1>6. CASE acct' = [addr |-> req.addr, pass |-> req.full, url |-> req.url] /\ Answer(Done)
  <2>1. acct' \in AccountType
    BY <1>2, <1>6 DEF SubmissionType, AccountType
  <2>2. req' = None /\ page' = Fresh("done")
    BY <1>6 DEF Answer, Done
  <2>3. "done" \in Views \ {"edit"}
    BY DEF Views
  <2>4. PageOK(page', ui, meant, acct') /\ page'.view = "done"
    BY <2>2, <2>3, FreshIsOK
  <2>5. ScreensInv'
    BY <1>1, <2>1, <2>2, <2>4 DEF ScreensInv
  <2> QED
    BY <2>4, <2>5 DEF WarningStays
<1> QED
  BY <1>4, <1>5, <1>6 DEF Write

\* Another tab's save takes the stamp from the form on the screen and from the
\* submission in flight.
LEMMA OtherTabSaved ==
  ASSUME ScreensInv, OtherSave
  PROVE  ScreensInv' /\ WarningStays
<1>1. /\ ui = "Connector" /\ acct # None /\ UNCHANGED <<ui, meant, look>>
      /\ req' = IF req = None THEN None ELSE [req EXCEPT !.fresh = FALSE]
      /\ page' = [page EXCEPT !.fresh = FALSE]
  BY DEF OtherSave
<1>2. acct' \in AccountType /\ acct' # None
  <2>1. PICK p \in Passwords : acct' = [acct EXCEPT !.pass = [s \in Services |-> IF @[s] = Empty THEN Empty ELSE p]]
    BY DEF OtherSave
  <2>2. acct \in AccountType
    BY <1>1 DEF ScreensInv
  <2>3. acct.pass \in Boxes
    BY <2>2 DEF AccountType
  <2>4. [s \in Services |-> IF acct.pass[s] = Empty THEN Empty ELSE p] \in Boxes
    BY <2>3 DEF Boxes
  <2>5. \A k \in AccountType, b \in Boxes : [k EXCEPT !.pass = b] \in AccountType
    BY DEF AccountType
  <2>6. acct' = [acct EXCEPT !.pass = [s \in Services |-> IF acct.pass[s] = Empty THEN Empty ELSE p]]
    BY <2>1, <2>2 DEF AccountType
  <2> QED
    BY <2>2, <2>4, <2>5, <2>6, NoneAssumption
<1>3. PICK no \in BOOLEAN : no = FALSE
  OBVIOUS
<1>4. PageOK(page, ui, meant, acct) /\ page \in ScreenType
  BY DEF ScreensInv, PageOK
<1>5. PageOK(page, ui, meant, acct')
  BY <1>1, <1>2, <1>4 DEF PageOK
<1>6. page' = [page EXCEPT !.fresh = no]
  BY <1>1, <1>3
<1>7. PageOK(page', ui, meant, acct') /\ page'.view = page.view
  BY <1>3, <1>4, <1>5, <1>6, SameScreen
<1>8. CASE req = None
  BY <1>1, <1>2, <1>7, <1>8 DEF ScreensInv, WarningStays
<1>9. CASE req # None
  <2>1. RequestOK(req, ui, meant, acct) /\ page.view = "waiting"
    BY <1>9 DEF ScreensInv
  <2>2. req \in SubmissionType
    BY <2>1 DEF RequestOK
  <2>3. PICK r : r = [req EXCEPT !.fresh = no]
    OBVIOUS
  <2>4. req' = r
    BY <1>1, <1>3, <1>9, <2>3
  <2>5. r \in SubmissionType
    <3>1. \A x \in SubmissionType, b \in BOOLEAN : [x EXCEPT !.fresh = b] \in SubmissionType
      BY DEF SubmissionType
    <3> QED
      BY <1>3, <2>2, <2>3, <3>1
  <2>6. /\ r.at = req.at /\ r.act = req.act /\ r.addr = req.addr /\ r.warn = req.warn
        /\ r.warnFor = req.warnFor /\ r.shared = req.shared /\ r.pass = req.pass /\ r.full = req.full
    BY <2>2, <2>3 DEF SubmissionType
  <2>7. r.url = req.url
    BY <2>2, <2>3 DEF SubmissionType
  <2>8. ~r.fresh
    BY <1>3, <2>2, <2>3 DEF SubmissionType
  <2>9. r.edits = req.edits
    BY <2>2, <2>3 DEF SubmissionType
  <2>10. FullOK(req, meant, acct) => FullOK(r, meant, acct')
    BY <2>6, <2>7, <2>8, <2>9 DEF FullOK
  <2>11. r.edits => ui = "Connector" /\ acct' # None
    BY <1>1, <1>2
  <2>12. RequestOK(r, ui, meant, acct')
    BY <2>1, <2>5, <2>6, <2>7, <2>10, <2>11 DEF RequestOK
  <2>13. r # None
    BY <2>5, NoneAssumption
  <2> QED
    BY <1>1, <1>2, <1>7, <2>1, <2>4, <2>12, <2>13 DEF ScreensInv, WarningStays
<1> QED
  BY <1>8, <1>9

\* The form is read: what is to be stored is what was typed, or what is stored.
LEMMA FormParsed ==
  ASSUME ScreensInv, Parse
  PROVE  ScreensInv' /\ WarningStays
<1>1. req # None /\ req.at = "parse" /\ UNCHANGED <<ui, page, acct, meant, look>>
  BY DEF Parse
<1>2. RequestOK(req, ui, meant, acct) /\ req \in SubmissionType /\ meant \in Boxes /\ page.view = "waiting"
  BY <1>1 DEF ScreensInv, RequestOK
<1>3. /\ spreadSharedPassword(req.pass, req.url, req.shared) = meant
      /\ req.edits => ui = "Connector" /\ acct # None
  BY <1>2 DEF RequestOK
<1> DEFINE kept == IF req.edits THEN acct.pass ELSE NoPasswords
           wanted == IF req.url THEN Services ELSE Mail
           filled(pass) == [s \in Services |-> IF pass[s] # Empty THEN pass[s] ELSE kept[s]]
           kind(pass, fine) == IF ~fine \/ \E s \in wanted : filled(pass)[s] = Empty THEN "refuse"
                               ELSE "check"
           read(pass, fine) ==
             [req EXCEPT !.pass = pass, !.shared = Empty,
                         !.full = [s \in Services |-> IF s \in wanted THEN filled(pass)[s] ELSE Empty],
                         !.fresh = @ \/ ui = "Wizard", !.at = kind(pass, fine)]
           full == filled(meant)
           whole == [s \in Services |-> IF s \in wanted THEN full[s] ELSE Empty]
           first == req.fresh \/ ui = "Wizard"
<1>read. PICK fine \in BOOLEAN : req' = read(spreadSharedPassword(req.pass, req.url, req.shared), fine)
  BY DEF Parse
<1>4. req' = read(meant, fine)
  <2> HIDE DEF read
  <2> QED
    BY <1>3, <1>read
<1>5. kept \in Boxes
  <2>1. acct \in AccountType \cup {None}
    BY DEF ScreensInv
  <2>2. req.edits => acct.pass \in Boxes
    BY <1>3, <2>1 DEF AccountType
  <2> QED
    BY <2>2, MailboxConstants
<1>6. whole \in Boxes
  BY <1>2, <1>5 DEF Boxes
<1>7. PICK at \in {"refuse", "check"} :
        /\ at = kind(meant, fine)
        /\ at # "refuse" => \A s \in wanted : full[s] # Empty
  OBVIOUS
<1>8. PICK to \in BOOLEAN : to = first
  OBVIOUS
<1>9. PICK r : r = [req EXCEPT !.pass = meant, !.shared = Empty, !.full = whole, !.fresh = to, !.at = at]
  OBVIOUS
<1>10. req' = r
  <2>1. req' = [req EXCEPT !.pass = meant, !.shared = Empty, !.full = whole, !.fresh = req.fresh \/ ui = "Wizard", !.at = at]
    <3> HIDE DEF filled, kind, wanted, kept
    <3>1. req' = [req EXCEPT !.pass = meant, !.shared = Empty, !.full = whole, !.fresh = @ \/ ui = "Wizard",
                             !.at = kind(meant, fine)]
      BY <1>4
    <3> HIDE DEF full, whole, read
    <3> QED
      BY <1>2, <1>7, <3>1 DEF SubmissionType
  <2> QED
    BY <1>8, <1>9, <2>1
<1>11. \A s \in Services : IF s = Calendar /\ ~req.url THEN whole[s] = Empty
                           ELSE whole[s] = IF meant[s] # Empty THEN meant[s] ELSE kept[s]
  BY AddMailboxAssumption DEF Services
<1>12. at # "refuse" => \A s \in Services : ~(s = Calendar /\ ~req.url) => whole[s] # Empty
  BY <1>7, AddMailboxAssumption DEF Services
<1> HIDE DEF whole, full, filled, kind, read, wanted, kept, first
<1>13. r \in SubmissionType
  <2>1. \A x \in SubmissionType, b \in BOOLEAN : [x EXCEPT !.fresh = b] \in SubmissionType
    BY DEF SubmissionType
  <2>2. \A x \in SubmissionType, a, b \in Boxes : [x EXCEPT !.pass = a, !.full = b] \in SubmissionType
    BY DEF SubmissionType
  <2>3. \A x \in SubmissionType : [x EXCEPT !.shared = Empty, !.at = at] \in SubmissionType
    BY DEF SubmissionType
  <2>4. r = [[[req EXCEPT !.pass = meant, !.full = whole] EXCEPT !.shared = Empty, !.at = at] EXCEPT !.fresh = to]
    BY <1>2, <1>9 DEF SubmissionType
  <2> QED
    BY <1>2, <1>6, <2>1, <2>2, <2>3, <2>4
<1>14. /\ r.at = at /\ r.act = req.act /\ r.addr = req.addr /\ r.warn = req.warn
       /\ r.warnFor = req.warnFor /\ r.shared = Empty /\ r.pass = meant /\ r.full = whole
  BY <1>2, <1>9 DEF SubmissionType
<1>15. r.url = req.url
  BY <1>2, <1>9 DEF SubmissionType
<1>16. r.edits = req.edits
  BY <1>2, <1>9 DEF SubmissionType
<1>17. at # "refuse" => FullOK(r, meant, acct)
  <2> SUFFICES ASSUME at # "refuse", NEW s \in Services
               PROVE  IF s = Calendar /\ ~r.url THEN r.full[s] = Empty
                      ELSE IF meant[s] # Empty THEN r.full[s] = meant[s]
                      ELSE r.edits /\ (r.fresh => r.full[s] = acct.pass[s])
    BY DEF FullOK
  <2>1. CASE s = Calendar /\ ~r.url
    BY <1>11, <1>14, <1>15, <2>1
  <2>2. CASE ~(s = Calendar /\ ~r.url) /\ meant[s] # Empty
    BY <1>11, <1>14, <1>15, <2>2
  <2>3. CASE ~(s = Calendar /\ ~r.url) /\ meant[s] = Empty
    <3>1. r.full[s] = kept[s] /\ kept[s] # Empty
      BY <1>11, <1>12, <1>14, <1>15, <2>3
    <3>2. req.edits /\ kept = acct.pass
      BY <3>1, MailboxConstants DEF kept
    <3> QED
      BY <1>16, <2>3, <3>1, <3>2
  <2> QED
    BY <2>1, <2>2, <2>3
<1>18. spreadSharedPassword(r.pass, r.url, r.shared) = meant
  BY <1>2, <1>14, NothingIsAllowed, BoxesFilled
<1>19. /\ r.warn # None => r.warn = Notice(r.warnFor)
       /\ r.at \notin {"lookup", "looked", "cascade"}
  BY <1>2, <1>14 DEF RequestOK
<1>20. r.edits => ui = "Connector" /\ acct # None
  BY <1>3, <1>16
<1>21. RequestOK(r, ui, meant, acct)
  BY <1>13, <1>14, <1>17, <1>18, <1>19, <1>20 DEF RequestOK
<1>22. r # None
  BY <1>13, NoneAssumption
<1> QED
  BY <1>1, <1>2, <1>10, <1>21, <1>22 DEF ScreensInv, WarningStays

-----------------------------------------------------------------------------
(* Adding a mailbox: the theorems.                                         *)

LEMMA LookupMoved ==
  ASSUME ScreensInv, Lookup
  PROVE  ScreensInv' /\ WarningStays
<1>1. UNCHANGED <<ui, page, req, acct, meant>> /\ LookOK(look')
  BY LookupStays DEF Lookup, ScreensInv
<1> QED
  BY <1>1 DEF ScreensInv, WarningStays

LEMMA ScreensStep == ScreensInv /\ ScreensNext => ScreensInv' /\ WarningStays
<1> SUFFICES ASSUME ScreensInv, ScreensNext PROVE ScreensInv' /\ WarningStays
  OBVIOUS
<1>1. CASE \E v \in {"address", "providers", "manual"} : Open(v)
  BY <1>1, LinkFollowed
<1>2. CASE OpenEdit
  BY <1>2, EditOpened
<1>3. CASE Submitting
  BY <1>3, AddressSubmitted, ProviderSubmitted, SuggestionSubmitted, FormSubmitted DEF Submitting
<1>4. CASE Handling
  BY <1>4, LookupHeard, LookupAnswered, ProviderAnswered, EditAnswered, FormParsed, UrlChecked, RefuseAnswered,
     ProbeEnded, TestAnswered, GatePassed, MailboxWritten DEF Handling
<1>5. CASE Lookup
  BY <1>5, LookupMoved
<1>6. CASE OtherSave
  BY <1>6, OtherTabSaved
<1> QED
  BY <1>1, <1>2, <1>3, <1>4, <1>5, <1>6 DEF ScreensNext

LEMMA ScreensStutter == ScreensInv /\ UNCHANGED screenVars => ScreensInv'
BY DEF screenVars, ScreensInv

LEMMA ScreensInvariance == ScreensSpec => []ScreensInv
<1>1. ScreensInv /\ [ScreensNext]_screenVars => ScreensInv'
  BY ScreensStep, ScreensStutter
<1> QED
  BY <1>1, ScreensStart, PTL DEF ScreensSpec

\* Whatever the servers asked do, a lookup overruns its discovery budget by less than
\* one attempt, and its rivals take no more than their own budget after it
\* (autoconfig.ts's Budget, getGuarded and lookupMailboxSettings).
THEOREM LookupInBudget == ScreensSpec => []LookupKeepsItsBudgets
<1>1. ScreensInv => LookupKeepsItsBudgets
  BY DEF ScreensInv, LookOK, LookupKeepsItsBudgets
<1> QED
  BY <1>1, ScreensInvariance, PTL

\* Every screen an answer draws has the warning of its own address, and keeps the one
\* the operator was given, or the lookup gave, while the address stays (settings-api.ts's
\* cascade, both programs' refusals, an unreachable connector and a list that cannot be
\* had included).
THEOREM WarningsFollow == ScreensSpec => WarningFollowsTheAddress
<1>1. ScreensInv => WarningIsAboutTheScreen
  BY DEF ScreensInv, PageOK, WarningIsAboutTheScreen
<1>2. ScreensInv /\ ScreensInv' /\ [ScreensNext]_screenVars => [WarningIsAboutTheScreen' /\ WarningStays]_screenVars
  <2>1. ScreensInv' => WarningIsAboutTheScreen'
    BY DEF ScreensInv, PageOK, WarningIsAboutTheScreen
  <2> QED
    BY <2>1, ScreensStep
<1> QED
  BY <1>2, ScreensInvariance, PTL DEF ScreensSpec, WarningFollowsTheAddress

\* A mailbox is stored with the passwords last typed for it, a service left blank on an
\* edit keeping the stored one, even when another tab has stored others meanwhile
\* (settings-routes.ts's parseAccountForm and withCarriedPasswords, setup-routes.ts's handleMailbox).
THEOREM MeantIsStored == ScreensSpec => StoredIsMeant
<1> DEFINE kept == (acct' # acct /\ req # None /\ req' = None)
                     => \A s \in Services :
                          acct'.pass[s] = IF s = Calendar /\ ~acct'.url THEN Empty
                                          ELSE IF meant[s] # Empty THEN meant[s] ELSE acct.pass[s]
<1>1. ScreensInv /\ ScreensNext => kept
  <2> SUFFICES ASSUME ScreensInv, ScreensNext, acct' # acct, req # None, req' = None, NEW s \in Services
               PROVE  acct'.pass[s] = IF s = Calendar /\ ~acct'.url THEN Empty
                                      ELSE IF meant[s] # Empty THEN meant[s] ELSE acct.pass[s]
    OBVIOUS
  <2>1. RequestOK(req, ui, meant, acct) /\ req \in SubmissionType
    BY DEF ScreensInv, RequestOK
  <2>2. ~OtherSave
    <3>1. \A x \in SubmissionType, b \in BOOLEAN : [x EXCEPT !.fresh = b] \in SubmissionType
      BY DEF SubmissionType
    <3>2. [req EXCEPT !.fresh = FALSE] # None
      BY <2>1, <3>1, NoneAssumption
    <3> QED
      BY <3>2 DEF OtherSave
  <2>3. Write
    BY <2>2 DEF ScreensNext, Open, OpenEdit, Submitting, SubmitAddress, SubmitProvider, SubmitSuggestion, SubmitForm,
                Handling, HearLookup, AnswerLookup, AnswerProvider, AnswerEdit, Parse, CheckUrl, Refuse, Probe, AnswerTest, Gate, Lookup
  <2>4. req.at = "write" /\ req.fresh /\ acct' = [addr |-> req.addr, pass |-> req.full, url |-> req.url]
    BY <2>3 DEF Write, Holds
  <2>5. IF s = Calendar /\ ~req.url THEN req.full[s] = Empty
        ELSE IF meant[s] # Empty THEN req.full[s] = meant[s] ELSE req.full[s] = acct.pass[s]
    BY <2>1, <2>4 DEF RequestOK, WasRead, FullOK
  <2>6. acct'.pass = req.full /\ acct'.url = req.url
    BY <2>4
  <2> QED
    BY <2>5, <2>6
<1>2. ScreensInv /\ [ScreensNext]_screenVars => [kept]_screenVars
  BY <1>1
<1> QED
  BY <1>2, ScreensInvariance, PTL DEF ScreensSpec, StoredIsMeant

=============================================================================
