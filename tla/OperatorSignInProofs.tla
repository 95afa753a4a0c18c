------------------------ MODULE OperatorSignInProofs ------------------------
(***************************************************************************)
(* Theorems about OperatorSignIn: types, and that a sign-out or password   *)
(* change that was answered stays in force and stays on the file, for any  *)
(* number of requests, passwords and restarts.                             *)
(*                                                                         *)
(* The epoch alone does not carry SignedOutStaysOut: after a restart that  *)
(* lost a bump it is counted up again to a number that was used before.    *)
(* Until then it equals the number of bumps in everything that holds one,  *)
(* which is what Numbered says and induction needs.                        *)
(***************************************************************************)
EXTENDS OperatorSignIn, SequenceTheorems, FiniteSetTheorems, WellFoundedInduction, TLAPS

\* A session's epoch is the bump it was made after.
Counted(claims) == claims.epoch = claims.gen

\* Memory, the queued writes, the cookies and the requests name an epoch by its number
\* among all bumps.
Numbered ==
  /\ record.epoch = hist.gen
  /\ \A i \in DOMAIN chain : chain[i].data.epoch = chain[i].gen
  /\ \A c \in cookies : Counted(c.claims)
  /\ \A r \in Calls : Counted(calls[r].claims)

\* What is queued, filed or told was bumped.
Bumped ==
  /\ hist.answered <= hist.gen
  /\ \A i \in DOMAIN chain : chain[i].gen <= hist.gen
  /\ \A w \in landed : w.gen <= hist.gen

\* From the file through the chain to the record in memory, epochs increase; and
\* callers hear, or heard, of what is on the file.
Filed ==
  /\ file.epoch <= record.epoch
  /\ \A i \in DOMAIN chain :
       file.epoch < chain[i].data.epoch /\ chain[i].data.epoch <= record.epoch
  /\ \A i, j \in DOMAIN chain : i < j => chain[i].data.epoch < chain[j].data.epoch
  /\ \A w \in landed : OnFile(w.data)
  /\ \A data \in hist.told : OnFile(data)

Inv == TypeOK /\ Filed /\ Bumped /\ (~hist.lost => Numbered)

-----------------------------------------------------------------------------
(* Sequences.                                                              *)

\* The first of a chain leaves it: what is left, and what it was.
LEMMA Shorter ==
  ASSUME NEW S, NEW s \in Seq(S), s # <<>>
  PROVE  /\ Head(s) = s[1] /\ 1 \in DOMAIN s /\ Head(s) \in S
         /\ Tail(s) \in Seq(S)
         /\ \A i \in DOMAIN Tail(s) :
              i \in Nat \ {0} /\ i + 1 \in DOMAIN s /\ Tail(s)[i] = s[i + 1]
<1>1. Len(s) \in Nat /\ Len(s) # 0 /\ DOMAIN s = 1..Len(s)
  BY EmptySeq
<1> QED
  BY <1>1, HeadTailProperties

\* One more at the end.
LEMMA Longer ==
  ASSUME NEW S, NEW s \in Seq(S), NEW e \in S
  PROVE  /\ Append(s, e) \in Seq(S)
         /\ \A i \in DOMAIN Append(s, e) :
              \/ i \in DOMAIN s /\ Append(s, e)[i] = s[i]
              \/ Append(s, e)[i] = e /\ \A j \in DOMAIN s : j < i
         /\ \A i, j \in DOMAIN Append(s, e) : i < j => i \in DOMAIN s
<1>1. Len(s) \in Nat /\ DOMAIN s = 1..Len(s)
  OBVIOUS
<1>2. /\ Append(s, e) \in Seq(S)
      /\ DOMAIN Append(s, e) = 1..(Len(s) + 1)
      /\ Append(s, e)[Len(s) + 1] = e
      /\ \A i \in 1..Len(s) : Append(s, e)[i] = s[i]
  BY AppendProperties
<1> QED
  BY <1>1, <1>2

-----------------------------------------------------------------------------
(* Types.                                                                  *)

LEMMA InitTypes == Init => TypeOK
<1> SUFFICES ASSUME Init PROVE TypeOK
  OBVIOUS
<1>1. <<>> \in Seq(Writes) /\ 0 \in Nat
  OBVIOUS
<1>2. calls \in [Calls -> CallType]
  BY SignInAssumption DEF Init, CallType, Claims, Kinds, Steps, Answers
<1> QED
  BY <1>1, <1>2, SignInAssumption DEF Init, TypeOK, Records, HistType

LEMMA GoToTypes ==
  ASSUME TypeOK, NEW r \in Calls, NEW step \in Steps, GoTo(r, step)
  PROVE  calls' \in [Calls -> CallType]
<1>1. [calls[r] EXCEPT !.step = step] \in CallType
  BY DEF TypeOK, CallType
<1>2. calls' = [calls EXCEPT ![r] = [calls[r] EXCEPT !.step = step]]
  BY DEF GoTo
<1> QED
  BY <1>1, <1>2 DEF TypeOK

LEMMA AnswerTypes ==
  ASSUME TypeOK, NEW r \in Calls, NEW a \in Answers, Answer(r, a)
  PROVE  calls' \in [Calls -> CallType]
<1>1. [calls[r] EXCEPT !.step = "end", !.answer = a] \in CallType
  BY DEF TypeOK, CallType, Steps
<1>2. calls' = [calls EXCEPT ![r] = [calls[r] EXCEPT !.step = "end", !.answer = a]]
  BY DEF Answer
<1> QED
  BY <1>1, <1>2 DEF TypeOK

LEMMA AttemptTypes ==
  ASSUME TypeOK, NEW r \in Calls, NEW call \in CallType, Attempt(r, call)
  PROVE  calls' \in [Calls -> CallType] /\ hist' \in HistType
<1>1. CASE Blocked /\ calls' = [calls EXCEPT ![r] = [call EXCEPT !.step = "end", !.answer = "throttled"]]
           /\ UNCHANGED hist
  <2>1. [call EXCEPT !.step = "end", !.answer = "throttled"] \in CallType
    BY DEF CallType, Steps, Answers
  <2> QED
    BY <1>1, <2>1 DEF TypeOK
<1>2. CASE Verify(r, call)
  <2> DEFINE good == call.typed = record.password
             abreast == hist.abreast \/ \E q \in Calls \ {r} : At(q, "verify")
  <2>1. good \in BOOLEAN /\ abreast \in BOOLEAN
    BY DEF TypeOK, HistType
  <2>2. [call EXCEPT !.step = "verify", !.good = good] \in CallType
    BY <2>1 DEF CallType, Steps
  <2>3. [hist EXCEPT !.abreast = abreast] \in HistType
    BY <2>1 DEF TypeOK, HistType
  <2>4. /\ calls' = [calls EXCEPT ![r] = [call EXCEPT !.step = "verify", !.good = good]]
        /\ hist' = [hist EXCEPT !.abreast = abreast]
    BY <1>2 DEF Verify
  <2> HIDE DEF good, abreast
  <2> QED
    BY <2>2, <2>3, <2>4 DEF TypeOK
<1> QED
  BY <1>1, <1>2 DEF Attempt

LEMMA BumpTypes ==
  ASSUME TypeOK, NEW r \in Calls, NEW password \in Passwords, Bump(r, password)
  PROVE  /\ record' \in Records /\ chain' \in Seq(Writes)
         /\ hist' \in HistType /\ calls' \in [Calls -> CallType]
<1> DEFINE data == [password |-> password, epoch |-> record.epoch + 1]
           write == [by |-> r, data |-> data, gen |-> hist.gen + 1]
<1>1. data \in Records /\ hist.gen + 1 \in Nat
  BY DEF TypeOK, Records, HistType
<1>2. write \in Writes
  BY <1>1 DEF Writes
<1>3. record' = data /\ chain' = Append(chain, write)
  BY DEF Bump
<1>4. chain' \in Seq(Writes)
  BY <1>2, <1>3, Longer DEF TypeOK
<1>5. hist' \in HistType
  BY <1>1 DEF Bump, TypeOK, HistType
<1>6. calls' \in [Calls -> CallType]
  BY GoToTypes DEF Bump, Steps
<1> QED
  BY <1>1, <1>3, <1>4, <1>5, <1>6

LEMMA StepTypes ==
  ASSUME TypeOK, [Next]_vars
  PROVE  TypeOK'
<1>1. ASSUME NEW r \in Calls, SignIn(r)
      PROVE  TypeOK'
  <2>1. PICK kind \in {"login", "authorize"}, typed \in Passwords :
          Attempt(r, [calls[r] EXCEPT !.kind = kind, !.typed = typed])
    BY <1>1 DEF SignIn
  <2>2. [calls[r] EXCEPT !.kind = kind, !.typed = typed] \in CallType
    BY DEF TypeOK, CallType, Kinds
  <2> QED
    BY <1>1, <2>1, <2>2, AttemptTypes DEF SignIn, TypeOK
<1>2. ASSUME NEW r \in Calls, Visit(r)
      PROVE  TypeOK'
  <2>1. PICK kind \in {"page", "logout", "password"}, c \in cookies, typed, next \in Passwords :
          calls' = [calls EXCEPT ![r] =
            [@ EXCEPT !.kind = kind, !.step = "guard", !.typed = typed, !.next = next,
                      !.good = Accepted(c), !.claims = c.claims]]
    BY <1>2 DEF Visit
  <2>2. c.claims \in Claims /\ Accepted(c) \in BOOLEAN
    BY DEF TypeOK, Cookies, Accepted
  <2>3. [calls[r] EXCEPT !.kind = kind, !.step = "guard", !.typed = typed, !.next = next,
                         !.good = Accepted(c), !.claims = c.claims] \in CallType
    BY <2>2 DEF TypeOK, CallType, Kinds, Steps
  <2>4. calls' \in [Calls -> CallType]
    BY <2>1, <2>3 DEF TypeOK
  <2> QED
    BY <1>2, <2>4 DEF Visit, TypeOK
<1>3. ASSUME NEW r \in Calls, Guarded(r)
      PROVE  TypeOK'
  <2>1. CASE Answer(r, "signedOut") /\ UNCHANGED <<record, chain, hist>>
    BY <1>3, <2>1, AnswerTypes DEF Guarded, TypeOK, Answers
  <2>2. CASE GoTo(r, "sign") /\ UNCHANGED <<record, chain, hist>>
    BY <1>3, <2>2, GoToTypes DEF Guarded, TypeOK, Steps
  <2>3. CASE SignOutAll(r)
    <3>1. record.password \in Passwords
      BY DEF TypeOK, Records
    <3> QED
      BY <1>3, <2>3, <3>1, BumpTypes DEF Guarded, SignOutAll, TypeOK
  <2>4. CASE Attempt(r, calls[r]) /\ UNCHANGED <<record, chain>>
    <3>1. calls[r] \in CallType
      BY DEF TypeOK
    <3> QED
      BY <1>3, <2>4, <3>1, AttemptTypes DEF Guarded, TypeOK
  <2> QED
    BY <1>3, <2>1, <2>2, <2>3, <2>4 DEF Guarded
<1>4. ASSUME NEW r \in Calls, Verified(r)
      PROVE  TypeOK'
  <2>1. CASE Wrong(r)
    <3>1. failures' \subseteq Failures
      BY <2>1 DEF Wrong, RecordFailure, Live, LiveAt, TypeOK, Failures
    <3> QED
      BY <1>4, <2>1, <3>1, AnswerTypes DEF Verified, Wrong, TypeOK, Answers
  <2>2. CASE LoggedIn(r)
    <3>1. [epoch |-> record.epoch, gen |-> hist.gen] \in Claims
      BY DEF TypeOK, Records, HistType, Claims
    <3>2. calls' \in [Calls -> CallType]
      <4> DEFINE claims == [epoch |-> record.epoch, gen |-> hist.gen]
      <4>1. calls' = [calls EXCEPT ![r] = [calls[r] EXCEPT !.step = "sign", !.claims = claims]]
        BY <2>2 DEF LoggedIn
      <4> HIDE DEF claims
      <4>2. claims \in Claims
        BY <3>1 DEF claims
      <4>3. [calls[r] EXCEPT !.step = "sign", !.claims = claims] \in CallType
        BY <4>2 DEF TypeOK, CallType, Steps
      <4> QED
        BY <4>1, <4>3 DEF TypeOK
    <3> QED
      BY <1>4, <2>2, <3>2 DEF Verified, LoggedIn, RecordSuccess, TypeOK
  <2>3. CASE Authorized(r)
    BY <1>4, <2>3, AnswerTypes DEF Verified, Authorized, RecordSuccess, TypeOK, Answers
  <2>4. CASE MayChange(r)
    BY <1>4, <2>4, AnswerTypes, GoToTypes DEF Verified, MayChange, TypeOK, Answers, Steps
  <2> QED
    BY <1>4, <2>1, <2>2, <2>3, <2>4 DEF Verified
<1>5. ASSUME NEW r \in Calls, Signed(r)
      PROVE  TypeOK'
  <2>1. [claims |-> calls[r].claims, exp |-> now + Ttl] \in Cookies
    BY SignInAssumption DEF TypeOK, CallType, Cookies
  <2>2. cookies' \subseteq Cookies
    BY <1>5, <2>1 DEF Signed, TypeOK
  <2> QED
    BY <1>5, <2>2, AnswerTypes DEF Signed, TypeOK, Answers
<1>6. ASSUME NEW r \in Calls, Hashed(r)
      PROVE  TypeOK'
  <2>1. calls[r].next \in Passwords
    BY DEF TypeOK, CallType
  <2> QED
    BY <1>6, <2>1, BumpTypes DEF Hashed, TypeOK
<1>7. ASSUME Written \/ NotWritten
      PROVE  TypeOK'
  <2>1. Head(chain) \in Writes /\ Tail(chain) \in Seq(Writes)
    BY <1>7, Shorter DEF Written, NotWritten, TypeOK
  <2>2. Head(chain).by \in Calls /\ Head(chain).data \in Records
    BY <2>1 DEF Writes
  <2>3. calls' \in [Calls -> CallType]
    BY <1>7, <2>2, AnswerTypes DEF Written, Landing, NotWritten, Answers, TypeOK
  <2> QED
    BY <1>7, <2>1, <2>2, <2>3 DEF Written, Landing, NotWritten, TypeOK
<1>11. ASSUME Saved
       PROVE  TypeOK'
  <2>1. PICK w \in landed :
          /\ landed' = landed \ {w}
          /\ Answer(w.by, "ok")
          /\ hist' = [hist EXCEPT !.answered = IF w.gen > @ THEN w.gen ELSE @,
                                  !.told = @ \cup {w.data}]
          /\ UNCHANGED <<record, file, chain, failures, cookies, now, restarts>>
    BY <1>11 DEF Saved
  <2>2. w.by \in Calls /\ w.data \in Records /\ w.gen \in Nat
    BY <2>1 DEF TypeOK, Writes
  <2>3. hist' \in HistType
    BY <2>1, <2>2 DEF TypeOK, HistType
  <2>4. calls' \in [Calls -> CallType]
    BY <2>1, <2>2, AnswerTypes DEF Answers
  <2> QED
    BY <2>1, <2>3, <2>4 DEF TypeOK
<1>8. ASSUME Restart
      PROVE  TypeOK'
  <2>1. calls' \in [Calls -> CallType]
    <3>1. ASSUME NEW r \in Calls
          PROVE  [calls[r] EXCEPT !.step = "end", !.answer = "dropped"] \in CallType
      BY DEF TypeOK, CallType, Steps, Answers
    <3> QED
      BY <1>8, <3>1 DEF Restart, TypeOK
  <2>2. hist' \in HistType
    <3>1. (hist.lost \/ record # file) \in BOOLEAN
      BY DEF TypeOK, HistType
    <3> QED
      BY <1>8, <3>1 DEF Restart, TypeOK, HistType
  <2>3. <<>> \in Seq(Writes)
    OBVIOUS
  <2>4. record' = file /\ chain' = <<>> /\ landed' = {} /\ failures' = {} /\ restarts' = restarts + 1
        /\ UNCHANGED <<file, cookies, now>>
    BY <1>8 DEF Restart
  <2> QED
    BY <2>1, <2>2, <2>3, <2>4 DEF TypeOK
<1>9. CASE Tick
  BY <1>9 DEF Tick, TypeOK
<1>10. CASE UNCHANGED vars
  BY <1>10 DEF vars, TypeOK
<1> QED
  BY <1>1, <1>2, <1>3, <1>4, <1>5, <1>6, <1>7, <1>8, <1>9, <1>10, <1>11
  DEF Next, Step, Quiet

(***************************************************************************)
(* The record, its file, the requests and the cookies keep their types     *)
(* (oauth/src/operator.ts, session.ts, throttle.ts).                       *)
(***************************************************************************)
THEOREM TypeCorrect == Spec => []TypeOK
BY InitTypes, StepTypes, PTL DEF Spec

-----------------------------------------------------------------------------
(* What is bumped, queued, filed and told.                                 *)

LEMMA InitFiled == Init => Filed /\ Bumped /\ Numbered
<1>1. DOMAIN <<>> = {}
  OBVIOUS
<1> QED
  BY <1>1 DEF Init, Filed, Bumped, Numbered, Counted

\* A bump is one more than everything before it.
LEMMA BumpChain ==
  ASSUME TypeOK, NEW r \in Calls, NEW password \in Passwords, Bump(r, password)
  PROVE  /\ hist'.gen = hist.gen + 1 /\ record'.epoch = record.epoch + 1
         /\ hist'.answered = hist.answered /\ hist'.told = hist.told /\ hist'.lost = hist.lost
         /\ \A i \in DOMAIN chain' : \/ i \in DOMAIN chain /\ chain'[i] = chain[i]
                                     \/ /\ chain'[i].gen = hist.gen + 1
                                        /\ chain'[i].data.epoch = record.epoch + 1
                                        /\ \A j \in DOMAIN chain : j < i
         /\ \A i, j \in DOMAIN chain' : i < j => i \in DOMAIN chain
         /\ \A q \in Calls : calls'[q].claims = calls[q].claims
<1> DEFINE data == [password |-> password, epoch |-> record.epoch + 1]
           write == [by |-> r, data |-> data, gen |-> hist.gen + 1]
<1>1. write \in Writes
  BY DEF TypeOK, Records, HistType, Writes
<1>2. record' = data /\ chain' = Append(chain, write)
  BY DEF Bump
<1>3. /\ \A i \in DOMAIN chain' : \/ i \in DOMAIN chain /\ chain'[i] = chain[i]
                                  \/ chain'[i] = write /\ \A j \in DOMAIN chain : j < i
      /\ \A i, j \in DOMAIN chain' : i < j => i \in DOMAIN chain
  BY <1>1, <1>2, Longer DEF TypeOK
<1>4. \A q \in Calls : calls'[q].claims = calls[q].claims
  BY DEF Bump, GoTo, TypeOK, CallType
<1>5. /\ hist'.gen = hist.gen + 1 /\ hist'.told = hist.told
      /\ hist'.answered = hist.answered /\ hist'.lost = hist.lost
  BY DEF Bump, TypeOK, HistType
<1> QED
  BY <1>2, <1>3, <1>4, <1>5

\* What is in the chain are writes.
LEMMA ChainTypes ==
  ASSUME TypeOK
  PROVE  \A i \in DOMAIN chain : i \in Nat /\ chain[i].gen \in Nat /\ chain[i].data.epoch \in Nat
<1>1. \A i \in DOMAIN chain : i \in Nat /\ chain[i] \in Writes
  BY LenProperties, ElementOfSeq DEF TypeOK
<1> QED
  BY <1>1 DEF Writes, Records

LEMMA BumpInv ==
  ASSUME Inv, TypeOK', NEW r \in Calls, NEW password \in Passwords, Bump(r, password),
         UNCHANGED <<file, landed, cookies>>
  PROVE  Inv'
<1>1. /\ TypeOK /\ Filed /\ Bumped /\ hist.gen \in Nat /\ hist.answered \in Nat
      /\ record.epoch \in Nat /\ file.epoch \in Nat
  BY DEF Inv, TypeOK, HistType, Records
<1>2. /\ hist'.gen = hist.gen + 1 /\ record'.epoch = record.epoch + 1
      /\ hist'.answered = hist.answered /\ hist'.told = hist.told /\ hist'.lost = hist.lost
      /\ \A i \in DOMAIN chain' : \/ i \in DOMAIN chain /\ chain'[i] = chain[i]
                                  \/ /\ chain'[i].gen = hist.gen + 1
                                     /\ chain'[i].data.epoch = record.epoch + 1
                                     /\ \A j \in DOMAIN chain : j < i
      /\ \A i, j \in DOMAIN chain' : i < j => i \in DOMAIN chain
      /\ \A q \in Calls : calls'[q].claims = calls[q].claims
  BY <1>1, BumpChain
<1>3. \A i \in DOMAIN chain : i \in Nat /\ chain[i].gen \in Nat /\ chain[i].data.epoch \in Nat
  BY <1>1, ChainTypes
<1>4. Filed'
  <2>1. ASSUME NEW i \in DOMAIN chain'
        PROVE  file.epoch < chain'[i].data.epoch /\ chain'[i].data.epoch <= record.epoch + 1
    BY <1>1, <1>2, <1>3 DEF Filed
  <2>2. ASSUME NEW i \in DOMAIN chain', NEW j \in DOMAIN chain', i < j
        PROVE  chain'[i].data.epoch < chain'[j].data.epoch
    <3>1. i \in DOMAIN chain /\ chain[i].data.epoch <= record.epoch
      BY <1>1, <1>2, <2>2 DEF Filed
    <3>2. i \in Nat /\ ~(i < i)
      BY <1>3, <3>1
    <3>3. chain'[i] = chain[i]
      BY <1>2, <3>1, <3>2
    <3>4. CASE j \in DOMAIN chain /\ chain'[j] = chain[j]
      BY <1>1, <2>2, <3>1, <3>3, <3>4 DEF Filed
    <3>5. CASE chain'[j].data.epoch = record.epoch + 1
      BY <1>1, <1>3, <3>1, <3>3, <3>5
    <3> QED
      BY <1>2, <3>4, <3>5
  <2>3. file' = file /\ landed' = landed
    OBVIOUS
  <2> QED
    BY <1>1, <1>2, <2>1, <2>2, <2>3 DEF Filed, OnFile
<1>5. Bumped'
  <2>1. \A w \in landed : w.gen \in Nat
    BY <1>1 DEF TypeOK, Writes
  <2> QED
    BY <1>1, <1>2, <1>3, <2>1 DEF Bumped
<1>6. ASSUME ~hist'.lost
      PROVE  Numbered'
  BY <1>2, <1>6 DEF Inv, Numbered, Counted
<1> QED
  BY <1>4, <1>5, <1>6 DEF Inv

\* A step that leaves the record, its writes and the count of bumps alone, and whose
\* sessions are counted.
LEMMA SilentInv ==
  ASSUME Inv, TypeOK', UNCHANGED <<record, file, chain, landed>>,
         hist'.gen = hist.gen, hist'.told = hist.told,
         hist'.answered = hist.answered, hist'.lost = hist.lost,
         Numbered => /\ \A c \in cookies' : Counted(c.claims)
                     /\ \A r \in Calls : Counted(calls'[r].claims)
  PROVE  Inv'
<1>1. Filed' /\ Bumped'
  BY DEF Inv, Filed, Bumped, OnFile
<1>2. ~hist'.lost => Numbered'
  BY DEF Inv, Numbered, Counted
<1> QED
  BY <1>1, <1>2 DEF Inv

LEMMA AttemptSilent ==
  ASSUME TypeOK, NEW r \in Calls, NEW call \in CallType, call.claims = calls[r].claims,
         Attempt(r, call)
  PROVE  /\ hist'.gen = hist.gen /\ hist'.told = hist.told
         /\ hist'.answered = hist.answered /\ hist'.lost = hist.lost
         /\ \A q \in Calls : calls'[q].claims = calls[q].claims
<1>1. \E done \in CallType : /\ calls' = [calls EXCEPT ![r] = done]
                            /\ done.claims = calls[r].claims
  <2> DEFINE refused == [call EXCEPT !.step = "end", !.answer = "throttled"]
             asked(good) == [call EXCEPT !.step = "verify", !.good = good]
  <2>1. refused \in CallType /\ refused.claims = calls[r].claims
    BY DEF CallType, Steps, Answers
  <2>2. \A good \in BOOLEAN : asked(good) \in CallType /\ asked(good).claims = calls[r].claims
    BY DEF CallType, Steps
  <2>3. calls' = [calls EXCEPT ![r] = refused]
        \/ calls' = [calls EXCEPT ![r] = asked(call.typed = record.password)]
    BY DEF Attempt, Verify
  <2>4. (call.typed = record.password) \in BOOLEAN
    OBVIOUS
  <2> HIDE DEF refused, asked
  <2> QED
    BY <2>1, <2>2, <2>3, <2>4
<1>2. \A q \in Calls : calls'[q].claims = calls[q].claims
  BY <1>1 DEF TypeOK
<1> QED
  BY <1>2 DEF Attempt, Verify, TypeOK, HistType

LEMMA InvStep ==
  ASSUME Inv, [Next]_vars
  PROVE  Inv'
<1>0. TypeOK /\ TypeOK'
  BY StepTypes DEF Inv
<1> USE <1>0
<1>1. ASSUME NEW r \in Calls, SignIn(r)
      PROVE  Inv'
  <2>1. PICK kind \in {"login", "authorize"}, typed \in Passwords :
          Attempt(r, [calls[r] EXCEPT !.kind = kind, !.typed = typed])
    BY <1>1 DEF SignIn
  <2> DEFINE call == [calls[r] EXCEPT !.kind = kind, !.typed = typed]
  <2>2. call \in CallType /\ call.claims = calls[r].claims
    BY ZenonT(60) DEF TypeOK, CallType, Kinds
  <2> HIDE DEF call
  <2>3. Attempt(r, call)
    BY <2>1 DEF call
  <2> QED
    BY <1>1, <2>2, <2>3, AttemptSilent, SilentInv DEF SignIn, Numbered
<1>2. ASSUME NEW r \in Calls, Visit(r)
      PROVE  Inv'
  <2>1. PICK c \in cookies : \A q \in Calls : calls'[q].claims \in {calls[q].claims, c.claims}
    BY <1>2 DEF Visit, TypeOK, CallType
  <2> QED
    BY <1>2, <2>1, SilentInv DEF Visit, Numbered
<1>3. ASSUME NEW r \in Calls, Guarded(r)
      PROVE  Inv'
  <2>1. CASE (Answer(r, "signedOut") \/ GoTo(r, "sign")) /\ UNCHANGED <<record, chain, hist>>
    <3>1. \A q \in Calls : calls'[q].claims = calls[q].claims
      BY <2>1 DEF Answer, GoTo, TypeOK, CallType
    <3> QED
      BY <1>3, <2>1, <3>1, SilentInv DEF Guarded, Numbered
  <2>2. CASE SignOutAll(r)
    <3>1. record.password \in Passwords
      BY DEF TypeOK, Records
    <3> QED
      BY <1>3, <2>2, <3>1, BumpInv DEF Guarded, SignOutAll
  <2>3. CASE Attempt(r, calls[r]) /\ UNCHANGED <<record, chain>>
    <3>1. calls[r] \in CallType
      BY DEF TypeOK
    <3> QED
      BY <1>3, <2>3, <3>1, AttemptSilent, SilentInv DEF Guarded, Numbered
  <2> QED
    BY <1>3, <2>1, <2>2, <2>3 DEF Guarded
<1>4. ASSUME NEW r \in Calls, Verified(r)
      PROVE  Inv'
  <2>1. CASE LoggedIn(r)
    <3>1. \A q \in Calls :
            \/ calls'[q].claims = calls[q].claims
            \/ calls'[q].claims = [epoch |-> record.epoch, gen |-> hist.gen]
      BY <2>1 DEF LoggedIn, TypeOK, CallType
    <3>2. Numbered => \A q \in Calls : Counted(calls'[q].claims)
      BY <3>1 DEF Numbered, Counted
    <3> QED
      BY <1>4, <3>2, SilentInv DEF Verified, Numbered
  <2>2. CASE Wrong(r) \/ Authorized(r) \/ MayChange(r)
    <3>1. \A q \in Calls : calls'[q].claims = calls[q].claims
      BY <2>2 DEF Wrong, Authorized, MayChange, Answer, GoTo, TypeOK, CallType
    <3> QED
      BY <1>4, <3>1, SilentInv DEF Verified, Numbered
  <2> QED
    BY <1>4, <2>1, <2>2 DEF Verified
<1>5. ASSUME NEW r \in Calls, Signed(r)
      PROVE  Inv'
  <2>1. \A q \in Calls : calls'[q].claims = calls[q].claims
    BY <1>5 DEF Signed, Answer, TypeOK, CallType
  <2>2. \A c \in cookies' : c \in cookies \/ c.claims = calls[r].claims
    BY <1>5 DEF Signed
  <2> QED
    BY <1>5, <2>1, <2>2, SilentInv DEF Signed, Numbered
<1>6. ASSUME NEW r \in Calls, Hashed(r)
      PROVE  Inv'
  <2>1. calls[r].next \in Passwords
    BY DEF TypeOK, CallType
  <2> QED
    BY <1>6, <2>1, BumpInv DEF Hashed
<1>7. ASSUME Written \/ NotWritten
      PROVE  Inv'
  <2>1. /\ Head(chain) = chain[1] /\ 1 \in DOMAIN chain
        /\ \A i \in DOMAIN chain' :
             i \in Nat \ {0} /\ i + 1 \in DOMAIN chain /\ chain'[i] = chain[i + 1]
    <3>1. chain \in Seq(Writes) /\ chain # <<>> /\ chain' = Tail(chain)
      BY <1>7 DEF Written, Landing, NotWritten, TypeOK
    <3>2. /\ Head(chain) = chain[1] /\ 1 \in DOMAIN chain
          /\ \A i \in DOMAIN Tail(chain) :
               i \in Nat \ {0} /\ i + 1 \in DOMAIN chain /\ Tail(chain)[i] = chain[i + 1]
      BY <3>1, Shorter
    <3> QED
      BY <3>1, <3>2
  <2>2. \/ file' = chain[1].data /\ landed' = landed \cup {chain[1]} /\ UNCHANGED hist
        \/ UNCHANGED <<file, landed, hist>>
    BY <1>7, <2>1 DEF Written, Landing, NotWritten
  <2>3. \A q \in Calls : calls'[q].claims = calls[q].claims
    BY <1>7 DEF Written, Landing, NotWritten, Answer, TypeOK, CallType
  <2>4. UNCHANGED <<record, cookies, hist>>
    BY <1>7 DEF Written, Landing, NotWritten
  <2>5. Filed'
    <3>1. Filed /\ \A i \in DOMAIN chain : i \in Nat /\ chain[i].data.epoch \in Nat
      BY ChainTypes DEF Inv
    <3>2. \A i \in DOMAIN chain' : chain'[i].data.epoch <= record.epoch
      BY <2>1, <3>1 DEF Filed
    <3>3. \A i, j \in DOMAIN chain' : i < j => chain'[i].data.epoch < chain'[j].data.epoch
      <4> SUFFICES ASSUME NEW i \in DOMAIN chain', NEW j \in DOMAIN chain', i < j
                   PROVE  chain'[i].data.epoch < chain'[j].data.epoch
        OBVIOUS
      <4>1. i \in Nat /\ j \in Nat /\ i + 1 < j + 1
        BY <2>1
      <4> QED
        BY <2>1, <3>1, <4>1 DEF Filed
    <3>4. CASE UNCHANGED <<file, landed>>
      <4>1. \A i \in DOMAIN chain' : file.epoch < chain'[i].data.epoch
        BY <2>1, <3>1 DEF Filed
      <4> QED
        BY <2>4, <3>1, <3>2, <3>3, <3>4, <4>1 DEF Filed, OnFile
    <3>5. CASE file' = chain[1].data /\ landed' = landed \cup {chain[1]}
      <4>1. file.epoch < file'.epoch /\ file'.epoch <= record.epoch /\ file.epoch \in Nat /\ file'.epoch \in Nat
        BY <2>1, <3>1, <3>5 DEF Filed, TypeOK, Records
      <4>2. \A i \in DOMAIN chain' : file'.epoch < chain'[i].data.epoch
        <5> SUFFICES ASSUME NEW i \in DOMAIN chain' PROVE file'.epoch < chain'[i].data.epoch
          OBVIOUS
        <5>1. 1 < i + 1
          BY <2>1
        <5> QED
          BY <2>1, <3>1, <3>5, <5>1 DEF Filed
      <4>3. \A data \in Records : OnFile(data) => OnFile(data)'
        BY <4>1 DEF OnFile, Records
      <4>4. /\ \A w \in landed' : OnFile(w.data)'
            /\ \A data \in hist'.told : OnFile(data)'
        <5>1. /\ \A w \in landed : w.data \in Records /\ OnFile(w.data)
              /\ \A data \in hist.told : data \in Records /\ OnFile(data)
          BY <3>1 DEF Filed, TypeOK, Writes, HistType
        <5>2. \A w \in landed : OnFile(w.data)'
          BY <4>3, <5>1
        <5>3. \A w \in {chain[1]} : OnFile(w.data)'
          BY <3>5 DEF OnFile
        <5>4. \A data \in hist'.told : OnFile(data)'
          BY <2>4, <4>3, <5>1
        <5> QED
          BY <3>5, <5>2, <5>3, <5>4 DEF OnFile
      <4> QED
        BY <2>4, <3>2, <3>3, <4>1, <4>2, <4>4 DEF Filed
    <3> QED
      BY <2>2, <3>4, <3>5
  <2>6. Bumped'
    BY <2>1, <2>2, <2>4 DEF Inv, Bumped
  <2>7. Numbered => Numbered'
    BY <2>1, <2>3, <2>4 DEF Numbered, Counted
  <2> QED
    BY <2>4, <2>5, <2>6, <2>7 DEF Inv
<1>10. ASSUME Saved
       PROVE  Inv'
  <2>1. PICK w \in landed :
          /\ landed' = landed \ {w}
          /\ Answer(w.by, "ok")
          /\ hist' = [hist EXCEPT !.answered = IF w.gen > @ THEN w.gen ELSE @,
                                  !.told = @ \cup {w.data}]
          /\ UNCHANGED <<record, file, chain, failures, cookies, now, restarts>>
    BY <1>10 DEF Saved
  <2>2. /\ hist'.gen = hist.gen /\ hist'.lost = hist.lost
        /\ hist'.answered \in {hist.answered, w.gen}
        /\ hist'.told = hist.told \cup {w.data}
    BY <2>1 DEF TypeOK, HistType
  <2>3. \A q \in Calls : calls'[q].claims = calls[q].claims
    BY <2>1 DEF Answer, TypeOK, CallType
  <2>4. Filed'
    BY <2>1, <2>2 DEF Inv, Filed, OnFile
  <2>5. Bumped'
    BY <2>1, <2>2 DEF Inv, Bumped
  <2>6. Numbered => Numbered'
    BY <2>1, <2>2, <2>3 DEF Numbered, Counted
  <2> QED
    BY <2>2, <2>4, <2>5, <2>6 DEF Inv
<1>8. ASSUME Restart
      PROVE  Inv'
  <2>1. \A q \in Calls : calls'[q].claims = calls[q].claims
    BY <1>8 DEF Restart, TypeOK, CallType
  <2>2. /\ hist'.gen = hist.gen /\ hist'.told = hist.told
        /\ hist'.answered = hist.answered
        /\ hist'.lost = (hist.lost \/ record # file)
    BY <1>8 DEF Restart, TypeOK, HistType
  <2>3. /\ record' = file /\ file' = file /\ DOMAIN chain' = {} /\ landed' = {} /\ cookies' = cookies
        /\ file.epoch \in Nat
    <3>1. DOMAIN <<>> = {}
      OBVIOUS
    <3> QED
      BY <1>8, <3>1 DEF Restart, TypeOK, Records
  <2>4. Filed' /\ Bumped'
    BY <2>2, <2>3 DEF Inv, Filed, Bumped, OnFile
  <2>5. ASSUME ~hist'.lost
        PROVE  Numbered'
    <3>1. Numbered /\ record = file
      BY <2>2, <2>5 DEF Inv
    <3> QED
      BY <2>1, <2>2, <2>3, <3>1 DEF Numbered, Counted
  <2> QED
    BY <2>4, <2>5 DEF Inv
<1>9. CASE Tick \/ UNCHANGED vars
  BY <1>9, SilentInv DEF Tick, vars, Numbered
<1> QED
  BY <1>1, <1>2, <1>3, <1>4, <1>5, <1>6, <1>7, <1>8, <1>9, <1>10 DEF Next, Step, Quiet

LEMMA InvImplies == Inv => SignedOutStaysOut /\ AnsweredIsFiled
<1> SUFFICES ASSUME Inv PROVE SignedOutStaysOut /\ AnsweredIsFiled
  OBVIOUS
<1>1. hist.gen \in Nat /\ hist.answered \in Nat
  BY DEF Inv, TypeOK, HistType
<1>2. AnsweredIsFiled
  BY DEF Inv, Filed, AnsweredIsFiled
<1>3. SignedOutStaysOut
  BY <1>1 DEF Inv, Bumped, Numbered, Counted, SignedOutStaysOut, Accepted
<1> QED
  BY <1>2, <1>3

LEMMA InvAlways == Spec => []Inv
<1>1. Init => Inv
  BY InitTypes, InitFiled DEF Inv
<1> QED
  BY <1>1, InvStep, PTL DEF Spec

(***************************************************************************)
(* A sign-out everywhere or password change that was answered ends every   *)
(* session made before it, for as long as no restart lost a bump           *)
(* (oauth/src/operator.ts:259-279, session.ts:7-10).                       *)
(***************************************************************************)
THEOREM SignOutHolds == Spec => []SignedOutStaysOut
BY InvAlways, InvImplies, PTL

(***************************************************************************)
(* The file holds every record a caller was told is saved, or one of a     *)
(* later epoch: an older payload never lands after a newer one, and a      *)
(* failed write does not stop those behind it                              *)
(* (oauth/src/operator.ts:281-312).                                        *)
(***************************************************************************)
THEOREM AnswersAreOnFile == Spec => []AnsweredIsFiled
BY InvAlways, InvImplies, PTL

-----------------------------------------------------------------------------
(* The throttle.                                                           *)

\* With no two attempts verified at once, one being verified leaves room for its
\* failure.
Room ==
  /\ \A r, q \in Calls : At(r, "verify") /\ At(q, "verify") => r = q
  /\ Cardinality(Live) <= MaxFailures
  /\ (\E r \in Calls : At(r, "verify")) => Cardinality(Live) < MaxFailures

ThrottleInv ==
  /\ TypeOK
  /\ IsFiniteSet(failures)
  /\ ~hist.abreast => Room

LEMMA FewerLive ==
  ASSUME NEW S, IsFiniteSet(S), NEW T \in SUBSET S
  PROVE  IsFiniteSet(T) /\ Cardinality(T) <= Cardinality(S)
         /\ Cardinality(S) \in Nat /\ Cardinality(T) \in Nat
BY FS_Subset, FS_CardinalityType

\* A request reaches the verification only past the throttle, and no other is there
\* unless the history says so.
LEMMA AttemptRoom ==
  ASSUME ThrottleInv, NEW r \in Calls, ~At(r, "verify"), NEW call \in CallType,
         Attempt(r, call), UNCHANGED <<failures, now>>
  PROVE  ~hist'.abreast => Room'
<1> SUFFICES ASSUME ~hist'.abreast PROVE Room'
  OBVIOUS
<1>0. TypeOK /\ Cardinality(Live) \in Nat /\ Live' = Live
  BY FewerLive DEF ThrottleInv, Live, LiveAt
<1>1. CASE Blocked /\ calls' = [calls EXCEPT ![r] = [call EXCEPT !.step = "end", !.answer = "throttled"]]
           /\ UNCHANGED hist
  <2>1. calls'[r].step = "end" /\ \A q \in Calls \ {r} : calls'[q] = calls[q]
    BY <1>0, <1>1 DEF TypeOK, CallType
  <2>2. Room
    BY <1>1 DEF ThrottleInv
  <2> QED
    BY <1>0, <2>1, <2>2 DEF Room, At
<1>2. CASE ~Blocked /\ Verify(r, call)
  <2>1. ~hist.abreast /\ ~(\E q \in Calls \ {r} : At(q, "verify"))
    BY <1>0, <1>2 DEF Verify, TypeOK, HistType
  <2>2. \A q \in Calls \ {r} : calls'[q] = calls[q]
    BY <1>0, <1>2 DEF Verify, TypeOK
  <2>3. Cardinality(Live) < MaxFailures
    BY <1>0, <1>2, SignInAssumption DEF Blocked
  <2> QED
    BY <1>0, <2>1, <2>2, <2>3, SignInAssumption DEF Room, At
<1> QED
  BY <1>1, <1>2 DEF Attempt

\* No attempt starts, none fails, and nothing failed comes to count again.
LEMMA CalmRoom ==
  ASSUME ThrottleInv, TypeOK', IsFiniteSet(failures), failures' \subseteq failures, now' >= now,
         hist'.abreast = hist.abreast,
         \A r \in Calls : At(r, "verify")' => At(r, "verify")
  PROVE  ThrottleInv'
<1>1. IsFiniteSet(failures')
  BY FewerLive
<1>2. ASSUME ~hist'.abreast
      PROVE  Room'
  <2>1. Live' \subseteq Live /\ IsFiniteSet(Live)
    <3>1. \A f \in failures : f.at \in Nat
      BY DEF ThrottleInv, TypeOK, Failures
    <3>2. now \in Nat /\ now' \in Nat
      BY DEF ThrottleInv, TypeOK
    <3>3. Live \subseteq failures
      BY DEF Live, LiveAt
    <3>4. IsFiniteSet(Live)
      BY <3>3, FewerLive
    <3> QED
      BY <3>1, <3>2, <3>4, SignInAssumption DEF Live, LiveAt
  <2>2. Cardinality(Live') <= Cardinality(Live) /\ Cardinality(Live') \in Nat /\ Cardinality(Live) \in Nat
    BY <2>1, FewerLive
  <2>3. Room
    BY <1>2 DEF ThrottleInv
  <2> QED
    BY <2>2, <2>3, SignInAssumption DEF Room
<1> QED
  BY <1>1, <1>2 DEF ThrottleInv

\* A failure is counted for the one attempt that was being verified.
LEMMA WrongRoom ==
  ASSUME ThrottleInv, NEW r \in Calls, At(r, "verify"), Wrong(r), UNCHANGED <<now, hist>>
  PROVE  IsFiniteSet(failures') /\ (~hist'.abreast => Room')
<1> DEFINE failure == [by |-> r, at |-> now]
<1>1. TypeOK /\ IsFiniteSet(Live) /\ Cardinality(Live) \in Nat
  <2>1. Live \subseteq failures
    BY DEF Live, LiveAt
  <2> QED
    BY <2>1, FewerLive DEF ThrottleInv
<1>2. failures' = Live \cup {failure}
  BY DEF Wrong, RecordFailure
<1>3. IsFiniteSet(failures') /\ Cardinality(failures') <= Cardinality(Live) + 1
  <2>1. IsFiniteSet(failures')
    BY <1>1, <1>2, FS_AddElement
  <2>2. Cardinality(failures') \in {Cardinality(Live), Cardinality(Live) + 1}
    BY <1>1, <1>2, FS_AddElement
  <2> QED
    BY <1>1, <2>1, <2>2
<1>4. Live' \subseteq failures'
  BY DEF Live, LiveAt
<1>5. Cardinality(Live') <= Cardinality(failures') /\ Cardinality(Live') \in Nat /\ Cardinality(failures') \in Nat
  BY <1>3, <1>4, FewerLive
<1>6. ASSUME ~hist'.abreast
      PROVE  Room'
  <2>1. Room
    BY <1>6 DEF ThrottleInv
  <2>2. Cardinality(Live) < MaxFailures
    BY <2>1 DEF Room
  <2>3. \A q \in Calls : calls'[q].step # "verify"
    BY <1>1, <2>1 DEF Wrong, Answer, Room, At, TypeOK, CallType
  <2>4. Cardinality(Live') <= MaxFailures
    BY <1>1, <1>3, <1>5, <2>2, SignInAssumption
  <2> QED
    BY <2>3, <2>4 DEF Room, At
<1> QED
  BY <1>3, <1>6

LEMMA ThrottleStep ==
  ASSUME ThrottleInv, [Next]_vars
  PROVE  ThrottleInv'
<1>0. TypeOK /\ TypeOK' /\ IsFiniteSet(failures) /\ now \in Nat
  BY StepTypes DEF ThrottleInv, TypeOK
<1>1. ASSUME NEW r \in Calls, SignIn(r)
      PROVE  ThrottleInv'
  <2>1. PICK kind \in {"login", "authorize"}, typed \in Passwords :
          Attempt(r, [calls[r] EXCEPT !.kind = kind, !.typed = typed])
    BY <1>1 DEF SignIn
  <2> DEFINE call == [calls[r] EXCEPT !.kind = kind, !.typed = typed]
  <2>2. call \in CallType
    BY <1>0 DEF TypeOK, CallType, Kinds
  <2> HIDE DEF call
  <2>3. Attempt(r, call) /\ ~At(r, "verify") /\ UNCHANGED <<failures, now>>
    BY <1>1, <2>1 DEF call, SignIn, At
  <2> QED
    BY <1>0, <2>2, <2>3, AttemptRoom DEF ThrottleInv
<1>2. ASSUME NEW r \in Calls, Visit(r)
      PROVE  ThrottleInv'
  <2>1. \A q \in Calls : At(q, "verify")' => At(q, "verify")
    BY <1>0, <1>2 DEF Visit, At, TypeOK, CallType
  <2> QED
    BY <1>0, <1>2, <2>1, CalmRoom DEF Visit
<1>3. ASSUME NEW r \in Calls, Guarded(r)
      PROVE  ThrottleInv'
  <2>1. CASE (Answer(r, "signedOut") \/ GoTo(r, "sign")) /\ UNCHANGED hist
    <3>1. \A q \in Calls : At(q, "verify")' => At(q, "verify")
      BY <1>0, <2>1 DEF Answer, GoTo, At, TypeOK, CallType
    <3> QED
      BY <1>0, <1>3, <2>1, <3>1, CalmRoom DEF Guarded
  <2>2. CASE SignOutAll(r)
    <3>1. \A q \in Calls : At(q, "verify")' => At(q, "verify")
      BY <1>0, <2>2 DEF SignOutAll, Bump, GoTo, At, TypeOK, CallType
    <3>2. hist'.abreast = hist.abreast
      BY <1>0, <2>2 DEF SignOutAll, Bump, TypeOK, HistType
    <3> QED
      BY <1>0, <1>3, <3>1, <3>2, CalmRoom DEF Guarded
  <2>3. CASE Attempt(r, calls[r])
    <3>1. calls[r] \in CallType /\ ~At(r, "verify") /\ UNCHANGED <<failures, now>>
      BY <1>0, <1>3 DEF Guarded, At, TypeOK
    <3> QED
      BY <1>0, <2>3, <3>1, AttemptRoom DEF ThrottleInv
  <2> QED
    BY <1>3, <2>1, <2>2, <2>3 DEF Guarded
<1>4. ASSUME NEW r \in Calls, Verified(r)
      PROVE  ThrottleInv'
  <2>1. CASE Wrong(r)
    BY <1>0, <1>4, <2>1, WrongRoom DEF Verified, ThrottleInv
  <2>2. CASE LoggedIn(r) \/ Authorized(r) \/ MayChange(r)
    <3>1. \A q \in Calls : At(q, "verify")' => At(q, "verify")
      BY <1>0, <2>2 DEF LoggedIn, Authorized, MayChange, Answer, GoTo, At, TypeOK, CallType
    <3>2. failures' \subseteq failures
      BY <2>2 DEF LoggedIn, Authorized, MayChange, RecordSuccess
    <3> QED
      BY <1>0, <1>4, <3>1, <3>2, CalmRoom DEF Verified
  <2> QED
    BY <1>4, <2>1, <2>2 DEF Verified
<1>5. ASSUME NEW r \in Calls, Signed(r)
      PROVE  ThrottleInv'
  <2>1. \A q \in Calls : At(q, "verify")' => At(q, "verify")
    BY <1>0, <1>5 DEF Signed, Answer, At, TypeOK, CallType
  <2> QED
    BY <1>0, <1>5, <2>1, CalmRoom DEF Signed
<1>6. ASSUME NEW r \in Calls, Hashed(r)
      PROVE  ThrottleInv'
  <2>1. \A q \in Calls : At(q, "verify")' => At(q, "verify")
    BY <1>0, <1>6 DEF Hashed, Bump, GoTo, At, TypeOK, CallType
  <2>2. hist'.abreast = hist.abreast
    BY <1>0, <1>6 DEF Hashed, Bump, TypeOK, HistType
  <2> QED
    BY <1>0, <1>6, <2>1, <2>2, CalmRoom DEF Hashed
<1>7. ASSUME Written \/ NotWritten \/ Saved
      PROVE  ThrottleInv'
  <2>1. \A q \in Calls : At(q, "verify")' => At(q, "verify")
    <3>1. ASSUME NEW r, NEW a, Answer(r, a)
          PROVE  \A q \in Calls : At(q, "verify")' => At(q, "verify")
      BY <1>0, <3>1 DEF Answer, At, TypeOK, CallType
    <3>2. CASE Written
      BY <3>2 DEF Written, Landing, At
    <3>3. CASE NotWritten
      BY <3>1, <3>3 DEF NotWritten
    <3>4. CASE Saved
      BY <3>1, <3>4 DEF Saved
    <3> QED
      BY <1>7, <3>2, <3>3, <3>4
  <2>2. hist'.abreast = hist.abreast
    BY <1>0, <1>7 DEF Written, Landing, NotWritten, Saved, TypeOK, HistType
  <2>3. UNCHANGED <<failures, now>>
    BY <1>7 DEF Written, Landing, NotWritten, Saved
  <2> QED
    BY <1>0, <2>1, <2>2, <2>3, CalmRoom
<1>8. ASSUME Restart
      PROVE  ThrottleInv'
  <2>1. \A q \in Calls : At(q, "verify")' => At(q, "verify")
    BY <1>0, <1>8 DEF Restart, At, TypeOK, CallType
  <2>2. hist'.abreast = hist.abreast
    BY <1>0, <1>8 DEF Restart, TypeOK, HistType
  <2>3. failures' = {} /\ now' = now
    BY <1>8 DEF Restart
  <2> QED
    BY <1>0, <2>1, <2>2, <2>3, CalmRoom
<1>9. CASE Tick \/ UNCHANGED vars
  <2>1. \A q \in Calls : At(q, "verify")' => At(q, "verify")
    BY <1>9 DEF Tick, vars, At
  <2>2. now' >= now
    BY <1>0, <1>9 DEF Tick, vars
  <2>3. hist' = hist /\ failures' = failures
    BY <1>9 DEF Tick, vars
  <2> QED
    BY <1>0, <2>1, <2>2, <2>3, CalmRoom
<1> QED
  BY <1>1, <1>2, <1>3, <1>4, <1>5, <1>6, <1>7, <1>8, <1>9 DEF Next, Step, Quiet

\* Of a finite set of failures that is not empty, one is the oldest.
LEMMA Oldest ==
  ASSUME NEW S, IsFiniteSet(S), S \subseteq Failures, S # {}
  PROVE  \E f \in S : \A g \in S : f.at <= g.at
<1> DEFINE times == {f.at : f \in S}
<1>1. times \subseteq Nat /\ times # {}
  BY DEF Failures
<1>2. \E t \in times : \A u \in times : ~ (<<u, t>> \in OpToRel(<, Nat))
  BY <1>1, WFMin, NatLessThanWellFounded
<1>3. \A t, u \in Nat : <<u, t>> \in OpToRel(<, Nat) <=> u < t
  BY DEF OpToRel
<1>4. \E t \in times : \A u \in times : t <= u
  <2> HIDE DEF times
  <2>1. PICK t \in times : \A u \in times : ~ (<<u, t>> \in OpToRel(<, Nat))
    BY <1>2
  <2>2. \A u \in times : ~ (u < t)
    BY <1>1, <1>3, <2>1
  <2>3. \A u \in times : t <= u
    BY <1>1, <2>2
  <2> QED
    BY <2>3
<1> QED
  BY <1>4

LEMMA RoomEnough == ThrottleInv => ThrottleKeepsItsWord
<1> SUFFICES ASSUME ThrottleInv, ~hist.abreast
             PROVE  /\ Cardinality(Live) <= MaxFailures
                    /\ Cardinality(LiveAt(now + RetryAfter)) < MaxFailures
  BY DEF ThrottleKeepsItsWord
<1>1. /\ Live \subseteq failures /\ failures \subseteq Failures
      /\ IsFiniteSet(failures) /\ now \in Nat
  BY DEF Live, LiveAt, ThrottleInv, TypeOK
<1>2. IsFiniteSet(Live) /\ Cardinality(Live) \in Nat
  BY <1>1, FewerLive
<1>3. Cardinality(Live) <= MaxFailures
  BY DEF ThrottleInv, Room
<1>4. CASE ~Blocked
  <2>1. LiveAt(now + RetryAfter) = Live
    BY <1>1, <1>4 DEF RetryAfter, Live, LiveAt
  <2> QED
    BY <1>2, <1>3, <1>4, <2>1, SignInAssumption DEF Blocked
<1>5. CASE Blocked
  <2> DEFINE oldest == CHOOSE f \in Live : \A g \in Live : f.at <= g.at
  <2>1. Live # {}
    BY <1>2, <1>5, FS_EmptySet, SignInAssumption DEF Blocked
  <2>2. oldest \in Live /\ \A g \in Live : oldest.at <= g.at
    BY <1>1, <1>2, <2>1, Oldest
  <2> HIDE DEF oldest
  <2>3. RetryAfter = oldest.at + Window - now
    BY <1>5 DEF RetryAfter, oldest
  <2>4. oldest.at \in Nat /\ Window \in Nat
    BY <1>1, <2>2, SignInAssumption DEF Failures
  <2>5. (now + RetryAfter) - Window = oldest.at
    BY <1>1, <2>3, <2>4
  <2>6. LiveAt(now + RetryAfter) \subseteq Live \ {oldest}
    <3> SUFFICES ASSUME NEW f \in LiveAt(now + RetryAfter)
                 PROVE  f \in Live /\ f # oldest
      OBVIOUS
    <3>1. f \in failures /\ f.at > oldest.at /\ f.at \in Nat
      BY <1>1, <2>5 DEF LiveAt, Failures
    <3>2. oldest.at > now - Window
      BY <2>2 DEF Live, LiveAt
    <3> QED
      BY <1>1, <2>4, <3>1, <3>2 DEF Live, LiveAt
  <2>7. /\ IsFiniteSet(Live \ {oldest})
        /\ Cardinality(Live \ {oldest}) = Cardinality(Live) - 1
    BY <1>2, <2>2, FS_RemoveElement
  <2>8. /\ Cardinality(LiveAt(now + RetryAfter)) <= Cardinality(Live \ {oldest})
        /\ Cardinality(LiveAt(now + RetryAfter)) \in Nat
    BY <2>6, <2>7, FewerLive
  <2> QED
    BY <1>2, <1>3, <2>7, <2>8, SignInAssumption
<1> QED
  BY <1>4, <1>5

(***************************************************************************)
(* Attempts made one after the other never count more failures than the    *)
(* throttle allows, and whoever waits as long as Retry-After says may try  *)
(* again (oauth/src/throttle.ts).                                          *)
(***************************************************************************)
THEOREM ThrottleHolds == Spec => []ThrottleKeepsItsWord
<1>1. Init => ThrottleInv
  <2> SUFFICES ASSUME Init PROVE ThrottleInv
    OBVIOUS
  <2>1. TypeOK
    BY InitTypes
  <2>2. IsFiniteSet(failures) /\ Live = {} /\ Cardinality(Live) = 0
    <3>1. failures = {} /\ Live = {}
      BY DEF Init, Live, LiveAt
    <3> QED
      BY <3>1, FS_EmptySet
  <2>3. \A r \in Calls : ~At(r, "verify")
    BY DEF Init, At
  <2> QED
    BY <2>1, <2>2, <2>3, SignInAssumption DEF ThrottleInv, Room
<1> QED
  BY <1>1, ThrottleStep, RoomEnough, PTL DEF Spec

=============================================================================
