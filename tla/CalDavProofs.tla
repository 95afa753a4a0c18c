------------------------------ MODULE CalDavProofs ------------------------------
(***************************************************************************)
(* One change of an event against any server (CalDavWrites), and the calls *)
(* that share one calendar client (CalDavCalls), for every number of texts *)
(* other programs write and every set of calls and objects: nothing        *)
(* another program wrote is lost or brought back, and answers are true.    *)
(* Then the guest lists (GuestList), for any set of addresses: an answer   *)
(* names whom the server mails.                                            *)
(***************************************************************************)
EXTENDS CalDavWrites, CalDavCalls, GuestList, SequenceTheorems, WellFoundedInduction, TLAPS

-----------------------------------------------------------------------------
(* One change of an event: the invariant.                                  *)

\* A write of the source that may be carried out yet.
WriteOpen == call.step \in {"write", "again", "rewrite"} \/ TheWrite \in late

\* A removal of the copy that may be carried out yet.
UndoOpen == At("undo") \/ TheUndo \in late

\* What the call found is still what others replaced or deleted knowingly, or there.
Touched == call.stored.text \in given

\* The requests held up are the last one of the call, or its copy and the removal of it.
LateInv ==
  \/ late = {}
  \/ late = {TheMove} /\ call.kind = "move" /\ call.step \in {"whereSource", "whereTarget", "end"}
  \/ late = {TheWrite} /\ At("end")
  \/ /\ late \subseteq {TheCopy, TheUndo} /\ call.kind = "move"
     /\ call.step \in {"undoRead", "undo", "end"}
     /\ TheUndo \in late => At("end")

\* How far a call is, and what its requests have done by then.
PathInv ==
  /\ call.step \notin {"lookup", "end"} \/ late # {} => call.stored # Absent
  /\ At("lookup") => call.stored = Absent /\ call.outcome = "none"
  /\ call.kind # "move" => call.step \in {"lookup", "write", "again", "rewrite", "end"}
  /\ call.step \in {"lookup", "twin", "move", "copy"} => ~did.took /\ ~did.copied
  /\ call.step \in {"check", "undoRead"} \/ WriteOpen \/ UndoOpen => ~did.took
  /\ ~At("end") \/ TheWrite \in late => ~did.wrote
  /\ did.wrote => call.kind = "update"
  /\ did.took => call.kind # "update" /\ objs.source = Absent
  /\ did.copied => call.kind = "move" /\ objs.target # Absent

\* The source holds what the call found, unless others touched that or the call did.
SourceInv ==
  /\ At("lookup") => objs.source = TheEvent \/ 0 \in given
  /\ call.stored # Absent => call.stored = TheEvent \/ 0 \in given
  /\ call.stored # Absent /\ ~did.took /\ ~did.wrote => objs.source = call.stored \/ Touched
  /\ ~did.wrote /\ objs.source # Absent => objs.source.text < MaxTexts

\* What the write and the removal of the copy are guarded by.
GuardInv ==
  /\ call.seen = IF server.etags = "none" THEN NoTag ELSE TheEvent
  /\ server.star \/ server.etags = "none"
  /\ call.stored # Absent =>
       /\ server.etags = "strong" =>
            call.guard = TheEvent /\ (call.kind = "move" => call.stored = TheEvent)
       /\ server.etags = "weak" => call.guard = NoTag /\ call.stored = TheEvent
       /\ server.etags = "none" => call.guard = AnyTag \/ (call.guard = NoTag /\ ~server.star)
  /\ At("again") => call.guard = AnyTag /\ (server.star => objs.source = Absent)
  /\ server.etags # "strong" => call.copyTag = NoTag
  /\ server.etags = "strong" => call.copyTag = NoTag \/ call.copyTag = call.stored
  /\ server.etags = "strong" /\ UndoOpen => call.copyTag = call.stored

\* Where no ETag guards a request, what it would lose is what the call found or has
\* been written since the last answer; and a deletion since then is not seen.
UnseenInv ==
  /\ WriteOpen /\ server.etags # "strong" /\ objs.source # Absent =>
       objs.source = call.stored \/ objs.source.text \in unseen \cup given
  /\ WriteOpen /\ call.kind = "update" /\ call.guard = NoTag /\ objs.source = Absent => Absent \in unseen
  /\ UndoOpen /\ server.etags # "strong" /\ objs.target # Absent =>
       objs.target.text = call.stored.text \/ objs.target.text \in unseen \cup given

\* Before the source goes, and once MOVE took it, the target holds the event.
CopyInv ==
  /\ \/ call.kind = "move" /\ (At("check") \/ WriteOpen)
     \/ did.took /\ call.step \in {"whereSource", "whereTarget"}
     => Touched \/ (objs.target # Absent /\ objs.target.text = call.stored.text)
  /\ At("whereTarget") /\ ~call.still => objs.source = Absent

WritesInv ==
  TypeOK /\ LateInv /\ PathInv /\ SourceInv /\ GuardInv /\ UnseenInv /\ CopyInv

USE DEF DidType

-----------------------------------------------------------------------------
(* What a call makes of itself.                                            *)

\* The call, but for its step, its outcome and what it saw of the source.
KeptCall ==
  /\ call' \in CallType
  /\ call'.kind = call.kind /\ call'.seen = call.seen /\ call'.stored = call.stored
  /\ call'.guard = call.guard /\ call'.copyTag = call.copyTag

LEMMA Going ==
  ASSUME TypeOK, NEW step \in Steps, GoTo(step)
  PROVE  KeptCall /\ call'.step = step /\ call'.outcome = call.outcome /\ call'.still = call.still
<1>1. call \in CallType /\ call' = [call EXCEPT !.step = step]
  BY DEF TypeOK, GoTo
<1>2. call' \in CallType
  <2>1. \A r \in CallType : [r EXCEPT !.step = step] \in CallType
    BY DEF CallType
  <2> QED
    BY <1>1, <2>1
<1>3. call'.step = step /\ call'.outcome = call.outcome
  BY <1>1 DEF CallType
<1>4. call'.still = call.still
  BY <1>1 DEF CallType
<1> QED
  BY <1>1, <1>2, <1>3, <1>4 DEF KeptCall, CallType

LEMMA Answering ==
  ASSUME TypeOK, NEW how \in Outcomes, Answer(how)
  PROVE  KeptCall /\ call'.step = "end" /\ call'.outcome = how
<1>1. call \in CallType /\ call' = [call EXCEPT !.step = "end", !.outcome = how]
  BY DEF TypeOK, Answer
<1>2. call' \in CallType
  <2>1. \A r \in CallType : [r EXCEPT !.step = "end", !.outcome = how] \in CallType
    BY DEF CallType, Steps
  <2> QED
    BY <1>1, <2>1
<1> QED
  BY <1>1, <1>2 DEF KeptCall, CallType

LEMMA RequestsDiffer ==
  /\ TheMove \notin {TheWrite, TheCopy, TheUndo}
  /\ TheWrite \notin {TheCopy, TheUndo}
  /\ TheCopy # TheUndo
<1>1. TheMove.op = "MOVE" /\ TheWrite.op \in {"PUT", "DELETE"} /\ TheCopy.op = "PUT" /\ TheUndo.op = "DELETE"
  BY DEF TheMove, TheWrite, TheCopy, TheUndo
<1>2. TheWrite.at = "source" /\ TheCopy.at = "target" /\ TheUndo.at = "target"
  BY DEF TheWrite, TheCopy, TheUndo
<1> QED
  BY <1>1, <1>2

LEMMA SameRequests ==
  ASSUME KeptCall
  PROVE  TheMove' = TheMove /\ TheWrite' = TheWrite /\ TheCopy' = TheCopy /\ TheUndo' = TheUndo
BY DEF KeptCall, TheMove, TheWrite, TheCopy, TheUndo

\* What is held up where the call is.
LEMMA HeldUp ==
  ASSUME LateInv
  PROVE  /\ call.step \notin {"whereSource", "whereTarget", "undoRead", "undo", "end"} => late = {}
         /\ TheMove \in late => late = {TheMove} /\ call.kind = "move"
                                /\ call.step \in {"whereSource", "whereTarget", "end"}
         /\ TheWrite \in late => late = {TheWrite} /\ At("end")
         /\ TheCopy \in late => late \subseteq {TheCopy, TheUndo} /\ call.kind = "move"
                                /\ call.step \in {"undoRead", "undo", "end"}
         /\ TheUndo \in late => late \subseteq {TheCopy, TheUndo} /\ call.kind = "move" /\ At("end")
         /\ \A q \in late : q \in {TheMove, TheWrite, TheCopy, TheUndo}
         /\ call.step \in {"undoRead", "undo"} => late \subseteq {TheCopy}
<1>1. /\ TheMove \notin {TheWrite, TheCopy, TheUndo}
      /\ TheWrite \notin {TheCopy, TheUndo}
      /\ TheCopy # TheUndo
  BY RequestsDiffer
<1> QED
  BY <1>1 DEF LateInv, At

-----------------------------------------------------------------------------
(* What a request does.                                                    *)

LEMMA StoredType ==
  ASSUME TypeOK, NEW c \in Contents
  PROVE  Stored(c) \in Contents /\ Stored(c).text = c.text
<1>1. server.rewrites \in BOOLEAN
  BY DEF TypeOK, Servers
<1>2. ASSUME NEW x \in BOOLEAN
      PROVE  [c EXCEPT !.rewritten = x] \in Contents /\ [c EXCEPT !.rewritten = x].text = c.text
  BY DEF Contents
<1> QED
  BY <1>1, <1>2 DEF Stored

\* The event has gone from the source to the target.
MoveDone ==
  /\ did' \in DidType
  /\ objs.source # Absent /\ objs.target = Absent
  /\ objs' \in [Places -> Contents \cup {Absent}]
  /\ objs'.source = Absent /\ objs'.target = objs.source /\ objs'.twin = objs.twin
  /\ did'.took /\ ~did'.wrote /\ did'.copied

CopyDone ==
  /\ did' \in DidType
  /\ objs.target = Absent
  /\ objs' \in [Places -> Contents \cup {Absent}]
  /\ objs'.source = objs.source /\ objs'.twin = objs.twin
  /\ objs'.target # Absent /\ objs'.target.text = call.stored.text
  /\ did'.took = did.took /\ did'.wrote = did.wrote /\ did'.copied

\* The guard of a write let it pass.
Passed(guard, o) ==
  /\ guard # NoTag => o # Absent
  /\ guard = AnyTag => server.star
  /\ guard \in Contents => guard = o

UpdateDone ==
  /\ did' \in DidType
  /\ call.kind = "update" /\ Passed(call.guard, objs.source)
  /\ objs' \in [Places -> Contents \cup {Absent}]
  /\ objs'.source # Absent /\ objs'.source.text = MaxTexts
  /\ objs'.target = objs.target /\ objs'.twin = objs.twin
  /\ did'.took = did.took /\ did'.wrote /\ did'.copied = did.copied

DeleteDone ==
  /\ did' \in DidType
  /\ call.kind # "update" /\ objs.source # Absent /\ Passed(call.guard, objs.source)
  /\ objs' \in [Places -> Contents \cup {Absent}]
  /\ objs'.source = Absent
  /\ objs'.target = objs.target /\ objs'.twin = objs.twin
  /\ did'.took /\ did'.wrote = did.wrote /\ did'.copied = did.copied

UndoDone ==
  /\ did' \in DidType
  /\ objs.target # Absent /\ Passed(call.copyTag, objs.target)
  /\ objs' \in [Places -> Contents \cup {Absent}]
  /\ objs'.target = Absent
  /\ objs'.source = objs.source /\ objs'.twin = objs.twin
  /\ did'.took = did.took /\ did'.wrote = did.wrote /\ ~did'.copied

NothingDone == objs' = objs /\ did' = did

LEMMA DoesNothing ==
  ASSUME WritesInv, objs' = objs, Doing(objs)
  PROVE  NothingDone
<1>1. did \in DidType /\ (did.copied => objs.target # Absent)
  BY DEF WritesInv, TypeOK, PathInv
<1>2. did.took \in BOOLEAN /\ did.wrote \in BOOLEAN /\ did.copied \in BOOLEAN
  BY <1>1
<1>3. did' = [took |-> did.took, wrote |-> did.wrote, copied |-> did.copied]
  <2>1. (did.took \/ (objs.source # Absent /\ objs.source = Absent)) = did.took
    BY <1>2
  <2>2. (did.wrote \/ (objs.source # Absent /\ objs.source # objs.source)) = did.wrote
    BY <1>2
  <2>3. (objs.target # Absent /\ (did.copied \/ objs.target # objs.target)) = did.copied
    BY <1>1, <1>2
  <2> QED
    BY <2>1, <2>2, <2>3 DEF Doing
<1>4. did = [took |-> did.took, wrote |-> did.wrote, copied |-> did.copied]
  BY <1>1
<1> QED
  BY <1>3, <1>4 DEF NothingDone

\* What Doing() says of a change, its parts.
LEMMA DoingParts ==
  ASSUME Doing(objs'), TypeOK
  PROVE  /\ did' \in DidType
         /\ did'.took = (did.took \/ (objs.source # Absent /\ objs'.source = Absent))
         /\ did'.wrote = (did.wrote \/ (objs'.source # Absent /\ objs'.source # objs.source))
         /\ did'.copied = (objs'.target # Absent /\ (did.copied \/ objs'.target # objs.target))
<1> DEFINE t == did.took \/ (objs.source # Absent /\ objs'.source = Absent)
           w == did.wrote \/ (objs'.source # Absent /\ objs'.source # objs.source)
           k == objs'.target # Absent /\ (did.copied \/ objs'.target # objs.target)
<1>1. did' = [took |-> t, wrote |-> w, copied |-> k]
  BY DEF Doing
<1>2. t \in BOOLEAN /\ w \in BOOLEAN /\ k \in BOOLEAN
  OBVIOUS
<1> HIDE DEF t, w, k
<1>3. did' \in DidType
  BY <1>1, <1>2
<1>4. did'.took = t
  BY <1>1
<1>5. did'.wrote = w
  BY <1>1
<1>6. did'.copied = k
  BY <1>1
<1> QED
  BY <1>3, <1>4, <1>5, <1>6 DEF t, w, k

LEMMA MoveServed ==
  ASSUME WritesInv, call.kind = "move",
         objs' = CarriedOut(TheMove, objs).objs, Doing(objs'),
         NEW reply, reply = CarriedOut(TheMove, objs).reply
  PROVE  \/ NothingDone /\ reply \in {"refused", "gone", "taken"}
         \/ MoveDone /\ reply = "ok"
<1> DEFINE new == [objs EXCEPT !.target = objs.source, !.source = Absent]
<1>0. TypeOK /\ ~did.wrote
  BY DEF WritesInv, PathInv
<1>1. \/ objs' = objs /\ reply \in {"refused", "gone", "taken"}
      \/ objs' = new /\ reply = "ok" /\ objs.source # Absent /\ objs.target = Absent
  <2>1. TheMove.op = "MOVE"
    BY DEF TheMove
  <2>2. objs' = Moved(TheMove, objs).objs /\ reply = Moved(TheMove, objs).reply
    BY <2>1 DEF CarriedOut
  <2> QED
    BY <2>2 DEF Moved
<1>2. CASE objs' = objs /\ reply \in {"refused", "gone", "taken"}
  BY <1>2, DoesNothing
<1>3. CASE objs' = new /\ reply = "ok" /\ objs.source # Absent /\ objs.target = Absent
  <2>1. /\ objs' \in [Places -> Contents \cup {Absent}]
        /\ objs'.source = Absent /\ objs'.target = objs.source /\ objs'.twin = objs.twin
    BY <1>0, <1>3 DEF TypeOK, Places
  <2>2. did' \in DidType /\ did'.took /\ ~did'.wrote /\ did'.copied
    BY <1>0, <1>3, <2>1, DoingParts
  <2> QED
    BY <1>3, <2>1, <2>2 DEF MoveDone
<1> QED
  BY <1>1, <1>2, <1>3

LEMMA CopyServed ==
  ASSUME WritesInv, call.stored # Absent,
         objs' = CarriedOut(TheCopy, objs).objs, Doing(objs'),
         NEW reply, reply = CarriedOut(TheCopy, objs).reply
  PROVE  \/ NothingDone /\ reply = "taken"
         \/ CopyDone /\ reply = "ok"
<1> DEFINE new == [objs EXCEPT !.target = Stored(call.stored)]
<1>0. TypeOK
  BY DEF WritesInv
<1>1. \/ objs' = objs /\ reply = "taken"
      \/ objs' = new /\ reply = "ok" /\ objs.target = Absent
  <2>1. TheCopy.op = "PUT" /\ TheCopy.at = "target" /\ TheCopy.body = call.stored
    BY DEF TheCopy
  <2>2. objs' = Put(TheCopy, objs).objs /\ reply = Put(TheCopy, objs).reply
    BY <2>1 DEF CarriedOut
  <2> QED
    BY <2>1, <2>2 DEF Put
<1>2. CASE objs' = objs /\ reply = "taken"
  BY <1>2, DoesNothing
<1>3. CASE objs' = new /\ reply = "ok" /\ objs.target = Absent
  <2>0. call.stored \in Contents
    BY <1>0 DEF TypeOK, CallType
  <2>1. Stored(call.stored) \in Contents /\ Stored(call.stored).text = call.stored.text
    BY <1>0, <2>0, StoredType
  <2>2. Stored(call.stored) # Absent
    BY <2>1, DistinctAssumption
  <2>3. /\ objs' \in [Places -> Contents \cup {Absent}]
        /\ objs'.source = objs.source /\ objs'.twin = objs.twin
        /\ objs'.target # Absent /\ objs'.target.text = call.stored.text
    BY <1>0, <1>3, <2>1, <2>2 DEF TypeOK, Places
  <2>4. did.took \in BOOLEAN /\ did.wrote \in BOOLEAN
    BY <1>0 DEF TypeOK
  <2>5. did' \in DidType /\ did'.copied
    BY <1>0, <1>3, <2>3, DoingParts
  <2>6. did'.took = did.took /\ did'.wrote = did.wrote
    BY <1>0, <2>3, <2>4, DoingParts
  <2> QED
    BY <1>3, <2>3, <2>5, <2>6 DEF CopyDone
<1> QED
  BY <1>1, <1>2, <1>3

\* The write of an update, or the DELETE of the source.
LEMMA WriteServed ==
  ASSUME WritesInv, ~did.took, ~did.wrote,
         objs' = CarriedOut(TheWrite, objs).objs, Doing(objs'),
         NEW reply, reply = CarriedOut(TheWrite, objs).reply
  PROVE  \/ /\ NothingDone /\ reply \in {"refused", "gone", "changed"}
            /\ reply = "changed" /\ call.guard = AnyTag /\ server.star => objs.source = Absent
         \/ (UpdateDone \/ DeleteDone) /\ reply = "ok"
<1>0. /\ TypeOK /\ call.guard \in Guards
      /\ did.took \in BOOLEAN /\ did.wrote \in BOOLEAN /\ did.copied \in BOOLEAN
      /\ did.copied => objs.target # Absent
      /\ objs.source # Absent => objs.source.text < MaxTexts
      /\ \A o : o \in Contents => o # AnyTag /\ o # NoTag
      /\ AnyTag # NoTag
  BY DistinctAssumption DEF WritesInv, TypeOK, CallType, PathInv, SourceInv
<1>1. CASE call.kind = "update"
  <2> DEFINE body == [text |-> MaxTexts, rewritten |-> FALSE]
             new == [objs EXCEPT !.source = Stored(body)]
  <2>1. /\ TheWrite.op = "PUT" /\ TheWrite.at = "source"
        /\ TheWrite.guard = call.guard /\ TheWrite.body = body
    BY <1>1 DEF TheWrite
  <2>2. objs' = Put(TheWrite, objs).objs /\ reply = Put(TheWrite, objs).reply
    BY <2>1 DEF CarriedOut
  <2>3. \/ objs' = objs /\ reply = "refused"
        \/ objs' = objs /\ reply = "changed" /\ ~Passes(objs.source, call.guard)
        \/ objs' = new /\ reply = "ok" /\ (call.guard = NoTag \/ Passes(objs.source, call.guard))
    <3>1. [objs EXCEPT ![TheWrite.at] = Stored(TheWrite.body)] = new
      BY <2>1
    <3> QED
      BY <2>1, <2>2, <3>1 DEF Put
  <2>4. CASE objs' = objs /\ reply = "refused"
    BY <2>4, DoesNothing
  <2>5. CASE objs' = objs /\ reply = "changed" /\ ~Passes(objs.source, call.guard)
    <3>1. NothingDone
      BY <2>5, DoesNothing
    <3>2. call.guard = AnyTag /\ server.star => objs.source = Absent
      BY <1>0, <2>5 DEF Passes
    <3> QED
      BY <2>5, <3>1, <3>2
  <2>6. CASE objs' = new /\ reply = "ok" /\ (call.guard = NoTag \/ Passes(objs.source, call.guard))
    <3>1. Passed(call.guard, objs.source)
      BY <1>0, <2>6 DEF Passed, Passes
    <3>2. body \in Contents
      BY WritesAssumption DEF Contents, Texts
    <3>3. Stored(body) \in Contents /\ Stored(body).text = MaxTexts /\ Stored(body) # Absent
      <4>1. body.text = MaxTexts
        OBVIOUS
      <4> HIDE DEF body
      <4> QED
        BY <1>0, <3>2, <4>1, StoredType, DistinctAssumption
    <3> HIDE DEF body
    <3>4. /\ objs' \in [Places -> Contents \cup {Absent}]
          /\ objs'.source # Absent /\ objs'.source.text = MaxTexts
          /\ objs'.target = objs.target /\ objs'.twin = objs.twin
      BY <1>0, <2>6, <3>3 DEF TypeOK, Places
    <3>5. objs'.source # objs.source
      BY <1>0, <3>4, WritesAssumption
    <3>6. did' \in DidType /\ did'.wrote
      BY <1>0, <3>4, <3>5, DoingParts
    <3>7. did'.took = did.took /\ did'.copied = did.copied
      BY <1>0, <3>4, DoingParts
    <3> QED
      BY <1>1, <2>6, <3>1, <3>4, <3>6, <3>7 DEF UpdateDone
  <2> QED
    BY <2>3, <2>4, <2>5, <2>6
<1>2. CASE call.kind # "update"
  <2> DEFINE new == [objs EXCEPT !.source = Absent]
  <2>1. /\ TheWrite.op = "DELETE" /\ TheWrite.at = "source"
        /\ TheWrite.guard = call.guard
    BY <1>2 DEF TheWrite
  <2>2. objs' = Deleted(TheWrite, objs).objs /\ reply = Deleted(TheWrite, objs).reply
    BY <2>1 DEF CarriedOut
  <2>3. \/ objs' = objs /\ reply \in {"refused", "gone"}
        \/ objs' = objs /\ reply = "changed" /\ objs.source # Absent /\ ~Passes(objs.source, call.guard)
        \/ objs' = new /\ reply = "ok" /\ Passes(objs.source, call.guard)
    <3>1. [objs EXCEPT ![TheWrite.at] = Absent] = new
      BY <2>1
    <3>2. objs[TheWrite.at] = objs.source
      BY <2>1
    <3>3. server.writable \in BOOLEAN
      BY <1>0 DEF TypeOK, Servers
    <3> QED
      BY <2>1, <2>2, <3>1, <3>2, <3>3 DEF Deleted, Passes
  <2>4. CASE objs' = objs /\ reply \in {"refused", "gone"}
    BY <2>4, DoesNothing
  <2>5. CASE objs' = objs /\ reply = "changed" /\ objs.source # Absent /\ ~Passes(objs.source, call.guard)
    <3>1. NothingDone
      BY <2>5, DoesNothing
    <3>2. call.guard = AnyTag /\ server.star => objs.source = Absent
      BY <1>0, <2>5 DEF Passes
    <3> QED
      BY <2>5, <3>1, <3>2
  <2>6. CASE objs' = new /\ reply = "ok" /\ Passes(objs.source, call.guard)
    <3>1. Passed(call.guard, objs.source) /\ objs.source # Absent
      BY <1>0, <2>6 DEF Passed, Passes
    <3>2. /\ objs' \in [Places -> Contents \cup {Absent}]
          /\ objs'.source = Absent
          /\ objs'.target = objs.target /\ objs'.twin = objs.twin
      BY <1>0, <2>6 DEF TypeOK, Places
    <3>3. did' \in DidType /\ did'.took
      BY <1>0, <3>1, <3>2, DoingParts
    <3>4. did'.wrote = did.wrote /\ did'.copied = did.copied
      BY <1>0, <3>2, DoingParts
    <3> QED
      BY <1>2, <2>6, <3>1, <3>2, <3>3, <3>4 DEF DeleteDone
  <2> QED
    BY <2>3, <2>4, <2>5, <2>6
<1> QED
  BY <1>1, <1>2

LEMMA UndoServed ==
  ASSUME WritesInv,
         objs' = CarriedOut(TheUndo, objs).objs, Doing(objs'),
         NEW reply, reply = CarriedOut(TheUndo, objs).reply
  PROVE  \/ NothingDone /\ reply = "gone" /\ objs.target = Absent
         \/ NothingDone /\ reply = "changed"
         \/ UndoDone /\ reply = "ok"
<1> DEFINE new == [objs EXCEPT !.target = Absent]
<1>0. TypeOK /\ did.took \in BOOLEAN /\ did.wrote \in BOOLEAN
  BY DEF WritesInv, TypeOK
<1>1. \/ objs' = objs /\ reply = "gone" /\ objs.target = Absent
      \/ objs' = objs /\ reply = "changed"
      \/ objs' = new /\ reply = "ok" /\ Passes(objs.target, call.copyTag)
  <2>1. TheUndo.op = "DELETE" /\ TheUndo.at = "target" /\ TheUndo.guard = call.copyTag
    BY DEF TheUndo
  <2>2. objs' = Deleted(TheUndo, objs).objs /\ reply = Deleted(TheUndo, objs).reply
    BY <2>1 DEF CarriedOut
  <2>3. [objs EXCEPT ![TheUndo.at] = Absent] = new /\ objs[TheUndo.at] = objs.target
    BY <2>1
  <2> QED
    BY <2>1, <2>2, <2>3 DEF Deleted, Passes
<1>2. CASE objs' = objs /\ reply \in {"gone", "changed"}
  <2>1. NothingDone
    BY <1>2, DoesNothing
  <2> QED
    BY <1>1, <1>2, <2>1
<1>3. CASE objs' = new /\ reply = "ok" /\ Passes(objs.target, call.copyTag)
  <2>1. Passed(call.copyTag, objs.target) /\ objs.target # Absent
    BY <1>3 DEF Passed, Passes
  <2>2. /\ objs' \in [Places -> Contents \cup {Absent}]
        /\ objs'.target = Absent
        /\ objs'.source = objs.source /\ objs'.twin = objs.twin
    BY <1>0, <1>3 DEF TypeOK, Places
  <2>3. did' \in DidType /\ ~did'.copied
    BY <1>0, <2>2, DoingParts
  <2>4. did'.took = did.took /\ did'.wrote = did.wrote
    BY <1>0, <2>2, DoingParts
  <2> QED
    BY <1>3, <2>1, <2>2, <2>3, <2>4 DEF UndoDone
<1> QED
  BY <1>1, <1>2, <1>3

\* A request that is sent, is served, or not, or not yet.
LEMMA Exchanged ==
  ASSUME NEW q, NEW reply, Exchange(q, reply)
  PROVE  \/ /\ objs' = CarriedOut(q, objs).objs /\ Doing(objs') /\ late' = late
            /\ reply \in {CarriedOut(q, objs).reply, "unclear"}
         \/ /\ objs' = objs /\ did' = did /\ reply = "unclear"
            /\ late' = late \/ late' = late \cup {q}
<1>1. CASE \/ /\ reply = CarriedOut(q, objs).reply
              /\ objs' = CarriedOut(q, objs).objs /\ Doing(CarriedOut(q, objs).objs)
              /\ UNCHANGED late
           \/ /\ reply = "unclear"
              /\ objs' = CarriedOut(q, objs).objs /\ Doing(CarriedOut(q, objs).objs)
              /\ UNCHANGED late
  <2>1. Doing(objs')
    BY <1>1
  <2> QED
    BY <1>1, <2>1
<1>2. CASE /\ reply = "unclear" /\ late' \in {late, late \cup {q}}
           /\ UNCHANGED <<objs, did>>
  BY <1>2
<1> QED
  BY <1>1, <1>2 DEF Exchange

-----------------------------------------------------------------------------
(* What the steps of the connector have in common.                         *)

\* Other programs do nothing, and the connector may have had an answer.
OthersRest ==
  server' = server /\ texts' = texts /\ given' = given /\ unseen' \subseteq unseen

\* The call ends, with nothing done.
LEMMA AnswerKeeps ==
  ASSUME WritesInv, ~At("end"), KeptCall, call'.step = "end",
         OthersRest, NothingDone, late' = late
  PROVE  WritesInv'
<1> USE DEF At
<1>0. /\ TypeOK /\ LateInv /\ PathInv /\ SourceInv /\ GuardInv
      /\ TheMove' = TheMove /\ TheWrite' = TheWrite /\ TheCopy' = TheCopy /\ TheUndo' = TheUndo
  BY SameRequests DEF WritesInv
<1>1. TheWrite \notin late /\ TheUndo \notin late
  BY <1>0, HeldUp
<1>2. ~WriteOpen' /\ ~UndoOpen'
  BY <1>0, <1>1 DEF WriteOpen, UndoOpen
<1>3. TypeOK'
  BY <1>0 DEF TypeOK, OthersRest, NothingDone, KeptCall
<1>4. LateInv'
  BY <1>0 DEF LateInv, KeptCall
<1>5. PathInv'
  BY <1>0, <1>1, <1>2 DEF PathInv, KeptCall, NothingDone
<1>6. SourceInv'
  BY <1>0 DEF SourceInv, Touched, KeptCall, NothingDone, OthersRest
<1>7. GuardInv'
  BY <1>0, <1>2 DEF GuardInv, KeptCall, OthersRest
<1>8. UnseenInv' /\ CopyInv'
  BY <1>2 DEF UnseenInv, CopyInv
<1> QED
  BY <1>3, <1>4, <1>5, <1>6, <1>7, <1>8 DEF WritesInv

\* MOVE is carried out, for the call that waits for it or has given up.
LEMMA MoveDoneKeeps ==
  ASSUME WritesInv, call.kind = "move", call.stored # Absent, MoveDone, KeptCall, late' = {},
         OthersRest,
         \/ call'.step \in {"whereSource", "end"}
         \/ call'.step = "whereTarget" /\ At("whereTarget") /\ call'.still = call.still
  PROVE  WritesInv'
<1> USE DEF At
<1>0. /\ TypeOK /\ PathInv /\ SourceInv /\ GuardInv /\ CopyInv
      /\ TheMove' = TheMove /\ TheWrite' = TheWrite /\ TheCopy' = TheCopy /\ TheUndo' = TheUndo
  BY SameRequests DEF WritesInv
<1>1. ~did.took /\ ~did.wrote
  BY <1>0 DEF PathInv, MoveDone
<1>2. ~WriteOpen' /\ ~UndoOpen'
  BY DEF WriteOpen, UndoOpen
<1>3. TypeOK'
  BY <1>0 DEF TypeOK, OthersRest, MoveDone, KeptCall
<1>4. LateInv'
  BY DEF LateInv
<1>5. PathInv'
  BY <1>0, <1>1, <1>2, DistinctAssumption DEF PathInv, KeptCall, MoveDone
<1>6. SourceInv'
  BY <1>0, <1>1 DEF SourceInv, Touched, KeptCall, MoveDone, OthersRest
<1>7. GuardInv'
  BY <1>0, <1>2 DEF GuardInv, KeptCall, OthersRest
<1>8. UnseenInv'
  BY <1>2 DEF UnseenInv
<1>9. CopyInv'
  <2>1. Touched \/ objs.source = call.stored
    BY <1>0, <1>1 DEF SourceInv
  <2> QED
    BY <1>2, <2>1 DEF CopyInv, Touched, MoveDone, KeptCall, OthersRest
<1> QED
  BY <1>3, <1>4, <1>5, <1>6, <1>7, <1>8, <1>9 DEF WritesInv

\* The event is written, or deleted.
LEMMA WriteDoneKeeps ==
  ASSUME WritesInv, WriteOpen, UpdateDone \/ DeleteDone, KeptCall, call'.step = "end", late' = {},
         OthersRest
  PROVE  WritesInv'
<1> USE DEF At
<1>0. TypeOK /\ PathInv /\ SourceInv /\ GuardInv
  BY DEF WritesInv
<1>1. ~did.took /\ ~did.wrote
  BY <1>0 DEF PathInv, WriteOpen
<1>2. ~WriteOpen' /\ ~UndoOpen'
  BY DEF WriteOpen, UndoOpen
<1>3. TypeOK'
  BY <1>0 DEF TypeOK, OthersRest, UpdateDone, DeleteDone, KeptCall
<1>4. LateInv'
  BY DEF LateInv
<1>5. PathInv'
  BY <1>0, <1>1, <1>2 DEF PathInv, KeptCall, UpdateDone, DeleteDone
<1>6. SourceInv'
  BY <1>0, <1>1 DEF SourceInv, Touched, KeptCall, UpdateDone, DeleteDone, OthersRest
<1>7. GuardInv'
  BY <1>0, <1>2 DEF GuardInv, KeptCall, OthersRest
<1>8. UnseenInv' /\ CopyInv'
  BY <1>2 DEF UnseenInv, CopyInv
<1> QED
  BY <1>3, <1>4, <1>5, <1>6, <1>7, <1>8 DEF WritesInv

\* The copy is removed.
LEMMA UndoDoneKeeps ==
  ASSUME WritesInv, UndoOpen, UndoDone, KeptCall, call'.step = "end",
         late' \subseteq late, TheUndo \notin late',
         OthersRest
  PROVE  WritesInv'
<1> USE DEF At
<1>0. /\ TypeOK /\ LateInv /\ PathInv /\ SourceInv /\ GuardInv
      /\ TheMove' = TheMove /\ TheWrite' = TheWrite /\ TheCopy' = TheCopy /\ TheUndo' = TheUndo
  BY SameRequests DEF WritesInv
<1>1. late \subseteq {TheCopy, TheUndo} /\ late' \subseteq {TheCopy}
  BY <1>0, HeldUp DEF UndoOpen
<1>2. ~WriteOpen' /\ ~UndoOpen'
  BY <1>0, <1>1, RequestsDiffer DEF WriteOpen, UndoOpen
<1>3. call.kind = "move" /\ call.stored # Absent
  BY <1>0, HeldUp DEF PathInv, UndoOpen
<1>4. ~did.took
  BY <1>0 DEF PathInv
<1>5. TypeOK'
  BY <1>0 DEF TypeOK, OthersRest, UndoDone, KeptCall
<1>6. LateInv'
  BY <1>0, <1>1, <1>3 DEF LateInv, KeptCall
<1>7. PathInv'
  BY <1>0, <1>2, <1>3, <1>4 DEF PathInv, KeptCall, UndoDone, WriteOpen
<1>8. SourceInv'
  BY <1>0 DEF SourceInv, Touched, KeptCall, UndoDone, OthersRest
<1>9. GuardInv'
  BY <1>0, <1>2 DEF GuardInv, KeptCall, OthersRest
<1>10. UnseenInv' /\ CopyInv'
  BY <1>2 DEF UnseenInv, CopyInv
<1> QED
  BY <1>5, <1>6, <1>7, <1>8, <1>9, <1>10 DEF WritesInv

-----------------------------------------------------------------------------
(* The steps of the connector.                                             *)

LEMMA LookupKeeps ==
  ASSUME WritesInv, Lookup
  PROVE  WritesInv'
<1> USE DEF At
<1>0. /\ TypeOK /\ LateInv /\ PathInv /\ SourceInv /\ GuardInv
      /\ call.step = "lookup" /\ late = {}
      /\ OthersRest /\ NothingDone /\ late' = late /\ unseen' = {}
      /\ server.etags \in {"strong", "weak", "none"}
  BY HeldUp DEF WritesInv, Lookup, Reading, OthersRest, NothingDone, TypeOK, Servers
<1>1. ASSUME NEW how \in {"nothing", "failed"}, Answer(how)
      PROVE  WritesInv'
  <2>1. KeptCall /\ call'.step = "end"
    BY <1>0, <1>1, Answering DEF Outcomes
  <2> QED
    BY <1>0, <2>1, AnswerKeeps
<1>2. ASSUME objs.source # Absent,
             NEW g \in RequireEtag(objs.source, call.kind = "move"),
             call' = [call EXCEPT !.stored = objs.source, !.guard = g,
                        !.step = IF call.kind = "move" THEN "twin" ELSE "write"]
      PROVE  WritesInv'
  <2>1. objs.source \in Contents /\ call \in CallType /\ TheEvent \in Contents /\ 0 \in Texts
    BY <1>0, <1>2, WritesAssumption DEF TypeOK, Places, TheEvent, Contents, Texts
  <2>2. /\ TheEvent # NoTag
        /\ server.etags = "strong" => g = TheEvent /\ (call.kind = "move" => objs.source = TheEvent)
        /\ server.etags = "weak" => g = NoTag /\ objs.source = TheEvent
        /\ server.etags = "none" => g = AnyTag
    <3>1. TheEvent # NoTag
      BY <2>1, DistinctAssumption
    <3>2. call.seen = IF server.etags = "none" THEN NoTag ELSE TheEvent
      BY <1>0 DEF GuardInv
    <3>3. CASE server.etags = "none"
      BY <1>2, <3>1, <3>2, <3>3 DEF RequireEtag
    <3>4. CASE server.etags = "weak"
      BY <1>2, <3>1, <3>2, <3>4 DEF RequireEtag
    <3>5. CASE server.etags = "strong"
      BY <1>2, <3>1, <3>2, <3>5 DEF RequireEtag
    <3> QED
      BY <1>0, <3>1, <3>3, <3>4, <3>5
  <2>3. /\ call' \in CallType
        /\ call'.step = (IF call.kind = "move" THEN "twin" ELSE "write")
        /\ call'.stored = objs.source /\ call'.guard = g
        /\ call'.kind = call.kind /\ call'.seen = call.seen /\ call'.copyTag = call.copyTag
    <3>1. g \in Guards
      BY <1>0, <2>1, <2>2 DEF Guards
    <3>2. \A r \in CallType, s \in Steps, x \in Contents :
            [r EXCEPT !.stored = x, !.guard = g, !.step = s] \in CallType
      BY <3>1 DEF CallType
    <3>3. call' \in CallType
      BY <1>2, <2>1, <3>2 DEF Steps
    <3> QED
      BY <1>2, <2>1, <3>3 DEF CallType
  <2>4. call.stored = Absent /\ ~did.took /\ ~did.copied /\ ~did.wrote
    BY <1>0 DEF PathInv
  <2>5. call.copyTag = NoTag
    BY <1>0, <2>1, <2>4, DistinctAssumption DEF GuardInv, TypeOK, CallType
  <2>6. late' = {} /\ ~UndoOpen' /\ (WriteOpen' => call'.step = "write")
    BY <1>0, <2>3 DEF UndoOpen, WriteOpen
  <2>7. TypeOK'
    BY <1>0, <2>3 DEF TypeOK, OthersRest, NothingDone
  <2>8. LateInv'
    BY <2>6 DEF LateInv
  <2>9. PathInv'
    BY <1>0, <1>2, <2>3, <2>4, <2>6 DEF PathInv, NothingDone, TypeOK, CallType, Kinds
  <2>10. SourceInv'
    BY <1>0, <2>3 DEF SourceInv, NothingDone, OthersRest, Touched
  <2>11. GuardInv'
    BY <1>0, <2>2, <2>3, <2>5, <2>6 DEF GuardInv, NothingDone, OthersRest
  <2>12. UnseenInv'
    BY <1>0, <1>2, <2>3, <2>6 DEF UnseenInv, NothingDone
  <2>13. CopyInv'
    BY <1>0, <2>3, <2>4, <2>6 DEF CopyInv, NothingDone
  <2> QED
    BY <2>7, <2>8, <2>9, <2>10, <2>11, <2>12, <2>13 DEF WritesInv
<1> QED
  BY <1>1, <1>2 DEF Lookup

\* A step with nothing done, to where nothing of the source or the copy is at stake.
LEMMA GoesOn ==
  ASSUME WritesInv, NothingDone, OthersRest, late' = late, KeptCall,
         call'.step \in {"move", "copy", "whereTarget", "undoRead"},
         call.stored # Absent, call.kind = "move",
         call'.step \in {"move", "copy"} => call.step \in {"twin", "move"},
         call'.step = "undoRead" =>
           call.step \in {"copy", "check", "write", "again", "rewrite"},
         call'.step = "whereTarget" => At("whereSource") /\ call'.still = (objs.source # Absent)
  PROVE  WritesInv'
<1> USE DEF At
<1>0. /\ TypeOK /\ LateInv /\ PathInv /\ SourceInv /\ GuardInv /\ CopyInv
      /\ TheMove' = TheMove /\ TheWrite' = TheWrite /\ TheCopy' = TheCopy /\ TheUndo' = TheUndo
  BY SameRequests DEF WritesInv
<1>1. /\ TheWrite \notin late /\ TheUndo \notin late
      /\ call'.step # "whereTarget" => late = {}
      /\ late = {} \/ late = {TheMove}
  <2>1. TheWrite \notin late /\ TheUndo \notin late
    BY <1>0, HeldUp
  <2>2. call'.step # "whereTarget" => late = {}
    BY <1>0, HeldUp
  <2>3. late = {} \/ late = {TheMove}
    BY <1>0, <2>2 DEF LateInv
  <2> QED
    BY <2>1, <2>2, <2>3
<1>2. ~WriteOpen' /\ ~UndoOpen'
  BY <1>0, <1>1 DEF WriteOpen, UndoOpen
<1>3. TypeOK'
  BY <1>0 DEF TypeOK, OthersRest, NothingDone, KeptCall
<1>4. LateInv'
  BY <1>0, <1>1 DEF LateInv, KeptCall
<1>5. PathInv'
  BY <1>0, <1>1, <1>2 DEF PathInv, KeptCall, NothingDone, WriteOpen
<1>6. SourceInv'
  BY <1>0 DEF SourceInv, Touched, KeptCall, NothingDone, OthersRest
<1>7. GuardInv'
  BY <1>0, <1>2 DEF GuardInv, KeptCall, OthersRest
<1>8. UnseenInv'
  BY <1>2 DEF UnseenInv
<1>9. CopyInv'
  BY <1>0, <1>2 DEF CopyInv, Touched, KeptCall, NothingDone, OthersRest
<1> QED
  BY <1>3, <1>4, <1>5, <1>6, <1>7, <1>8, <1>9 DEF WritesInv

\* Only a move takes these steps.
LEMMA MovesOnly ==
  ASSUME WritesInv, call.step \notin {"lookup", "write", "again", "rewrite", "end"}
  PROVE  call.kind = "move" /\ call.stored # Absent
BY DEF WritesInv, PathInv

LEMMA TwinKeeps ==
  ASSUME WritesInv, Twin
  PROVE  WritesInv'
<1>0. TypeOK /\ call.step = "twin" /\ OthersRest /\ NothingDone /\ late' = late
  BY DEF WritesInv, Twin, At, Reading, OthersRest, NothingDone
<1>1. call.kind = "move" /\ call.stored # Absent
  BY <1>0, MovesOnly
<1>2. CASE GoTo("move")
  <2>1. KeptCall /\ call'.step = "move"
    BY <1>0, <1>2, Going DEF Steps
  <2> QED
    BY <1>0, <1>1, <2>1, GoesOn
<1>3. ASSUME NEW how \in {"nothing", "failed"}, Answer(how)
      PROVE  WritesInv'
  <2>1. KeptCall /\ call'.step = "end"
    BY <1>0, <1>3, Answering DEF Outcomes
  <2> QED
    BY <1>0, <2>1, AnswerKeeps DEF At
<1> QED
  BY <1>2, <1>3 DEF Twin

LEMMA MoveKeeps ==
  ASSUME WritesInv, Move
  PROVE  WritesInv'
<1> USE DEF At
<1>0. /\ TypeOK /\ LateInv /\ PathInv /\ SourceInv /\ GuardInv
      /\ call.step = "move" /\ late = {}
      /\ UNCHANGED <<server, texts, given>>
  BY HeldUp DEF WritesInv, Move, Writing
<1>1. call.kind = "move" /\ call.stored # Absent
  BY <1>0, MovesOnly
<1>2. ASSUME NEW reply \in {"ok", "taken", "gone", "refused", "unclear"},
             Exchange(TheMove, reply), Heard(reply), AfterMove(reply)
      PROVE  WritesInv'
  <2>0. OthersRest /\ (reply = "unclear" => unseen' = unseen)
    BY <1>0, <1>2 DEF OthersRest, Heard
  <2>1. /\ KeptCall
        /\ call'.step = CASE reply = "refused" -> "copy" [] reply = "unclear" -> "whereSource" [] OTHER -> "end"
    <3>1. CASE reply = "ok"
      BY <1>0, <1>2, <3>1, Answering DEF AfterMove, Outcomes
    <3>2. CASE reply \in {"taken", "gone"}
      BY <1>0, <1>2, <3>2, Answering DEF AfterMove, Outcomes
    <3>3. CASE reply = "refused"
      BY <1>0, <1>2, <3>3, Going DEF AfterMove, Steps
    <3>4. CASE reply = "unclear"
      BY <1>0, <1>2, <3>4, Going DEF AfterMove, Steps
    <3> QED
      BY <3>1, <3>2, <3>3, <3>4
  <2>2. \/ NothingDone /\ late' = late /\ reply \in {"refused", "gone", "taken", "unclear"}
        \/ MoveDone /\ late' = late /\ reply \in {"ok", "unclear"}
        \/ NothingDone /\ late' = {TheMove} /\ reply = "unclear"
    <3>1. CASE /\ objs' = CarriedOut(TheMove, objs).objs /\ Doing(objs') /\ late' = late
               /\ reply \in {CarriedOut(TheMove, objs).reply, "unclear"}
      <4>1. \/ NothingDone /\ CarriedOut(TheMove, objs).reply \in {"refused", "gone", "taken"}
            \/ MoveDone /\ CarriedOut(TheMove, objs).reply = "ok"
        BY <1>1, <3>1, MoveServed
      <4> QED
        BY <3>1, <4>1
    <3>2. CASE /\ objs' = objs /\ did' = did /\ reply = "unclear"
               /\ late' = late \/ late' = late \cup {TheMove}
      BY <1>0, <3>2 DEF NothingDone
    <3> QED
      BY <1>2, <3>1, <3>2, Exchanged
  <2>3. CASE NothingDone /\ late' = late /\ reply = "refused"
    BY <1>0, <1>1, <2>0, <2>1, <2>3, GoesOn
  <2>4. CASE NothingDone /\ late' = late /\ reply \in {"gone", "taken"}
    BY <1>0, <2>0, <2>1, <2>4, AnswerKeeps
  <2>5. CASE MoveDone /\ late' = late /\ reply \in {"ok", "unclear"}
    BY <1>0, <1>1, <2>0, <2>1, <2>5, MoveDoneKeeps
  <2>6. CASE NothingDone /\ (late' = late \/ late' = {TheMove}) /\ reply = "unclear"
    <3>0. TheMove' = TheMove /\ call'.step = "whereSource"
      BY <2>1, <2>6, SameRequests
    <3>1. TheMove.op = "MOVE" /\ TheMove \in Requests
      BY <1>0, DistinctAssumption DEF TheMove, Requests, Places, TypeOK, CallType
    <3>2. late' \in {{}, {TheMove}} /\ ~WriteOpen' /\ ~UndoOpen'
      <4>1. TheMove \notin {TheWrite', TheUndo'}
        BY <2>1, RequestsDiffer, SameRequests
      <4> QED
        BY <1>0, <2>6, <3>0, <4>1 DEF WriteOpen, UndoOpen
    <3>3. TypeOK'
      BY <1>0, <2>0, <2>1, <2>6, <3>1, <3>2 DEF TypeOK, OthersRest, NothingDone, KeptCall
    <3>4. LateInv'
      BY <1>1, <2>1, <3>0, <3>2 DEF LateInv, KeptCall
    <3>5. PathInv'
      BY <1>0, <1>1, <2>1, <2>6, <3>0, <3>2 DEF PathInv, KeptCall, NothingDone
    <3>6. SourceInv'
      BY <1>0, <2>0, <2>1, <2>6, <3>0 DEF SourceInv, Touched, KeptCall, NothingDone, OthersRest
    <3>7. GuardInv'
      BY <1>0, <2>0, <2>1, <3>0, <3>2 DEF GuardInv, KeptCall, OthersRest
    <3>8. UnseenInv' /\ CopyInv'
      BY <1>0, <2>6, <3>0, <3>2 DEF UnseenInv, CopyInv, PathInv, NothingDone
    <3> QED
      BY <3>3, <3>4, <3>5, <3>6, <3>7, <3>8 DEF WritesInv
  <2> QED
    BY <2>2, <2>3, <2>4, <2>5, <2>6
<1>3. CASE UNCHANGED <<objs, late, did>> /\ Heard("failed") /\ Answer("failed")
  <2>1. KeptCall /\ call'.step = "end"
    BY <1>0, <1>3, Answering DEF Outcomes
  <2> QED
    BY <1>0, <1>3, <2>1, AnswerKeeps DEF OthersRest, NothingDone, Heard
<1> QED
  BY <1>2, <1>3 DEF Move

LEMMA WhereSourceKeeps ==
  ASSUME WritesInv, WhereSource
  PROVE  WritesInv'
<1>0. TypeOK /\ call.step = "whereSource" /\ OthersRest /\ NothingDone /\ late' = late
  BY DEF WritesInv, WhereSource, At, Reading, OthersRest, NothingDone
<1>1. call.kind = "move" /\ call.stored # Absent
  BY <1>0, MovesOnly
<1>2. CASE call' = [call EXCEPT !.still = objs.source # Absent, !.step = "whereTarget"]
  <2> DEFINE x == objs.source # Absent
  <2>0. x \in BOOLEAN /\ call \in CallType /\ call' = [call EXCEPT !.still = x, !.step = "whereTarget"]
    BY <1>0, <1>2 DEF TypeOK
  <2> HIDE DEF x
  <2>1. call' \in CallType
    <3>1. \A r \in CallType : [r EXCEPT !.still = x, !.step = "whereTarget"] \in CallType
      BY <2>0 DEF CallType, Steps
    <3> QED
      BY <2>0, <3>1
  <2>2. KeptCall /\ call'.step = "whereTarget"
    BY <2>0, <2>1 DEF KeptCall, CallType
  <2>3. call'.still = x
    BY <2>0 DEF CallType
  <2> QED
    BY <1>0, <1>1, <2>2, <2>3, GoesOn DEF x, At
<1>3. CASE Answer("unclear")
  <2>1. KeptCall /\ call'.step = "end"
    BY <1>0, <1>3, Answering DEF Outcomes
  <2> QED
    BY <1>0, <2>1, AnswerKeeps DEF At
<1> QED
  BY <1>2, <1>3 DEF WhereSource

LEMMA WhereTargetKeeps ==
  ASSUME WritesInv, WhereTarget
  PROVE  WritesInv'
<1>0. TypeOK /\ call.step = "whereTarget" /\ OthersRest /\ NothingDone /\ late' = late
  BY DEF WritesInv, WhereTarget, At, Reading, OthersRest, NothingDone
<1>1. \E how \in {"done", "nothing", "unclear"} : Answer(how)
  BY DEF WhereTarget
<1>2. KeptCall /\ call'.step = "end"
  BY <1>0, <1>1, Answering DEF Outcomes
<1> QED
  BY <1>0, <1>2, AnswerKeeps DEF At

\* The copy is there, or may come yet, and its answer is unclear.
LEMMA CopyUnclearKeeps ==
  ASSUME WritesInv, At("copy"), call.kind = "move", call.stored # Absent,
         CopyDone \/ NothingDone, late' \in {{}, {TheCopy}}, KeptCall, call'.step = "undoRead",
         OthersRest
  PROVE  WritesInv'
<1> USE DEF At
<1>0. /\ TypeOK /\ PathInv /\ SourceInv /\ GuardInv
      /\ TheMove' = TheMove /\ TheWrite' = TheWrite /\ TheCopy' = TheCopy /\ TheUndo' = TheUndo
      /\ TheCopy # TheWrite /\ TheCopy # TheUndo
  BY SameRequests, RequestsDiffer DEF WritesInv
<1>1. TheCopy \in Requests
  BY <1>0 DEF TheCopy, Requests, Places, Guards, TypeOK, CallType
<1>2. ~WriteOpen' /\ ~UndoOpen'
  BY <1>0 DEF WriteOpen, UndoOpen
<1>3. TypeOK'
  BY <1>0, <1>1 DEF TypeOK, OthersRest, NothingDone, CopyDone, KeptCall
<1>4. LateInv'
  BY <1>0 DEF LateInv, KeptCall
<1>5. ~did.took /\ ~did.wrote /\ did'.took = did.took /\ did'.wrote = did.wrote
  BY <1>0 DEF PathInv, NothingDone, CopyDone
<1>6. PathInv'
  BY <1>0, <1>2, <1>5 DEF PathInv, KeptCall, NothingDone, CopyDone
<1>7. SourceInv'
  BY <1>0, <1>5 DEF SourceInv, Touched, KeptCall, NothingDone, CopyDone, OthersRest
<1>8. GuardInv'
  BY <1>0, <1>2 DEF GuardInv, KeptCall, OthersRest
<1>9. UnseenInv' /\ CopyInv'
  BY <1>2 DEF UnseenInv, CopyInv
<1> QED
  BY <1>3, <1>4, <1>6, <1>7, <1>8, <1>9 DEF WritesInv

\* The copy is there.
LEMMA CopyMadeKeeps ==
  ASSUME WritesInv, At("copy"), call.kind = "move", call.stored # Absent,
         CopyDone, late' = {}, OthersRest, AfterCopy("ok")
  PROVE  WritesInv'
<1> USE DEF At
<1> DEFINE tag == IF server.rewrites THEN NoTag ELSE StrongTag(call.stored)
           step == IF call.guard \in {NoTag, AnyTag} THEN "check" ELSE "write"
<1>0. /\ TypeOK /\ PathInv /\ SourceInv /\ GuardInv
      /\ call \in CallType /\ call.stored \in Contents
      /\ server.etags \in {"strong", "weak", "none"}
  BY DEF WritesInv, TypeOK, CallType, Servers
<1>1. call' = [call EXCEPT !.copyTag = tag, !.step = step]
  BY DEF AfterCopy
<1>2. /\ server.etags # "strong" => tag = NoTag
      /\ tag \in {NoTag, call.stored}
  BY DEF StrongTag
<1>3. step \in {"check", "write"} /\ (step = "write" => server.etags = "strong")
  BY <1>0 DEF GuardInv
<1> HIDE DEF tag, step
<1>4. /\ call' \in CallType /\ call'.step = step /\ call'.copyTag = tag
      /\ call'.kind = call.kind /\ call'.seen = call.seen /\ call'.stored = call.stored
      /\ call'.guard = call.guard
  <2>1. \A r \in CallType, g \in Contents \cup {NoTag}, s \in Steps :
          [r EXCEPT !.copyTag = g, !.step = s] \in CallType
    BY DEF CallType
  <2>2. call' \in CallType
    BY <1>0, <1>1, <1>2, <1>3, <2>1 DEF Steps
  <2> QED
    BY <1>0, <1>1, <2>2 DEF CallType
<1>5. ~UndoOpen' /\ (WriteOpen' => step = "write")
  BY <1>3, <1>4 DEF WriteOpen, UndoOpen
<1>6. TypeOK'
  BY <1>0, <1>4 DEF TypeOK, OthersRest, CopyDone
<1>7. LateInv'
  BY DEF LateInv
<1>8. ~did.took /\ ~did.wrote /\ did'.took = did.took /\ did'.wrote = did.wrote
  BY <1>0 DEF PathInv, CopyDone
<1>9. PathInv'
  BY <1>0, <1>3, <1>4, <1>5, <1>8 DEF PathInv, CopyDone
<1>10. SourceInv'
  BY <1>0, <1>3, <1>4, <1>8 DEF SourceInv, Touched, CopyDone, OthersRest
<1>11. GuardInv'
  BY <1>0, <1>2, <1>3, <1>4, <1>5 DEF GuardInv, OthersRest
<1>12. UnseenInv'
  BY <1>3, <1>4, <1>5 DEF UnseenInv, OthersRest
<1>13. CopyInv'
  BY <1>3, <1>4, <1>8 DEF CopyInv, CopyDone
<1> QED
  BY <1>6, <1>7, <1>9, <1>10, <1>11, <1>12, <1>13 DEF WritesInv

LEMMA CopyKeeps ==
  ASSUME WritesInv, Copy
  PROVE  WritesInv'
<1> USE DEF At
<1>0. /\ TypeOK /\ LateInv /\ call.step = "copy" /\ late = {}
      /\ UNCHANGED <<server, texts, given>>
  BY HeldUp DEF WritesInv, Copy, Writing
<1>1. call.kind = "move" /\ call.stored # Absent
  BY <1>0, MovesOnly
<1>2. ASSUME AfterCopy("taken"), NothingDone, late' = late, OthersRest
      PROVE  WritesInv'
  <2>1. KeptCall /\ call'.step = "end"
    BY <1>0, <1>2, Answering DEF AfterCopy, Outcomes
  <2> QED
    BY <1>0, <1>2, <2>1, AnswerKeeps
<1>3. ASSUME NEW reply \in {"ok", "taken", "unclear"},
             Exchange(TheCopy, reply), Heard(reply), AfterCopy(reply)
      PROVE  WritesInv'
  <2>0. OthersRest
    BY <1>0, <1>3 DEF OthersRest, Heard
  <2>1. \/ NothingDone /\ late' = late /\ reply = "taken"
        \/ CopyDone /\ late' = {} /\ reply = "ok"
        \/ (NothingDone \/ CopyDone) /\ late' \in {{}, {TheCopy}} /\ reply = "unclear"
    <3>1. CASE /\ objs' = CarriedOut(TheCopy, objs).objs /\ Doing(objs') /\ late' = late
               /\ reply \in {CarriedOut(TheCopy, objs).reply, "unclear"}
      <4>1. \/ NothingDone /\ CarriedOut(TheCopy, objs).reply = "taken"
            \/ CopyDone /\ CarriedOut(TheCopy, objs).reply = "ok"
        BY <1>1, <3>1, CopyServed
      <4> QED
        BY <1>0, <3>1, <4>1
    <3>2. CASE /\ objs' = objs /\ did' = did /\ reply = "unclear"
               /\ late' = late \/ late' = late \cup {TheCopy}
      BY <1>0, <3>2 DEF NothingDone
    <3> QED
      BY <1>3, <3>1, <3>2, Exchanged
  <2>2. CASE NothingDone /\ late' = late /\ reply = "taken"
    BY <1>2, <1>3, <2>0, <2>2
  <2>3. CASE CopyDone /\ late' = {} /\ reply = "ok"
    BY <1>0, <1>1, <1>3, <2>0, <2>3, CopyMadeKeeps
  <2>4. CASE (NothingDone \/ CopyDone) /\ late' \in {{}, {TheCopy}} /\ reply = "unclear"
    <3>1. GoTo("undoRead")
      BY <1>3, <2>4 DEF AfterCopy
    <3>2. KeptCall /\ call'.step = "undoRead"
      BY <1>0, <3>1, Going DEF Steps
    <3> QED
      BY <1>0, <1>1, <2>0, <2>4, <3>2, CopyUnclearKeeps
  <2> QED
    BY <2>1, <2>2, <2>3, <2>4
<1>4. CASE UNCHANGED <<objs, late, did>> /\ Heard("taken") /\ AfterCopy("taken")
  BY <1>0, <1>2, <1>4 DEF OthersRest, NothingDone, Heard
<1> QED
  BY <1>3, <1>4 DEF Copy

\* rolledBack() from wherever the source is not deleted after all.
LEMMA RollBackKeeps ==
  ASSUME WritesInv, call.step \in {"check", "write", "again", "rewrite"}, call.kind = "move",
         RollBack, NothingDone, late' = late, OthersRest
  PROVE  WritesInv'
<1> USE DEF At
<1>0. TypeOK /\ LateInv /\ PathInv /\ SourceInv /\ GuardInv /\ late = {} /\ call.stored # Absent
  BY HeldUp DEF WritesInv, PathInv
<1>1. CASE call.copyTag = NoTag
  <2>1. KeptCall /\ call'.step = "undoRead"
    BY <1>0, <1>1, Going DEF RollBack, GoTo, Steps
  <2> QED
    BY <1>0, <2>1, GoesOn
<1>2. CASE call.copyTag # NoTag
  <2>1. KeptCall /\ call'.step = "undo"
    BY <1>0, <1>2, Going DEF RollBack, GoTo, Steps
  <2>2. server.etags = "strong" /\ call.copyTag = call.stored
    BY <1>0, <1>2 DEF GuardInv
  <2>3. ~WriteOpen' /\ UndoOpen' /\ late' = {}
    BY <1>0, <2>1 DEF WriteOpen, UndoOpen
  <2>4. TypeOK'
    BY <1>0, <2>1 DEF TypeOK, OthersRest, NothingDone, KeptCall
  <2>5. LateInv'
    BY <2>3 DEF LateInv
  <2>6. PathInv'
    BY <1>0, <2>1, <2>3 DEF PathInv, WriteOpen, KeptCall, NothingDone
  <2>7. SourceInv'
    BY <1>0, <2>1 DEF SourceInv, Touched, KeptCall, NothingDone, OthersRest
  <2>8. GuardInv'
    BY <1>0, <2>1, <2>2 DEF GuardInv, KeptCall, OthersRest
  <2>9. UnseenInv' /\ CopyInv'
    BY <2>1, <2>2, <2>3 DEF UnseenInv, CopyInv, OthersRest
  <2> QED
    BY <2>4, <2>5, <2>6, <2>7, <2>8, <2>9 DEF WritesInv
<1> QED
  BY <1>1, <1>2

LEMMA CheckKeeps ==
  ASSUME WritesInv, Check
  PROVE  WritesInv'
<1> USE DEF At
<1>0. /\ TypeOK /\ LateInv /\ PathInv /\ SourceInv /\ GuardInv /\ CopyInv
      /\ call.step = "check" /\ late = {}
      /\ OthersRest /\ NothingDone /\ late' = late /\ unseen' = {}
  BY HeldUp DEF WritesInv, Check, Reading, OthersRest, NothingDone
<1>1. call.kind = "move" /\ call.stored # Absent
  BY <1>0, MovesOnly
<1>2. CASE RollBack
  BY <1>0, <1>1, <1>2, RollBackKeeps
<1>3. CASE objs.source = call.stored /\ GoTo("write")
  <2>1. KeptCall /\ call'.step = "write"
    BY <1>0, <1>3, Going DEF Steps
  <2>2. ~UndoOpen' /\ late' = {} /\ WriteOpen'
    BY <1>0, <2>1 DEF UndoOpen, WriteOpen
  <2>3. TypeOK'
    BY <1>0, <2>1 DEF TypeOK, OthersRest, NothingDone, KeptCall
  <2>4. LateInv'
    BY <2>2 DEF LateInv
  <2>5. PathInv'
    BY <1>0, <1>1, <2>1, <2>2 DEF PathInv, KeptCall, NothingDone
  <2>6. SourceInv'
    BY <1>0, <2>1 DEF SourceInv, Touched, KeptCall, NothingDone, OthersRest
  <2>7. GuardInv'
    BY <1>0, <2>1, <2>2 DEF GuardInv, KeptCall, OthersRest
  <2>8. UnseenInv'
    BY <1>1, <1>3, <1>0, <2>1, <2>2 DEF UnseenInv, KeptCall, NothingDone
  <2>9. CopyInv'
    BY <1>0, <1>1, <2>1 DEF CopyInv, Touched, KeptCall, NothingDone, OthersRest
  <2> QED
    BY <2>3, <2>4, <2>5, <2>6, <2>7, <2>8, <2>9 DEF WritesInv
<1> QED
  BY <1>2, <1>3 DEF Check

\* What becomes of the call where its write was not carried out.
LEMMA AfterWriteKeeps ==
  ASSUME WritesInv, call.step \in {"write", "again", "rewrite"}, NothingDone, late' = late, OthersRest,
         NEW reply \in {"changed", "gone", "refused", "unclear"}, AfterWrite(reply)
  PROVE  WritesInv'
<1>0. TypeOK
  BY DEF WritesInv
<1>1. CASE call.kind = "move" /\ RollBack
  BY <1>1, RollBackKeeps
<1>2. CASE \E how \in {"nothing", "failed", "both"} : Answer(how)
  <2>1. KeptCall /\ call'.step = "end"
    BY <1>0, <1>2, Answering DEF Outcomes
  <2> QED
    BY <2>1, AnswerKeeps DEF At
<1> QED
  BY <1>1, <1>2 DEF AfterWrite

\* The write is held up.
LEMMA WriteHeldKeeps ==
  ASSUME WritesInv, call.step \in {"write", "rewrite"}, NothingDone, late' = {TheWrite},
         OthersRest, unseen' = unseen, KeptCall, call'.step = "end"
  PROVE  WritesInv'
<1> USE DEF At
<1>0. /\ TypeOK /\ LateInv /\ PathInv /\ SourceInv /\ GuardInv /\ UnseenInv /\ CopyInv
      /\ TheMove' = TheMove /\ TheWrite' = TheWrite /\ TheCopy' = TheCopy /\ TheUndo' = TheUndo
  BY SameRequests DEF WritesInv
<1>1. TheWrite \in Requests
  <2>1. call.guard \in Guards /\ "source" \in Places
    BY <1>0 DEF TypeOK, CallType, Places
  <2>2. [text |-> MaxTexts, rewritten |-> FALSE] \in Contents
    BY WritesAssumption DEF Contents, Texts
  <2> QED
    BY <2>1, <2>2 DEF TheWrite, Requests
<1>2. WriteOpen /\ WriteOpen' /\ ~UndoOpen'
  BY <1>0, RequestsDiffer DEF WriteOpen, UndoOpen
<1>3. TypeOK'
  BY <1>0, <1>1 DEF TypeOK, OthersRest, NothingDone, KeptCall
<1>4. LateInv'
  BY <1>0 DEF LateInv
<1>5. PathInv'
  BY <1>0, <1>2 DEF PathInv, KeptCall, NothingDone
<1>6. SourceInv'
  BY <1>0 DEF SourceInv, Touched, KeptCall, NothingDone, OthersRest
<1>7. GuardInv'
  BY <1>0, <1>2 DEF GuardInv, KeptCall, OthersRest
<1>8. UnseenInv'
  BY <1>0, <1>2 DEF UnseenInv, KeptCall, NothingDone, OthersRest
<1>9. CopyInv'
  BY <1>0, <1>2 DEF CopyInv, Touched, KeptCall, NothingDone, OthersRest
<1> QED
  BY <1>3, <1>4, <1>5, <1>6, <1>7, <1>8, <1>9 DEF WritesInv

\* The fates of a write that is sent.
LEMMA WriteFates ==
  ASSUME WritesInv, call.step \in {"write", "rewrite"}, NEW reply, Exchange(TheWrite, reply)
  PROVE  /\ late = {} /\ ~did.took /\ ~did.wrote
         /\ \/ /\ NothingDone /\ late' = late
               /\ reply \in {"refused", "gone", "changed", "unclear"}
               /\ reply = "changed" /\ call.guard = AnyTag /\ server.star => objs.source = Absent
            \/ (UpdateDone \/ DeleteDone) /\ late' = {} /\ reply \in {"ok", "unclear"}
            \/ NothingDone /\ late' = {TheWrite} /\ reply = "unclear"
<1>1. late = {} /\ ~did.took /\ ~did.wrote
  BY HeldUp DEF WritesInv, PathInv, WriteOpen, At
<1>2. CASE /\ objs' = CarriedOut(TheWrite, objs).objs /\ Doing(objs') /\ late' = late
           /\ reply \in {CarriedOut(TheWrite, objs).reply, "unclear"}
  <2> DEFINE said == CarriedOut(TheWrite, objs).reply
  <2>1. \/ /\ NothingDone /\ said \in {"refused", "gone", "changed"}
           /\ said = "changed" /\ call.guard = AnyTag /\ server.star => objs.source = Absent
        \/ (UpdateDone \/ DeleteDone) /\ said = "ok"
    BY <1>1, <1>2, WriteServed
  <2> QED
    BY <1>1, <1>2, <2>1
<1>3. CASE /\ objs' = objs /\ did' = did /\ reply = "unclear"
           /\ late' = late \/ late' = late \cup {TheWrite}
  BY <1>1, <1>3 DEF NothingDone
<1> QED
  BY <1>1, <1>2, <1>3, Exchanged

LEMMA SendsWriteKeeps ==
  ASSUME WritesInv, call.step \in {"write", "rewrite"}, OthersRest,
         NEW reply \in {"ok", "changed", "gone", "refused", "unclear"},
         Exchange(TheWrite, reply), AfterWrite(reply), reply = "unclear" => unseen' = unseen
  PROVE  WritesInv'
<1>0. TypeOK
  BY DEF WritesInv
<1>1. CASE NothingDone /\ late' = late /\ reply \in {"refused", "gone", "changed", "unclear"}
  BY <1>1, AfterWriteKeeps
<1>2. CASE (UpdateDone \/ DeleteDone) /\ late' = {} /\ reply \in {"ok", "unclear"}
  <2>1. \E how \in {"done", "both", "failed"} : Answer(how)
    BY <1>2 DEF AfterWrite
  <2>2. KeptCall /\ call'.step = "end"
    BY <1>0, <2>1, Answering DEF Outcomes
  <2> QED
    BY <1>2, <2>2, WriteDoneKeeps DEF WriteOpen
<1>3. CASE NothingDone /\ late' = {TheWrite} /\ reply = "unclear"
  <2>1. \E how \in {"both", "failed"} : Answer(how)
    BY <1>3 DEF AfterWrite
  <2>2. KeptCall /\ call'.step = "end"
    BY <1>0, <2>1, Answering DEF Outcomes
  <2> QED
    BY <1>3, <2>2, WriteHeldKeeps
<1> QED
  BY <1>1, <1>2, <1>3, WriteFates

LEMMA RewriteKeeps ==
  ASSUME WritesInv, Rewrite
  PROVE  WritesInv'
<1>1. PICK reply \in {"ok", "changed", "gone", "refused", "unclear"} :
        Exchange(TheWrite, reply) /\ Heard(reply) /\ AfterWrite(reply)
  BY DEF Rewrite
<1>2. OthersRest /\ (reply = "unclear" => unseen' = unseen) /\ call.step = "rewrite"
  BY <1>1 DEF Rewrite, Writing, OthersRest, Heard, At
<1> QED
  BY <1>1, <1>2, SendsWriteKeeps

LEMMA WriteKeeps ==
  ASSUME WritesInv, Write
  PROVE  WritesInv'
<1> USE DEF At
<1>0. /\ TypeOK /\ LateInv /\ PathInv /\ SourceInv /\ GuardInv /\ UnseenInv /\ CopyInv
      /\ call.step = "write" /\ UNCHANGED <<server, texts, given>>
  BY DEF WritesInv, Write, Writing
<1>1. PICK reply \in {"ok", "changed", "gone", "refused", "unclear"} :
        /\ Exchange(TheWrite, reply)
        /\ IF call.guard = AnyTag /\ reply = "changed"
           THEN GoTo("again") /\ UNCHANGED unseen
           ELSE Heard(reply) /\ AfterWrite(reply)
  BY DEF Write
<1>2. CASE ~(call.guard = AnyTag /\ reply = "changed")
  <2>1. OthersRest /\ (reply = "unclear" => unseen' = unseen) /\ AfterWrite(reply)
    BY <1>0, <1>1, <1>2 DEF OthersRest, Heard
  <2> QED
    BY <1>0, <1>1, <2>1, SendsWriteKeeps
<1>3. CASE call.guard = AnyTag /\ reply = "changed"
  <2>1. /\ NothingDone /\ late' = {} /\ late = {}
        /\ server.star => objs.source = Absent
    BY <1>0, <1>1, <1>3, WriteFates
  <2>2. KeptCall /\ call'.step = "again" /\ OthersRest /\ unseen' = unseen
    BY <1>0, <1>1, <1>3, Going DEF Steps, OthersRest
  <2>3. WriteOpen /\ WriteOpen' /\ ~UndoOpen'
    BY <1>0, <2>1, <2>2 DEF WriteOpen, UndoOpen
  <2>4. TypeOK'
    BY <1>0, <2>1, <2>2 DEF TypeOK, OthersRest, NothingDone, KeptCall
  <2>5. LateInv'
    BY <2>1 DEF LateInv
  <2>6. PathInv'
    BY <1>0, <2>1, <2>2, <2>3 DEF PathInv, KeptCall, NothingDone
  <2>7. SourceInv'
    BY <1>0, <2>1, <2>2 DEF SourceInv, Touched, KeptCall, NothingDone, OthersRest
  <2>8. GuardInv'
    BY <1>0, <1>3, <2>1, <2>2, <2>3 DEF GuardInv, KeptCall, NothingDone, OthersRest
  <2>9. UnseenInv'
    BY <1>0, <2>1, <2>2, <2>3 DEF UnseenInv, KeptCall, NothingDone, OthersRest
  <2>10. CopyInv'
    BY <1>0, <2>1, <2>2, <2>3 DEF CopyInv, Touched, KeptCall, NothingDone, OthersRest
  <2> QED
    BY <2>4, <2>5, <2>6, <2>7, <2>8, <2>9, <2>10 DEF WritesInv
<1> QED
  BY <1>2, <1>3

LEMMA AgainKeeps ==
  ASSUME WritesInv, Again
  PROVE  WritesInv'
<1> USE DEF At
<1>0. /\ TypeOK /\ LateInv /\ PathInv /\ SourceInv /\ GuardInv /\ UnseenInv /\ CopyInv
      /\ call.step = "again" /\ late = {} /\ call.guard = AnyTag
      /\ OthersRest /\ NothingDone /\ late' = late /\ unseen' = unseen \ {Absent}
  BY HeldUp DEF WritesInv, Again, OthersRest, NothingDone, GuardInv
<1>1. CASE AfterWrite("gone") \/ AfterWrite("unclear")
  BY <1>0, <1>1, AfterWriteKeeps
<1>2. CASE /\ objs.source # Absent
           /\ call' = [call EXCEPT !.guard = StrongTag(objs.source), !.step = "rewrite"]
  <2>1. call.stored # Absent /\ ~server.star /\ server.etags = "none"
    <3>1. call.stored # Absent /\ ~server.star
      BY <1>0, <1>2 DEF GuardInv, PathInv
    <3>2. server.etags = "none"
      BY <1>0, <3>1 DEF GuardInv
    <3> QED
      BY <3>1, <3>2
  <2>2. call \in CallType /\ call' = [call EXCEPT !.guard = NoTag, !.step = "rewrite"]
    BY <1>0, <1>2, <2>1 DEF StrongTag, TypeOK
  <2>3. /\ call' \in CallType /\ call'.step = "rewrite" /\ call'.guard = NoTag
        /\ call'.kind = call.kind /\ call'.seen = call.seen /\ call'.stored = call.stored
        /\ call'.copyTag = call.copyTag
    <3>1. \A r \in CallType, g \in Guards, s \in Steps : [r EXCEPT !.guard = g, !.step = s] \in CallType
      BY DEF CallType
    <3>2. call' \in CallType
      BY <2>2, <3>1 DEF Guards, Steps
    <3> QED
      BY <2>2, <3>2 DEF CallType
  <2>4. WriteOpen /\ WriteOpen' /\ ~UndoOpen' /\ late' = {}
    BY <1>0, <2>3 DEF WriteOpen, UndoOpen
  <2>5. TypeOK'
    BY <1>0, <2>3 DEF TypeOK, OthersRest, NothingDone
  <2>6. LateInv'
    BY <2>4 DEF LateInv
  <2>7. PathInv'
    BY <1>0, <2>3, <2>4 DEF PathInv, NothingDone
  <2>8. SourceInv'
    BY <1>0, <2>3 DEF SourceInv, Touched, NothingDone, OthersRest
  <2>9. GuardInv'
    BY <1>0, <2>1, <2>3, <2>4 DEF GuardInv, OthersRest
  <2>10. objs.source.text # Absent
    BY <1>0, <1>2, DistinctAssumption DEF TypeOK, Places, Contents
  <2>11. UnseenInv'
    BY <1>0, <1>2, <2>3, <2>4, <2>10 DEF UnseenInv, NothingDone, OthersRest
  <2>12. CopyInv'
    BY <1>0, <2>3, <2>4 DEF CopyInv, Touched, NothingDone, OthersRest
  <2> QED
    BY <2>5, <2>6, <2>7, <2>8, <2>9, <2>11, <2>12 DEF WritesInv
<1> QED
  BY <1>1, <1>2 DEF Again

LEMMA UndoReadKeeps ==
  ASSUME WritesInv, UndoRead
  PROVE  WritesInv'
<1> USE DEF At
<1>0. /\ TypeOK /\ LateInv /\ PathInv /\ SourceInv /\ GuardInv /\ UnseenInv /\ CopyInv
      /\ call.step = "undoRead" /\ late \subseteq {TheCopy}
      /\ OthersRest /\ NothingDone /\ late' = late /\ unseen' = {}
      /\ server.etags \in {"strong", "weak", "none"}
  BY HeldUp DEF WritesInv, UndoRead, Reading, OthersRest, NothingDone, TypeOK, Servers
<1>1. call.kind = "move" /\ call.stored # Absent
  BY <1>0, MovesOnly
<1>2. ASSUME NEW how \in {"nothing", "both"}, Answer(how)
      PROVE  WritesInv'
  <2>1. KeptCall /\ call'.step = "end"
    BY <1>0, <1>2, Answering DEF Outcomes
  <2> QED
    BY <1>0, <2>1, AnswerKeeps
<1>3. CASE /\ objs.target = call.stored
           /\ call' = [call EXCEPT !.copyTag = StrongTag(objs.target), !.step = "undo"]
  <2> DEFINE tag == StrongTag(call.stored)
  <2>1. /\ tag \in Contents \cup {NoTag}
        /\ server.etags # "strong" => tag = NoTag
        /\ server.etags = "strong" => tag = call.stored
    BY <1>0, <1>1 DEF StrongTag, TypeOK, CallType
  <2>2. call \in CallType /\ call' = [call EXCEPT !.copyTag = tag, !.step = "undo"]
    BY <1>0, <1>3 DEF TypeOK
  <2> HIDE DEF tag
  <2>3. /\ call' \in CallType /\ call'.step = "undo" /\ call'.copyTag = tag
        /\ call'.kind = call.kind /\ call'.seen = call.seen /\ call'.stored = call.stored
        /\ call'.guard = call.guard
    <3>1. \A r \in CallType, g \in Contents \cup {NoTag}, s \in Steps :
            [r EXCEPT !.copyTag = g, !.step = s] \in CallType
      BY DEF CallType
    <3>2. call' \in CallType
      BY <2>1, <2>2, <3>1 DEF Steps
    <3> QED
      BY <2>2, <3>2 DEF CallType
  <2>4. /\ UndoOpen' /\ ~WriteOpen' /\ late' \subseteq {TheCopy'} /\ TheUndo' \notin late'
    <3>1. TheCopy' = TheCopy
      BY <2>3 DEF TheCopy
    <3>2. TheWrite'.at = "source" /\ TheCopy.at = "target"
      BY DEF TheWrite, TheCopy
    <3>3. TheUndo'.op = "DELETE" /\ TheCopy.op = "PUT"
      BY DEF TheUndo, TheCopy
    <3> QED
      BY <1>0, <2>3, <3>1, <3>2, <3>3 DEF UndoOpen, WriteOpen
  <2>5. TypeOK'
    BY <1>0, <2>3 DEF TypeOK, OthersRest, NothingDone
  <2>6. LateInv'
    BY <1>1, <2>3, <2>4 DEF LateInv
  <2>7. PathInv'
    BY <1>0, <1>1, <2>3, <2>4 DEF PathInv, NothingDone
  <2>8. SourceInv'
    BY <1>0, <2>3 DEF SourceInv, Touched, NothingDone, OthersRest
  <2>9. GuardInv'
    BY <1>0, <2>1, <2>3, <2>4 DEF GuardInv, OthersRest
  <2>10. UnseenInv'
    BY <1>3, <1>0, <2>3, <2>4 DEF UnseenInv, NothingDone
  <2>11. CopyInv'
    BY <2>3, <2>4 DEF CopyInv
  <2> QED
    BY <2>5, <2>6, <2>7, <2>8, <2>9, <2>10, <2>11 DEF WritesInv
<1> QED
  BY <1>2, <1>3 DEF UndoRead

\* The removal of the copy is held up.
LEMMA UndoHeldKeeps ==
  ASSUME WritesInv, At("undo"), NothingDone, late' = late \cup {TheUndo},
         OthersRest, unseen' = unseen, KeptCall, call'.step = "end"
  PROVE  WritesInv'
<1> USE DEF At
<1>0. /\ TypeOK /\ LateInv /\ PathInv /\ SourceInv /\ GuardInv /\ UnseenInv /\ CopyInv
      /\ TheMove' = TheMove /\ TheWrite' = TheWrite /\ TheCopy' = TheCopy /\ TheUndo' = TheUndo
      /\ late \subseteq {TheCopy}
  BY SameRequests, HeldUp DEF WritesInv
<1>1. TheUndo \in Requests
  BY <1>0 DEF TheUndo, Requests, Places, Guards, TypeOK, CallType
<1>2. UndoOpen /\ UndoOpen' /\ ~WriteOpen' /\ late' \subseteq {TheCopy, TheUndo}
  BY <1>0, RequestsDiffer DEF WriteOpen, UndoOpen
<1>3. call.kind = "move" /\ call.stored # Absent
  BY MovesOnly
<1>4. TypeOK'
  BY <1>0, <1>1 DEF TypeOK, OthersRest, NothingDone, KeptCall
<1>5. LateInv'
  BY <1>0, <1>2, <1>3 DEF LateInv, KeptCall
<1>6. PathInv'
  BY <1>0, <1>2, <1>3 DEF PathInv, KeptCall, NothingDone
<1>7. SourceInv'
  BY <1>0 DEF SourceInv, Touched, KeptCall, NothingDone, OthersRest
<1>8. GuardInv'
  BY <1>0, <1>2 DEF GuardInv, KeptCall, OthersRest
<1>9. UnseenInv'
  BY <1>0, <1>2 DEF UnseenInv, KeptCall, NothingDone, OthersRest
<1>10. CopyInv'
  BY <1>2 DEF CopyInv
<1> QED
  BY <1>4, <1>5, <1>6, <1>7, <1>8, <1>9, <1>10 DEF WritesInv

\* The fates of a removal of the copy.
LEMMA UndoFates ==
  ASSUME WritesInv, At("undo"), NEW reply, Exchange(TheUndo, reply)
  PROVE  \/ NothingDone /\ late' = late /\ reply = "gone" /\ objs.target = Absent
         \/ NothingDone /\ late' = late /\ reply \in {"changed", "unclear"}
         \/ UndoDone /\ late' = late /\ reply \in {"ok", "unclear"}
         \/ NothingDone /\ late' = late \cup {TheUndo} /\ reply = "unclear"
<1>1. CASE /\ objs' = CarriedOut(TheUndo, objs).objs /\ Doing(objs') /\ late' = late
           /\ reply \in {CarriedOut(TheUndo, objs).reply, "unclear"}
  <2> DEFINE said == CarriedOut(TheUndo, objs).reply
  <2>1. \/ NothingDone /\ said = "gone" /\ objs.target = Absent
        \/ NothingDone /\ said = "changed"
        \/ UndoDone /\ said = "ok"
    BY <1>1, UndoServed
  <2> QED
    BY <1>1, <2>1
<1>2. CASE /\ objs' = objs /\ did' = did /\ reply = "unclear"
           /\ late' = late \/ late' = late \cup {TheUndo}
  BY <1>2 DEF NothingDone
<1> QED
  BY <1>1, <1>2, Exchanged

LEMMA UndoKeeps ==
  ASSUME WritesInv, Undo
  PROVE  WritesInv'
<1>1. PICK reply \in {"ok", "changed", "gone", "unclear"} :
        /\ Exchange(TheUndo, reply)
        /\ Heard(reply)
        /\ Answer(IF reply \in {"ok", "gone"} THEN "nothing" ELSE "both")
  BY DEF Undo
<1>2. /\ TypeOK /\ LateInv /\ At("undo")
      /\ OthersRest /\ (reply = "unclear" => unseen' = unseen)
  BY <1>1 DEF WritesInv, Undo, Writing, OthersRest, Heard
<1>3. KeptCall /\ call'.step = "end"
  BY <1>1, <1>2, Answering DEF Outcomes
<1>4. CASE NothingDone /\ late' = late
  BY <1>2, <1>3, <1>4, AnswerKeeps DEF At
<1>5. CASE UndoDone /\ late' = late
  <2>1. UndoOpen /\ TheUndo \notin late'
    BY <1>2, <1>5, HeldUp DEF UndoOpen, At
  <2> QED
    BY <1>2, <1>3, <1>5, <2>1, UndoDoneKeeps
<1>6. CASE NothingDone /\ late' = late \cup {TheUndo} /\ reply = "unclear"
  BY <1>2, <1>3, <1>6, UndoHeldKeeps
<1> QED
  BY <1>1, <1>2, <1>4, <1>5, <1>6, UndoFates

-----------------------------------------------------------------------------
(* Everyone else.                                                          *)

\* A request held up comes to nothing.
LEMMA LateNothingKeeps ==
  ASSUME WritesInv, NothingDone, late' \subseteq late, call' = call, server' = server,
         texts' = texts, given' = given, unseen' = unseen
  PROVE  WritesInv'
<1> USE DEF At
<1>0. /\ TypeOK /\ LateInv /\ PathInv /\ SourceInv /\ GuardInv /\ UnseenInv /\ CopyInv
      /\ TheMove' = TheMove /\ TheWrite' = TheWrite /\ TheCopy' = TheCopy /\ TheUndo' = TheUndo
  BY DEF WritesInv, TheMove, TheWrite, TheCopy, TheUndo
<1>1. (WriteOpen' => WriteOpen) /\ (UndoOpen' => UndoOpen)
  BY <1>0 DEF WriteOpen, UndoOpen
<1>2. TypeOK'
  BY <1>0 DEF TypeOK, NothingDone
<1>3. LateInv'
  BY <1>0 DEF LateInv
<1>4. PathInv'
  BY <1>0, <1>1 DEF PathInv, NothingDone
<1>5. SourceInv'
  BY <1>0 DEF SourceInv, Touched, NothingDone
<1>6. GuardInv'
  BY <1>0, <1>1 DEF GuardInv, NothingDone
<1>7. UnseenInv'
  BY <1>0, <1>1 DEF UnseenInv, NothingDone
<1>8. CopyInv'
  BY <1>0, <1>1 DEF CopyInv, Touched, NothingDone
<1> QED
  BY <1>2, <1>3, <1>4, <1>5, <1>6, <1>7, <1>8 DEF WritesInv

\* The copy comes after all.
LEMMA LateCopyKeeps ==
  ASSUME WritesInv, TheCopy \in late, CopyDone, late' = late \ {TheCopy}, call' = call,
         server' = server, texts' = texts, given' = given, unseen' = unseen
  PROVE  WritesInv'
<1> USE DEF At
<1>0. /\ TypeOK /\ LateInv /\ PathInv /\ SourceInv /\ GuardInv /\ UnseenInv /\ CopyInv
      /\ TheMove' = TheMove /\ TheWrite' = TheWrite /\ TheCopy' = TheCopy /\ TheUndo' = TheUndo
      /\ late \subseteq {TheCopy, TheUndo} /\ call.kind = "move"
      /\ call.step \in {"undoRead", "undo", "end"}
  BY HeldUp DEF WritesInv, TheMove, TheWrite, TheCopy, TheUndo
<1>1. ~WriteOpen' /\ (UndoOpen' => UndoOpen)
  BY <1>0, RequestsDiffer DEF WriteOpen, UndoOpen
<1>2. TypeOK'
  BY <1>0 DEF TypeOK, CopyDone
<1>3. LateInv'
  BY <1>0 DEF LateInv
<1>4. PathInv'
  BY <1>0, <1>1 DEF PathInv, CopyDone
<1>5. SourceInv'
  BY <1>0 DEF SourceInv, Touched, CopyDone
<1>6. GuardInv'
  BY <1>0, <1>1 DEF GuardInv
<1>7. UnseenInv'
  BY <1>0, <1>1 DEF UnseenInv, CopyDone
<1>8. CopyInv'
  BY <1>0, <1>1 DEF CopyInv
<1> QED
  BY <1>2, <1>3, <1>4, <1>5, <1>6, <1>7, <1>8 DEF WritesInv

\* What a request held up does, when it is carried out.
LEMMA LateFates ==
  ASSUME WritesInv, NEW q \in late, late' = late \ {q}, objs' = CarriedOut(q, objs).objs, Doing(objs')
  PROVE  \/ NothingDone
         \/ q = TheMove /\ MoveDone /\ late' = {} /\ call.kind = "move"
              /\ call.step \in {"whereSource", "whereTarget", "end"}
         \/ q = TheWrite /\ (UpdateDone \/ DeleteDone) /\ late' = {} /\ At("end")
         \/ q = TheCopy /\ CopyDone
         \/ q = TheUndo /\ UndoDone /\ At("end")
<1>0. LateInv /\ PathInv /\ call.stored # Absent /\ q \in {TheMove, TheWrite, TheCopy, TheUndo}
  BY HeldUp DEF WritesInv, PathInv
<1>1. CASE q = TheMove
  <2>1. late = {TheMove} /\ call.kind = "move" /\ call.step \in {"whereSource", "whereTarget", "end"}
    BY <1>0, <1>1, HeldUp
  <2>2. NothingDone \/ MoveDone
    BY <1>1, <2>1, MoveServed
  <2> QED
    BY <1>1, <2>1, <2>2
<1>2. CASE q = TheWrite
  <2>1. late = {TheWrite} /\ At("end")
    BY <1>0, <1>2, HeldUp
  <2>2. ~did.took /\ ~did.wrote
    BY <1>0, <1>2 DEF PathInv, WriteOpen
  <2>3. NothingDone \/ UpdateDone \/ DeleteDone
    BY <1>2, <2>2, WriteServed
  <2> QED
    BY <1>2, <2>1, <2>3
<1>3. CASE q = TheCopy
  BY <1>0, <1>3, CopyServed
<1>4. CASE q = TheUndo
  <2>1. At("end")
    BY <1>0, <1>4, HeldUp
  <2> QED
    BY <1>4, <2>1, UndoServed
<1> QED
  BY <1>0, <1>1, <1>2, <1>3, <1>4

LEMMA LateKeeps ==
  ASSUME WritesInv, Late
  PROVE  WritesInv'
<1>1. PICK q \in late :
        /\ late' = late \ {q}
        /\ objs' = CarriedOut(q, objs).objs
        /\ Doing(objs')
        /\ UNCHANGED <<server, call, texts, unseen, given>>
  BY DEF Late
<1>2. OthersRest /\ KeptCall /\ call.stored # Absent /\ call' = call
  BY <1>1 DEF OthersRest, KeptCall, WritesInv, TypeOK, PathInv
<1>3. CASE NothingDone
  BY <1>1, <1>3, LateNothingKeeps
<1>4. CASE /\ q = TheMove /\ MoveDone /\ late' = {} /\ call.kind = "move"
           /\ call.step \in {"whereSource", "whereTarget", "end"}
  BY <1>2, <1>4, MoveDoneKeeps DEF At
<1>5. CASE q = TheWrite /\ (UpdateDone \/ DeleteDone) /\ late' = {} /\ At("end")
  BY <1>1, <1>2, <1>5, WriteDoneKeeps DEF WriteOpen, At
<1>6. CASE q = TheCopy /\ CopyDone
  BY <1>1, <1>6, LateCopyKeeps
<1>7. CASE q = TheUndo /\ UndoDone /\ At("end")
  BY <1>1, <1>2, <1>7, UndoDoneKeeps DEF UndoOpen, At
<1> QED
  BY <1>1, <1>3, <1>4, <1>5, <1>6, <1>7, LateFates

\* What is at a place after another program changed one.
LEMMA PlacedAt ==
  ASSUME TypeOK, NEW p \in Places, NEW c \in Contents \cup {Absent}, objs' = [objs EXCEPT ![p] = c]
  PROVE  /\ objs' \in [Places -> Contents \cup {Absent}]
         /\ objs'.source = IF p = "source" THEN c ELSE objs.source
         /\ objs'.target = IF p = "target" THEN c ELSE objs.target
         /\ objs'.twin = IF p = "twin" THEN c ELSE objs.twin
BY DEF TypeOK, Places

\* What others do to the history of what was done.
LEMMA CopyForgotten ==
  ASSUME TypeOK, NEW p, did' = [did EXCEPT !.copied = did.copied /\ p # "target"]
  PROVE  /\ did' \in DidType
         /\ did'.took = did.took /\ did'.wrote = did.wrote
         /\ did'.copied = (did.copied /\ p # "target")
<1> DEFINE k == did.copied /\ p # "target"
<1>1. did \in DidType /\ k \in BOOLEAN /\ did' = [did EXCEPT !.copied = k]
  BY DEF TypeOK
<1> HIDE DEF k
<1>2. did' \in DidType
  BY <1>1
<1>3. did'.took = did.took
  BY <1>1
<1>4. did'.wrote = did.wrote
  BY <1>1
<1>5. did'.copied = k
  BY <1>1
<1> QED
  BY <1>2, <1>3, <1>4, <1>5 DEF k

\* The content another program writes.
NewText == [text |-> texts, rewritten |-> FALSE]

LEMMA NewTextType ==
  ASSUME TypeOK
  PROVE  NewText \in Contents /\ NewText.text = texts /\ NewText # Absent
<1>1. texts \in Texts
  BY WritesAssumption DEF TypeOK, Texts
<1>2. NewText \in Contents /\ NewText.text = texts
  BY <1>1 DEF NewText, Contents
<1> QED
  BY <1>2, DistinctAssumption

\* What a program other than the connector leaves alone.
OthersLeave ==
  /\ server' = server /\ call' = call /\ late' = late
  /\ did' \in DidType /\ did'.took = did.took /\ did'.wrote = did.wrote

LEMMA EditKeeps ==
  ASSUME WritesInv, NEW p \in Places, Edit(p)
  PROVE  WritesInv'
<1> USE DEF At
<1>0. /\ TypeOK /\ LateInv /\ PathInv /\ SourceInv /\ GuardInv /\ UnseenInv /\ CopyInv
      /\ texts < MaxTexts /\ texts' = texts + 1 /\ unseen' = unseen \cup {texts}
      /\ given' = given \cup {objs[p].text} /\ objs[p] # Absent
      /\ objs[p] \in Contents /\ objs[p].text \in Texts
  BY DEF WritesInv, Edit, TypeOK, Contents
<1>1. OthersLeave /\ did'.copied = (did.copied /\ p # "target")
  BY <1>0, CopyForgotten DEF OthersLeave, Edit
<1>2. /\ WriteOpen' = WriteOpen /\ UndoOpen' = UndoOpen /\ TheMove' = TheMove
      /\ TheCopy' = TheCopy /\ TheUndo' = TheUndo /\ TheWrite' = TheWrite
  BY <1>1 DEF OthersLeave, WriteOpen, UndoOpen, TheMove, TheCopy, TheUndo, TheWrite
<1>3. /\ objs' \in [Places -> Contents \cup {Absent}]
      /\ objs'.source = IF p = "source" THEN NewText ELSE objs.source
      /\ objs'.target = IF p = "target" THEN NewText ELSE objs.target
  BY ZenonT(60), <1>0, NewTextType, PlacedAt DEF Edit, NewText
<1>4. NewText.text = texts /\ NewText # Absent
  BY <1>0, NewTextType
<1>5. objs[p] = (IF p = "source" THEN objs.source ELSE IF p = "target" THEN objs.target ELSE objs.twin)
  BY DEF Places
<1>6. TypeOK'
  <2>1. texts' \in 1..MaxTexts /\ texts \in Texts
    BY <1>0, WritesAssumption DEF TypeOK, Texts
  <2> QED
    BY <1>0, <1>1, <1>3, <2>1 DEF TypeOK, OthersLeave
<1>7. LateInv'
  BY <1>0, <1>1, <1>2 DEF LateInv, OthersLeave
<1>8. PathInv'
  BY <1>0, <1>1, <1>2, <1>3, <1>4, <1>5 DEF PathInv, OthersLeave
<1>9. SourceInv'
  <2>1. TheEvent.text = 0 /\ texts \in Int /\ MaxTexts \in Int
    BY <1>0, WritesAssumption DEF TheEvent, TypeOK
  <2> QED
    BY <1>0, <1>1, <1>3, <1>4, <1>5, <2>1 DEF SourceInv, Touched, OthersLeave
<1>10. GuardInv'
  BY <1>0, <1>1, <1>2, <1>3, <1>5 DEF GuardInv, OthersLeave
<1>11. UnseenInv'
  BY <1>0, <1>1, <1>2, <1>3, <1>4, <1>5 DEF UnseenInv, OthersLeave
<1>12. CopyInv'
  BY <1>0, <1>1, <1>2, <1>3, <1>4, <1>5 DEF CopyInv, Touched, OthersLeave
<1> QED
  BY <1>6, <1>7, <1>8, <1>9, <1>10, <1>11, <1>12 DEF WritesInv

LEMMA RemoveKeeps ==
  ASSUME WritesInv, NEW p \in Places, Remove(p)
  PROVE  WritesInv'
<1> USE DEF At
<1>0. /\ TypeOK /\ LateInv /\ PathInv /\ SourceInv /\ GuardInv /\ UnseenInv /\ CopyInv
      /\ texts' = texts /\ unseen' = IF p = "source" THEN unseen \cup {Absent} ELSE unseen
      /\ given' = given \cup {objs[p].text} /\ objs[p] # Absent
      /\ objs[p] \in Contents /\ objs[p].text \in Texts
  BY DEF WritesInv, Remove, TypeOK, Contents
<1>1. OthersLeave /\ did'.copied = (did.copied /\ p # "target")
  BY <1>0, CopyForgotten DEF OthersLeave, Remove
<1>2. /\ WriteOpen' = WriteOpen /\ UndoOpen' = UndoOpen /\ TheMove' = TheMove
      /\ TheCopy' = TheCopy /\ TheUndo' = TheUndo /\ TheWrite' = TheWrite
  BY <1>1 DEF OthersLeave, WriteOpen, UndoOpen, TheMove, TheCopy, TheUndo, TheWrite
<1>3. /\ objs' \in [Places -> Contents \cup {Absent}]
      /\ objs'.source = IF p = "source" THEN Absent ELSE objs.source
      /\ objs'.target = IF p = "target" THEN Absent ELSE objs.target
  BY <1>0, PlacedAt DEF Remove
<1>4. objs[p] = (IF p = "source" THEN objs.source ELSE IF p = "target" THEN objs.target ELSE objs.twin)
  BY DEF Places
<1>5. TypeOK'
  BY <1>0, <1>1, <1>3 DEF TypeOK, OthersLeave
<1>6. LateInv'
  BY <1>0, <1>1, <1>2 DEF LateInv, OthersLeave
<1>7. PathInv'
  BY <1>0, <1>1, <1>2, <1>3, <1>4 DEF PathInv, OthersLeave
<1>8. SourceInv'
  <2>1. TheEvent.text = 0
    BY DEF TheEvent
  <2> QED
    BY <1>0, <1>1, <1>3, <1>4, <2>1 DEF SourceInv, Touched, OthersLeave
<1>9. GuardInv'
  BY <1>0, <1>1, <1>2, <1>3 DEF GuardInv, OthersLeave
<1>10. UnseenInv'
  BY <1>0, <1>1, <1>2, <1>3 DEF UnseenInv, OthersLeave
<1>11. CopyInv'
  BY <1>0, <1>1, <1>2, <1>3, <1>4 DEF CopyInv, Touched, OthersLeave
<1> QED
  BY <1>5, <1>6, <1>7, <1>8, <1>9, <1>10, <1>11 DEF WritesInv

LEMMA ArriveKeeps ==
  ASSUME WritesInv, NEW p \in Places, Arrive(p)
  PROVE  WritesInv'
<1> USE DEF At
<1>0. /\ TypeOK /\ LateInv /\ PathInv /\ SourceInv /\ GuardInv /\ UnseenInv /\ CopyInv
      /\ texts < MaxTexts /\ texts' = texts + 1 /\ unseen' = unseen \cup {texts}
      /\ given' = given /\ p # "source" /\ objs[p] = Absent
  BY DEF WritesInv, Arrive
<1>1. OthersLeave /\ did' = did
  BY <1>0 DEF OthersLeave, Arrive, TypeOK
<1>2. /\ WriteOpen' = WriteOpen /\ UndoOpen' = UndoOpen /\ TheMove' = TheMove
      /\ TheCopy' = TheCopy /\ TheUndo' = TheUndo /\ TheWrite' = TheWrite
  BY <1>1 DEF OthersLeave, WriteOpen, UndoOpen, TheMove, TheCopy, TheUndo, TheWrite
<1>3. /\ objs' \in [Places -> Contents \cup {Absent}]
      /\ objs'.source = objs.source
      /\ objs'.target = IF p = "target" THEN NewText ELSE objs.target
  BY ZenonT(60), <1>0, NewTextType, PlacedAt DEF Arrive, NewText
<1>4. NewText.text = texts /\ NewText # Absent
  BY <1>0, NewTextType
<1>5. p = "target" => objs.target = Absent
  BY <1>0
<1>6. TypeOK'
  <2>1. texts' \in 1..MaxTexts /\ texts \in Texts
    BY <1>0, WritesAssumption DEF TypeOK, Texts
  <2> QED
    BY <1>0, <1>1, <1>3, <2>1 DEF TypeOK, OthersLeave
<1>7. LateInv'
  BY <1>0, <1>1, <1>2 DEF LateInv, OthersLeave
<1>8. PathInv'
  BY <1>0, <1>1, <1>2, <1>3, <1>4 DEF PathInv, OthersLeave
<1>9. SourceInv'
  BY <1>0, <1>1, <1>3 DEF SourceInv, Touched, OthersLeave
<1>10. GuardInv'
  BY <1>0, <1>1, <1>2, <1>3 DEF GuardInv, OthersLeave
<1>11. UnseenInv'
  BY <1>0, <1>1, <1>2, <1>3, <1>4 DEF UnseenInv, OthersLeave
<1>12. CopyInv'
  BY <1>0, <1>1, <1>2, <1>3, <1>5 DEF CopyInv, Touched, OthersLeave
<1> QED
  BY <1>6, <1>7, <1>8, <1>9, <1>10, <1>11, <1>12 DEF WritesInv

-----------------------------------------------------------------------------
(* The invariant holds.                                                    *)

LEMMA UnchangedKeeps ==
  ASSUME WritesInv, UNCHANGED vars
  PROVE  WritesInv'
<1>1. /\ NothingDone /\ late' \subseteq late /\ call' = call /\ server' = server
      /\ texts' = texts /\ given' = given /\ unseen' = unseen
  BY DEF vars, NothingDone
<1> QED
  BY <1>1, LateNothingKeeps

LEMMA InitInv == Init => WritesInv
<1> SUFFICES ASSUME Init PROVE WritesInv
  OBVIOUS
<1>1. PICK kind \in Kinds :
       call = [ kind |-> kind, step |-> "lookup",
                seen |-> IF server.etags = "none" THEN NoTag ELSE TheEvent,
                stored |-> Absent, guard |-> NoTag, copyTag |-> NoTag,
                still |-> FALSE, outcome |-> "none" ]
  BY DEF Init
<1>2. TheEvent \in Contents /\ TheEvent # Absent /\ TheEvent.text = 0 /\ 0 < MaxTexts
  <2>1. TheEvent \in Contents /\ TheEvent.text = 0
    BY WritesAssumption DEF TheEvent, Contents, Texts
  <2> QED
    BY <2>1, WritesAssumption, DistinctAssumption
<1>3. objs \in [Places -> Contents \cup {Absent}] /\ objs.source = TheEvent
  BY <1>2 DEF Init, Places
<1>4. call \in CallType
  BY <1>1, <1>2 DEF CallType, Steps, Guards, Outcomes
<1>5. call.step = "lookup" /\ call.stored = Absent /\ call.copyTag = NoTag /\ call.outcome = "none"
      /\ call.seen = IF server.etags = "none" THEN NoTag ELSE TheEvent
  BY <1>1
<1>6. did \in DidType /\ ~did.took /\ ~did.wrote /\ ~did.copied
  BY DEF Init
<1>7. server \in Servers /\ (server.star \/ server.etags = "none") /\ late = {}
      /\ texts = 1 /\ unseen = {} /\ given = {}
  BY DEF Init
<1>8. TypeOK
  BY <1>3, <1>4, <1>6, <1>7, WritesAssumption DEF TypeOK
<1>9. ~WriteOpen /\ ~UndoOpen
  BY <1>5, <1>7 DEF WriteOpen, UndoOpen, At
<1>10. LateInv /\ PathInv
  BY <1>5, <1>6, <1>7, <1>9 DEF LateInv, PathInv, At
<1>11. SourceInv
  BY <1>2, <1>3, <1>5 DEF SourceInv, At
<1>12. GuardInv
  BY <1>5, <1>7, <1>9 DEF GuardInv, At
<1>13. UnseenInv /\ CopyInv
  BY <1>5, <1>6, <1>9 DEF UnseenInv, CopyInv, At
<1> QED
  BY <1>8, <1>10, <1>11, <1>12, <1>13 DEF WritesInv

LEMMA NextKeeps ==
  ASSUME WritesInv, [Next]_vars
  PROVE  WritesInv'
<1>1. CASE Update
  BY <1>1, LookupKeeps, WriteKeeps, AgainKeeps, RewriteKeeps DEF Update
<1>2. CASE MoveEvent
  BY <1>2, TwinKeeps, MoveKeeps, WhereSourceKeeps, WhereTargetKeeps, CopyKeeps, CheckKeeps,
     UndoReadKeeps, UndoKeeps DEF MoveEvent
<1>3. CASE Late
  BY <1>3, LateKeeps
<1>4. CASE Others
  BY <1>4, EditKeeps, RemoveKeeps, ArriveKeeps DEF Others
<1>5. CASE UNCHANGED vars
  BY <1>5, UnchangedKeeps
<1> QED
  BY <1>1, <1>2, <1>3, <1>4, <1>5 DEF Next, Ended

LEMMA Invariance == Spec => []WritesInv
BY InitInv, NextKeeps, PTL DEF Spec

\* A call, what a server holds and the requests that are held up have their types,
\* whatever the server does with a request and whenever.
THEOREM WritesTypeCorrect == Spec => []TypeOK
<1>1. WritesInv => TypeOK
  BY DEF WritesInv
<1> QED
  BY Invariance, <1>1, PTL

-----------------------------------------------------------------------------
(* What a step does to what others wrote.                                  *)

\* Why a step changed what the server holds.
Effect ==
  \/ objs' = objs
  \/ MoveDone
  \/ CopyDone
  \/ (UpdateDone \/ DeleteDone) /\ WriteOpen
  \/ UndoDone /\ UndoOpen
  \/ ~OurStep /\ (objs.source = Absent => objs'.source = Absent)

LEMMA MoveFates ==
  ASSUME WritesInv, call.kind = "move", NEW reply, Exchange(TheMove, reply)
  PROVE  \/ NothingDone /\ reply \in {"refused", "gone", "taken", "unclear"}
         \/ MoveDone /\ reply \in {"ok", "unclear"}
<1>1. CASE /\ objs' = CarriedOut(TheMove, objs).objs /\ Doing(objs')
           /\ reply \in {CarriedOut(TheMove, objs).reply, "unclear"}
  <2> DEFINE said == CarriedOut(TheMove, objs).reply
  <2>1. \/ NothingDone /\ said \in {"refused", "gone", "taken"}
        \/ MoveDone /\ said = "ok"
    BY <1>1, MoveServed
  <2> QED
    BY <1>1, <2>1
<1>2. CASE objs' = objs /\ did' = did /\ reply = "unclear"
  BY <1>2 DEF NothingDone
<1> QED
  BY <1>1, <1>2, Exchanged

LEMMA CopyFates ==
  ASSUME WritesInv, call.stored # Absent, NEW reply, Exchange(TheCopy, reply)
  PROVE  \/ NothingDone /\ reply \in {"taken", "unclear"}
         \/ CopyDone /\ reply \in {"ok", "unclear"}
<1>1. CASE /\ objs' = CarriedOut(TheCopy, objs).objs /\ Doing(objs')
           /\ reply \in {CarriedOut(TheCopy, objs).reply, "unclear"}
  <2> DEFINE said == CarriedOut(TheCopy, objs).reply
  <2>1. \/ NothingDone /\ said = "taken"
        \/ CopyDone /\ said = "ok"
    BY <1>1, CopyServed
  <2> QED
    BY <1>1, <2>1
<1>2. CASE objs' = objs /\ did' = did /\ reply = "unclear"
  BY <1>2 DEF NothingDone
<1> QED
  BY <1>1, <1>2, Exchanged

LEMMA StepEffect ==
  ASSUME WritesInv, Next
  PROVE  Effect
<1> USE DEF Effect
<1>1. CASE Move
  <2>1. call.kind = "move"
    BY <1>1, MovesOnly DEF Move, At
  <2>2. objs' = objs \/ MoveDone
    BY <1>1, <2>1, MoveFates DEF Move, NothingDone
  <2> QED
    BY <2>2
<1>2. CASE Copy
  <2>1. call.stored # Absent
    BY <1>2, MovesOnly DEF Copy, At
  <2>2. objs' = objs \/ CopyDone
    BY <1>2, <2>1, CopyFates DEF Copy, NothingDone
  <2> QED
    BY <2>2
<1>3. CASE Write \/ Rewrite
  <2>1. call.step \in {"write", "rewrite"} /\ \E reply : Exchange(TheWrite, reply)
    BY <1>3 DEF Write, Rewrite, At
  <2>2. objs' = objs \/ UpdateDone \/ DeleteDone
    BY <2>1, WriteFates DEF NothingDone
  <2> QED
    BY <2>1, <2>2 DEF WriteOpen
<1>4. CASE Undo
  <2>1. At("undo") /\ \E reply : Exchange(TheUndo, reply)
    BY <1>4 DEF Undo
  <2>2. objs' = objs \/ UndoDone
    BY <2>1, UndoFates DEF NothingDone
  <2> QED
    BY <2>1, <2>2 DEF UndoOpen
<1>5. CASE Late
  <2>1. PICK q \in late : late' = late \ {q} /\ objs' = CarriedOut(q, objs).objs /\ Doing(objs')
    BY <1>5 DEF Late
  <2> QED
    BY <2>1, LateFates DEF NothingDone, WriteOpen, UndoOpen
<1>6. CASE Others
  <2>1. PICK p \in Places : Edit(p) \/ Remove(p) \/ Arrive(p)
    BY <1>6 DEF Others
  <2>2. TypeOK
    BY DEF WritesInv
  <2>3. ~OurStep
    BY <2>1 DEF OurStep, Edit, Remove, Arrive
  <2>4. p # "source" => objs'.source = objs.source
    BY <2>1, <2>2 DEF Edit, Remove, Arrive, TypeOK, Places
  <2>5. p = "source" => objs.source # Absent
    BY <2>1 DEF Edit, Remove, Arrive
  <2> QED
    BY <2>3, <2>4, <2>5
<1>7. CASE Lookup \/ Again \/ Twin \/ WhereSource \/ WhereTarget \/ Check \/ UndoRead \/ Ended
  BY <1>7 DEF Lookup, Again, Twin, WhereSource, WhereTarget, Check, UndoRead, Ended, Reading, vars
<1> QED
  BY <1>1, <1>2, <1>3, <1>4, <1>5, <1>6, <1>7 DEF Next, Update, MoveEvent

\* A text that goes was at a place that changed, and is at none that did not.
LEMMA Gone ==
  ASSUME NEW t \in Held(objs) \ Held(objs')
  PROVE  /\ \E p \in Places : objs[p] # Absent /\ t = objs[p].text /\ objs'[p] # objs[p]
         /\ objs'.source # Absent => t # objs'.source.text
         /\ objs'.target # Absent => t # objs'.target.text
BY DEF Held, Places

LEMMA LosesNothing ==
  ASSUME WritesInv, Effect
  PROVE  NothingLost
<1> SUFFICES ASSUME OurStep, NEW t \in Held(objs) \ Held(objs')
             PROVE  \/ call.kind # "move" /\ call.seen # NoTag /\ t = call.seen.text
                    \/ /\ call.kind # "move" /\ call.seen = NoTag
                       /\ call.stored # Absent /\ t = call.stored.text
                    \/ t \in given
                    \/ server.etags # "strong" /\ t \in unseen
  BY DEF NothingLost, AskedFor
<1>0. /\ TypeOK /\ LateInv /\ PathInv /\ SourceInv /\ GuardInv /\ UnseenInv /\ CopyInv
      /\ TheEvent.text = 0 /\ TheEvent \in Contents /\ NoTag # TheEvent
  <2>1. TheEvent \in Contents /\ TheEvent.text = 0
    BY WritesAssumption DEF TheEvent, Contents, Texts
  <2> QED
    BY <2>1, DistinctAssumption DEF WritesInv
<1>1. PICK p \in Places : objs[p] # Absent /\ t = objs[p].text /\ objs'[p] # objs[p]
  BY Gone
<1>2. /\ objs'.source # Absent => t # objs'.source.text
      /\ objs'.target # Absent => t # objs'.target.text
  BY Gone
<1>3. p \in {"source", "target", "twin"}
  BY DEF Places
<1>4. CASE objs' = objs
  BY <1>1, <1>4
<1>5. CASE MoveDone
  BY <1>1, <1>2, <1>3, <1>5 DEF MoveDone
<1>6. CASE CopyDone
  BY <1>1, <1>3, <1>6 DEF CopyDone
<1>7. CASE (UpdateDone \/ DeleteDone) /\ WriteOpen
  <2>1. /\ objs.source # Absent /\ t = objs.source.text /\ Passed(call.guard, objs.source)
        /\ objs'.target = objs.target
    BY <1>1, <1>3, <1>7 DEF UpdateDone, DeleteDone
  <2>2. call.stored # Absent /\ ~did.took /\ ~did.wrote
    BY <1>0, <1>7 DEF PathInv, WriteOpen, At
  <2>3. objs.source = call.stored \/ Touched
    BY <1>0, <2>2 DEF SourceInv
  <2>4. CASE server.etags = "strong"
    <3>1. objs.source = TheEvent
      BY <1>0, <2>1, <2>2, <2>4 DEF GuardInv, Passed
    <3>2. call.kind = "move" => t \in given
      <4>1. call.kind = "move" => call.stored = TheEvent
        BY <1>0, <2>2, <2>4 DEF GuardInv
      <4>2. call.kind = "move" => Touched \/ (objs.target # Absent /\ objs.target.text = call.stored.text)
        BY <1>0, <1>7 DEF CopyInv
      <4> QED
        BY <1>0, <1>2, <2>1, <3>1, <4>1, <4>2 DEF Touched
    <3>3. call.seen = TheEvent
      BY <1>0, <2>4 DEF GuardInv
    <3> QED
      BY <1>0, <2>1, <3>1, <3>2, <3>3
  <2>5. CASE server.etags # "strong"
    <3>1. objs.source = call.stored \/ objs.source.text \in unseen \cup given
      BY <1>0, <1>7, <2>1, <2>5 DEF UnseenInv
    <3>2. CASE objs.source = call.stored /\ call.kind = "move"
      <4>1. Touched \/ (objs.target # Absent /\ objs.target.text = call.stored.text)
        BY <1>0, <1>7, <3>2 DEF CopyInv
      <4> QED
        BY <1>2, <2>1, <3>2, <4>1 DEF Touched
    <3>3. CASE objs.source = call.stored /\ call.kind # "move"
      <4>1. call.seen = NoTag \/ (call.seen = TheEvent /\ call.stored = TheEvent)
        <5>1. server.etags \in {"strong", "weak", "none"}
          BY <1>0 DEF TypeOK, Servers
        <5> QED
          BY <1>0, <2>2, <2>5, <5>1 DEF GuardInv
      <4> QED
        BY <1>0, <2>1, <2>2, <3>3, <4>1
    <3> QED
      BY <2>1, <2>5, <3>1, <3>2, <3>3
  <2> QED
    BY <2>4, <2>5
<1>8. CASE UndoDone /\ UndoOpen
  <2>1. objs.target # Absent /\ t = objs.target.text /\ Passed(call.copyTag, objs.target) /\ objs'.source = objs.source
    BY <1>1, <1>3, <1>8 DEF UndoDone
  <2>2. call.stored # Absent /\ call.kind = "move" /\ ~did.took /\ ~did.wrote
    BY <1>0, <1>8, HeldUp DEF PathInv, UndoOpen, At
  <2>3. objs.source = call.stored \/ Touched
    BY <1>0, <2>2 DEF SourceInv
  <2>4. t = call.stored.text => t \in given
    BY <1>2, <2>1, <2>2, <2>3 DEF Touched
  <2>5. CASE server.etags = "strong"
    <3>1. call.copyTag = call.stored /\ call.stored \in Contents
      BY <1>0, <1>8, <2>2, <2>5 DEF GuardInv, TypeOK, CallType
    <3>2. objs.target = call.stored
      BY <2>1, <3>1 DEF Passed
    <3> QED
      BY <2>1, <2>4, <3>2
  <2>6. CASE server.etags # "strong"
    BY <1>0, <1>8, <2>1, <2>4, <2>6 DEF UnseenInv
  <2> QED
    BY <2>5, <2>6
<1> QED
  BY <1>4, <1>5, <1>6, <1>7, <1>8 DEF Effect

LEMMA RecreatesNothing ==
  ASSUME WritesInv, Effect
  PROVE  NotRecreated
<1> SUFFICES ASSUME call.kind = "update", objs.source = Absent, objs'.source # Absent
             PROVE  Absent \in unseen /\ (server.etags = "weak" \/ (server.etags = "none" /\ ~server.star))
  BY DEF NotRecreated
<1>0. /\ TypeOK /\ PathInv /\ GuardInv /\ UnseenInv
      /\ server.etags \in {"strong", "weak", "none"} /\ call.guard \in Guards
      /\ TheEvent # NoTag /\ AnyTag # NoTag
  <2>1. TheEvent \in Contents
    BY WritesAssumption DEF TheEvent, Contents, Texts
  <2> QED
    BY <2>1, DistinctAssumption DEF WritesInv, TypeOK, Servers, CallType
<1>1. (UpdateDone \/ DeleteDone) /\ WriteOpen
  BY DEF Effect, MoveDone, CopyDone, UndoDone
<1>2. call.guard = NoTag /\ call.stored # Absent
  BY <1>0, <1>1 DEF UpdateDone, DeleteDone, Passed, PathInv, WriteOpen, At
<1> QED
  BY <1>0, <1>1, <1>2 DEF UnseenInv, GuardInv

\* No request of the connector loses what another program wrote, and no update
\* brings back an event deleted since the caller saw it, except for what the code
\* cannot guard: whatever the server, and in whatever order answers, other programs'
\* changes and requests carried out late come (guardedWrite(), moveObject(),
\* removeCopy()).
THEOREM NothingOfOthersLost == Spec => KeepsTexts
<1>1. WritesInv /\ [Next]_vars => [NothingLost /\ NotRecreated]_vars
  BY StepEffect, LosesNothing, RecreatesNothing
<1> QED
  BY Invariance, <1>1, PTL DEF Spec, KeepsTexts

-----------------------------------------------------------------------------
(* What is answered.                                                       *)

\* No answer that says how things are, or none at all.
LEMMA SaysNothing ==
  ASSUME call'.outcome \notin {"nothing", "done"} \/ call'.outcome = call.outcome
  PROVE  TrueAnswer
BY DEF TrueAnswer

\* "Nothing was moved", "changed" or "deleted", with nothing done.
LEMMA NothingIsTrue ==
  ASSUME WritesInv, ~At("end"), NothingDone, call'.outcome = "nothing",
         ~did.copied, ~did.took \/ (call.stored # Absent /\ Touched)
  PROVE  TrueAnswer
<1>1. ~did.wrote
  BY DEF WritesInv, PathInv
<1> QED
  BY <1>1 DEF TrueAnswer, NothingDone, Touched

\* What becomes of a call that goes on, with or without an answer to its write.
LEMMA RollBackSays ==
  ASSUME TypeOK, RollBack
  PROVE  TrueAnswer
<1>1. call'.outcome = call.outcome
  BY Going DEF RollBack, GoTo, Steps
<1> QED
  BY <1>1, SaysNothing

LEMMA AfterWriteSays ==
  ASSUME WritesInv, call.step \in {"write", "again", "rewrite"}, NothingDone,
         NEW reply \in {"changed", "gone", "refused", "unclear"}, AfterWrite(reply)
  PROVE  TrueAnswer
<1>0. TypeOK /\ PathInv /\ ~did.took /\ (call.kind # "move" => ~did.copied) /\ ~At("end")
  BY DEF WritesInv, PathInv, WriteOpen, At
<1>1. CASE RollBack
  BY <1>0, <1>1, RollBackSays
<1>2. CASE \E how \in {"failed", "both"} : Answer(how)
  BY <1>0, <1>2, Answering, SaysNothing DEF Outcomes
<1>3. CASE call.kind # "move" /\ Answer("nothing")
  BY <1>0, <1>3, Answering, NothingIsTrue DEF Outcomes
<1> QED
  BY <1>1, <1>2, <1>3 DEF AfterWrite

LEMMA SendsWriteSays ==
  ASSUME WritesInv, call.step \in {"write", "rewrite"},
         NEW reply \in {"ok", "changed", "gone", "refused", "unclear"},
         Exchange(TheWrite, reply), AfterWrite(reply)
  PROVE  TrueAnswer
<1>0. /\ TypeOK /\ PathInv /\ CopyInv /\ WriteOpen /\ call.stored # Absent
      /\ call.kind \in Kinds
  BY DEF WritesInv, PathInv, WriteOpen, At, TypeOK, CallType
<1>1. CASE NothingDone /\ reply \in {"refused", "gone", "changed", "unclear"}
  BY <1>1, AfterWriteSays
<1>2. CASE (UpdateDone \/ DeleteDone) /\ reply = "unclear"
  <2>1. \E how \in {"both", "failed"} : Answer(how)
    BY <1>2 DEF AfterWrite
  <2> QED
    BY <1>0, <2>1, Answering, SaysNothing DEF Outcomes
<1>3. CASE (UpdateDone \/ DeleteDone) /\ reply = "ok"
  <2>1. call'.outcome = "done"
    BY <1>0, <1>3, Answering DEF AfterWrite, Outcomes
  <2>2. IF call.kind = "update" THEN did'.wrote ELSE did'.took
    BY <1>3 DEF UpdateDone, DeleteDone
  <2>3. call.kind = "move" => call.stored.text \in Held(objs') \/ Touched
    <3>1. objs'.target = objs.target
      BY <1>3 DEF UpdateDone, DeleteDone
    <3>2. call.kind = "move" => Touched \/ (objs.target # Absent /\ objs.target.text = call.stored.text)
      BY <1>0 DEF CopyInv
    <3> QED
      BY <3>1, <3>2 DEF Held, Places
  <2> QED
    BY <1>0, <2>1, <2>2, <2>3 DEF TrueAnswer, Touched
<1> QED
  BY <1>1, <1>2, <1>3, WriteFates

LEMMA WriteSays ==
  ASSUME WritesInv, Write
  PROVE  TrueAnswer
<1>1. PICK reply \in {"ok", "changed", "gone", "refused", "unclear"} :
        /\ Exchange(TheWrite, reply)
        /\ GoTo("again") \/ AfterWrite(reply)
  BY DEF Write
<1>2. TypeOK /\ call.step = "write"
  BY DEF WritesInv, Write, At
<1>3. CASE GoTo("again")
  BY <1>2, <1>3, Going, SaysNothing DEF Steps
<1> QED
  BY <1>1, <1>2, <1>3, SendsWriteSays

LEMMA MoveSays ==
  ASSUME WritesInv, Move
  PROVE  TrueAnswer
<1> USE DEF At
<1>0. TypeOK /\ PathInv /\ SourceInv /\ call.step = "move" /\ ~did.took /\ ~did.copied /\ ~did.wrote
  BY DEF WritesInv, Move, PathInv
<1>1. call.kind = "move" /\ call.stored # Absent
  BY <1>0, MovesOnly
<1>2. ASSUME NEW reply \in {"ok", "taken", "gone", "refused", "unclear"},
             Exchange(TheMove, reply), AfterMove(reply)
      PROVE  TrueAnswer
  <2>1. CASE reply \in {"refused", "unclear"}
    BY <1>0, <1>2, <2>1, Going, SaysNothing DEF AfterMove, Steps
  <2>2. CASE reply \in {"taken", "gone"}
    <3>1. NothingDone
      BY <1>1, <1>2, <2>2, MoveFates
    <3>2. call'.outcome = "nothing"
      BY <1>0, <1>2, <2>2, Answering DEF AfterMove, Outcomes
    <3> QED
      BY <1>0, <3>1, <3>2, NothingIsTrue
  <2>3. CASE reply = "ok"
    <3>1. MoveDone
      BY <1>1, <1>2, <2>3, MoveFates
    <3>2. call'.outcome = "done"
      BY <1>0, <1>2, <2>3, Answering DEF AfterMove, Outcomes
    <3>3. call.stored.text \in Held(objs') \/ Touched
      <4>1. objs.source = call.stored \/ Touched
        BY <1>0, <1>1 DEF SourceInv
      <4>2. objs'.target # Absent /\ objs'.target = objs.source
        BY <3>1 DEF MoveDone
      <4> QED
        BY <4>1, <4>2 DEF Held, Places
    <3> QED
      BY <1>1, <3>1, <3>2, <3>3 DEF TrueAnswer, Touched, MoveDone
  <2> QED
    BY <2>1, <2>2, <2>3
<1>3. CASE Answer("failed")
  BY <1>0, <1>3, Answering, SaysNothing DEF Outcomes
<1> QED
  BY <1>2, <1>3 DEF Move

LEMMA WhereTargetSays ==
  ASSUME WritesInv, WhereTarget
  PROVE  TrueAnswer
<1> USE DEF At
<1>0. /\ TypeOK /\ PathInv /\ SourceInv /\ CopyInv /\ call.step = "whereTarget" /\ NothingDone
      /\ ~did.wrote /\ did.took \in BOOLEAN
  BY DEF WritesInv, WhereTarget, PathInv, Reading, NothingDone, TypeOK
<1>1. call.kind = "move" /\ call.stored # Absent
  BY <1>0, MovesOnly
<1>2. did.took => Touched \/ (objs.target # Absent /\ objs.target.text = call.stored.text)
  BY <1>0 DEF CopyInv
<1>3. CASE Answer("unclear")
  BY <1>0, <1>3, Answering, SaysNothing DEF Outcomes
<1>4. CASE Answer("nothing") /\ objs.target = Absent
  <2>1. call'.outcome = "nothing"
    BY <1>0, <1>4, Answering DEF Outcomes
  <2>2. ~did.copied /\ (~did.took \/ (call.stored # Absent /\ Touched))
    BY <1>0, <1>1, <1>2, <1>4 DEF PathInv
  <2> QED
    BY <1>0, <2>1, <2>2, NothingIsTrue
<1>5. CASE Answer("done") /\ ~call.still
  <2>1. call'.outcome = "done"
    BY <1>0, <1>5, Answering DEF Outcomes
  <2>2. did.took \/ Touched
    <3>1. objs.source = Absent
      BY <1>0, <1>5 DEF CopyInv
    <3> QED
      BY <1>0, <1>1, <3>1 DEF SourceInv
  <2>3. call.stored.text \in Held(objs') \/ Touched
    BY <1>0, <1>2, <2>2 DEF Held, Places, NothingDone
  <2> QED
    BY <1>0, <1>1, <2>1, <2>2, <2>3 DEF TrueAnswer, Touched, NothingDone
<1> QED
  BY <1>3, <1>4, <1>5 DEF WhereTarget

LEMMA CopySays ==
  ASSUME WritesInv, Copy
  PROVE  TrueAnswer
<1> USE DEF At
<1>0. TypeOK /\ call.step = "copy" /\ ~did.took /\ ~did.copied
  BY DEF WritesInv, Copy, PathInv
<1>1. call.kind = "move" /\ call.stored # Absent
  BY <1>0, MovesOnly
<1>2. ASSUME NothingDone, AfterCopy("taken")
      PROVE  TrueAnswer
  <2>1. call'.outcome = "nothing"
    BY <1>0, <1>2, Answering DEF AfterCopy, Outcomes
  <2> QED
    BY <1>0, <1>2, <2>1, NothingIsTrue
<1>3. ASSUME NEW reply \in {"ok", "taken", "unclear"}, Exchange(TheCopy, reply), AfterCopy(reply)
      PROVE  TrueAnswer
  <2>1. CASE reply = "taken"
    BY <1>1, <1>2, <1>3, <2>1, CopyFates
  <2>2. CASE reply \in {"ok", "unclear"}
    <3>1. call'.outcome = call.outcome
      BY <1>0, <1>3, <2>2 DEF AfterCopy, GoTo, TypeOK, CallType
    <3> QED
      BY <3>1, SaysNothing
  <2> QED
    BY <2>1, <2>2
<1>4. CASE UNCHANGED <<objs, late, did>> /\ AfterCopy("taken")
  BY <1>2, <1>4 DEF NothingDone
<1> QED
  BY <1>3, <1>4 DEF Copy

LEMMA UndoSays ==
  ASSUME WritesInv, Undo
  PROVE  TrueAnswer
<1> USE DEF At
<1>1. PICK reply \in {"ok", "changed", "gone", "unclear"} :
        /\ Exchange(TheUndo, reply)
        /\ Answer(IF reply \in {"ok", "gone"} THEN "nothing" ELSE "both")
  BY DEF Undo
<1>2. /\ TypeOK /\ PathInv /\ call.step = "undo" /\ ~did.took /\ ~did.wrote
      /\ did.copied => objs.target # Absent
  BY DEF WritesInv, Undo, PathInv, UndoOpen
<1>3. CASE reply = "ok"
  <2>1. UndoDone /\ call'.outcome = "nothing"
    BY <1>1, <1>2, <1>3, UndoFates, Answering DEF Outcomes
  <2> QED
    BY <1>2, <2>1 DEF TrueAnswer, UndoDone
<1>4. CASE reply = "gone"
  <2>1. NothingDone /\ objs.target = Absent /\ call'.outcome = "nothing"
    BY <1>1, <1>2, <1>4, UndoFates, Answering DEF Outcomes
  <2> QED
    BY <1>2, <2>1, NothingIsTrue
<1>5. CASE reply \in {"changed", "unclear"}
  BY <1>1, <1>2, <1>5, Answering, SaysNothing DEF Outcomes
<1> QED
  BY <1>3, <1>4, <1>5

LEMMA AnswersTruly ==
  ASSUME WritesInv, [Next]_vars
  PROVE  TrueAnswer
<1> USE DEF At
<1>0. TypeOK /\ PathInv
  BY DEF WritesInv
<1>1. CASE Lookup
  <2>1. NothingDone /\ call.step = "lookup" /\ ~did.took /\ ~did.copied
    BY <1>0, <1>1 DEF Lookup, Reading, NothingDone, PathInv
  <2>2. CASE Answer("nothing")
    BY <1>0, <2>1, <2>2, Answering, NothingIsTrue DEF Outcomes
  <2>3. CASE Answer("failed")
    BY <1>0, <2>3, Answering, SaysNothing DEF Outcomes
  <2>4. CASE \E g \in RequireEtag(objs.source, call.kind = "move") :
               call' = [call EXCEPT !.stored = objs.source, !.guard = g,
                          !.step = IF call.kind = "move" THEN "twin" ELSE "write"]
    <3>1. call'.outcome = call.outcome
      BY <1>0, <2>4 DEF TypeOK, CallType
    <3> QED
      BY <3>1, SaysNothing
  <2> QED
    BY <1>1, <2>2, <2>3, <2>4 DEF Lookup
<1>2. CASE Twin
  <2>1. NothingDone /\ call.step = "twin" /\ ~did.took /\ ~did.copied
    BY <1>0, <1>2 DEF Twin, Reading, NothingDone, PathInv
  <2>2. CASE Answer("nothing")
    BY <1>0, <2>1, <2>2, Answering, NothingIsTrue DEF Outcomes
  <2>3. CASE Answer("failed")
    BY <1>0, <2>3, Answering, SaysNothing DEF Outcomes
  <2>4. CASE GoTo("move")
    BY <1>0, <2>4, Going, SaysNothing DEF Steps
  <2> QED
    BY <1>2, <2>2, <2>3, <2>4 DEF Twin
<1>3. CASE WhereSource
  <2>1. CASE Answer("unclear")
    BY <1>0, <2>1, Answering, SaysNothing DEF Outcomes
  <2>2. CASE call' = [call EXCEPT !.still = objs.source # Absent, !.step = "whereTarget"]
    <3>1. call'.outcome = call.outcome
      BY <1>0, <2>2 DEF TypeOK, CallType
    <3> QED
      BY <3>1, SaysNothing
  <2> QED
    BY <1>3, <2>1, <2>2 DEF WhereSource
<1>4. CASE Check
  BY <1>0, <1>4, RollBackSays, Going, SaysNothing DEF Check, Steps
<1>5. CASE Again
  <2>1. NothingDone /\ call.step = "again"
    BY <1>5 DEF Again, NothingDone
  <2>2. CASE AfterWrite("gone") \/ AfterWrite("unclear")
    BY <2>1, <2>2, AfterWriteSays
  <2>3. CASE call' = [call EXCEPT !.guard = StrongTag(objs.source), !.step = "rewrite"]
    <3>1. call'.outcome = call.outcome
      BY <1>0, <2>3 DEF TypeOK, CallType
    <3> QED
      BY <3>1, SaysNothing
  <2> QED
    BY <1>5, <2>2, <2>3 DEF Again
<1>6. CASE Rewrite
  BY <1>6, SendsWriteSays DEF Rewrite
<1>7. CASE UndoRead
  <2>1. NothingDone /\ call.step = "undoRead" /\ ~did.took
    BY <1>0, <1>7 DEF UndoRead, Reading, NothingDone, PathInv
  <2>2. CASE objs.target = Absent /\ Answer("nothing")
    <3>1. ~did.copied
      BY <1>0, <2>2 DEF PathInv
    <3> QED
      BY <1>0, <2>1, <2>2, <3>1, Answering, NothingIsTrue DEF Outcomes
  <2>3. CASE Answer("both")
    BY <1>0, <2>3, Answering, SaysNothing DEF Outcomes
  <2>4. CASE call' = [call EXCEPT !.copyTag = StrongTag(objs.target), !.step = "undo"]
    <3>1. call'.outcome = call.outcome
      BY <1>0, <2>4 DEF TypeOK, CallType
    <3> QED
      BY <3>1, SaysNothing
  <2> QED
    BY <1>7, <2>2, <2>3, <2>4 DEF UndoRead
<1>8. CASE Late \/ Others \/ Ended \/ UNCHANGED vars
  <2>1. call' = call
    BY <1>8 DEF Late, Others, Edit, Remove, Arrive, Ended, vars
  <2> QED
    BY <2>1, SaysNothing
<1> QED
  BY <1>1, <1>2, <1>3, <1>4, <1>5, <1>6, <1>7, <1>8, WriteSays, MoveSays, WhereTargetSays,
     CopySays, UndoSays DEF Next, Update, MoveEvent

\* An answer that says nothing was done, or that the change was made, is true when it
\* is given, whatever became of requests whose answers were lost, except where another
\* program changed or removed the event meanwhile (whereItWent(), removeCopy()).
THEOREM AnswersHold == Spec => AnswersAreTrue
<1>1. WritesInv /\ [Next]_vars => [TrueAnswer]_vars
  BY AnswersTruly
<1> QED
  BY Invariance, <1>1, PTL DEF Spec, AnswersAreTrue

-----------------------------------------------------------------------------
(* The calls that share a client: the invariant.                           *)

\* What a call may name.
Named == {<<>>} \cup Asked \cup {<<o.in>> : o \in Objects}

\* Requests a call has yet to make, from its first one on.
GuestsAhead ==
  {<<"calendars", "event", "own", "write">>, <<"event", "own", "write">>,
   <<"calendars", "own", "write">>, <<"own", "write">>, <<"write">>}

QuietAhead ==
  {<<"calendars", "event", "write">>, <<"event", "write">>, <<"calendars", "write">>, <<"write">>}

EventsAhead == {<<"calendars", "objects">>, <<"objects">>}

SearchAhead == {<<"calendars", "ownOrMailbox", "objects">>, <<"ownOrMailbox", "objects">>, <<"objects">>}

Ahead(tool, guests) ==
  CASE tool = "list_calendars" -> {<<"calendars">>}
    [] tool = "list_events" -> EventsAhead
    [] tool \in Creating \cup Changing -> IF guests THEN GuestsAhead ELSE QuietAhead
    [] tool \in Searching -> SearchAhead

Lefts == {<<>>} \cup UNION {Ahead(tool, guests) : tool \in Tools, guests \in BOOLEAN}

Reads(k) == k.tool \in {"list_events", "find_free_slot"}

CallRecords ==
  [ tool    : Tools \cup {None},
    guests  : BOOLEAN,
    named   : Named,
    at      : {"idle", "login", "running", "answered", "failed"},
    left    : Lefts,
    waits   : BOOLEAN,
    toRead  : SUBSET Nat,
    own     : SUBSET {Mailbox, Principal},
    known   : BOOLEAN,
    read    : [Objects -> Nat],
    skipped : [Objects -> Nat] ]

\* A call on its way has what it needs left to ask for, and has guests only if it is
\* to write.
AheadInv(k) ==
  /\ k.at \in {"login", "running"} => k.tool \in Tools /\ k.left \in Ahead(k.tool, k.guests)
  /\ k.at = "login" => k.left = Stages(k.tool, k.guests)
  /\ k.guests => k.tool \in Creating \cup Changing
  /\ k.waits => k.at = "running" /\ Head(k.left) \in {"own", "ownOrMailbox"}

\* From when it has asked, a call is known to itself as whom the server knows.
OwnInv(k, listed) ==
  k.guests /\ (k.at = "answered" \/ (k.at = "running" /\ k.left = <<"write">>)) => k.own = listed

\* So is a search, with the mailbox's address besides, or it says it did not learn it.
SearchInv(k, listed, address) ==
  k.tool \in Searching /\ k.known /\ (k.at = "answered" \/ (k.at = "running" /\ k.left = <<"objects">>))
    => k.own = listed \cup address

\* An object is in the answer whole, or named as skipped, once.
Settled(k, o) ==
  /\ k.read[o] < 2
  /\ k.skipped[o] = IF o.data = "whole" /\ k.read[o] = 1 THEN 0 ELSE 1

\* Calendars yet to be read are untouched, and the others settled.
ReadInv(k) ==
  /\ k.toRead \subseteq EachOnce(k.named)
  /\ \A i \in EachOnce(k.named), o \in Objects :
       o.in = k.named[i] =>
         IF i \in k.toRead THEN k.read[o] = 0 /\ k.skipped[o] = 0 ELSE Settled(k, o)
  /\ k.at = "answered" \/ (k.at \in {"login", "running"} /\ ~Reads(k)) => k.toRead = {}

CallInv(k, listed, address) ==
  k \in CallRecords /\ AheadInv(k) /\ OwnInv(k, listed) /\ SearchInv(k, listed, address) /\ ReadInv(k)

CallsInv ==
  /\ calls \in [Callers -> CallRecords]
  /\ \A c \in Callers : CallInv(calls[c], calendarUserAddresses, sender)
  /\ addresses \in [st : {"none", "asking", "known"}, own : SUBSET {Mailbox, Principal}]
  /\ addresses.st = "known" => addresses.own = calendarUserAddresses
  /\ listing \subseteq {Mailbox, Principal} /\ sender \subseteq {Mailbox, Principal}

-----------------------------------------------------------------------------
(* What a request that is answered leaves to ask for.                      *)

LEMMA AskedInTurn ==
  ASSUME NEW tool \in Tools, NEW guests \in BOOLEAN, NEW left \in Ahead(tool, guests)
  PROVE  /\ left # <<>> /\ Len(left) \in Nat
         /\ Len(left) # 1 => Tail(left) \in Ahead(tool, guests)
         /\ Head(left) \in {"calendars", "event"} =>
              /\ Tail(left) \notin {<<"objects">>, <<"write">>} \/ tool = "list_events" \/ ~guests
              /\ Tail(left) # <<"objects">> \/ tool = "list_events"
              /\ Len(left) = 1 => tool = "list_calendars"
         /\ Head(left) = "write" => tool \in Creating \cup Changing /\ left = <<"write">> /\ Len(left) = 1
         /\ Head(left) = "own" => tool \in Creating \cup Changing /\ Len(left) # 1
         /\ Head(left) = "ownOrMailbox" => tool \in Searching /\ Len(left) # 1
         /\ Head(left) = "objects" => left = <<"objects">> /\ Len(left) = 1 /\ tool \in {"list_events", "find_free_slot"}
         /\ left = <<"objects">> => Head(left) = "objects"
         /\ left = <<"write">> => Head(left) = "write"
<1> USE DEF Tools, Listings, Creating, Changing, Searching
<1>1. CASE tool = "list_calendars"
  <2>1. left = <<"calendars">>
    BY <1>1 DEF Ahead
  <2> QED
    BY <1>1, <2>1
<1>2. CASE tool = "list_events"
  <2>1. left \in EventsAhead /\ Ahead(tool, guests) = EventsAhead
    BY <1>2 DEF Ahead
  <2>2. CASE left = <<"calendars", "objects">>
    <3>1. Tail(left) = <<"objects">> /\ Len(left) = 2 /\ Head(left) = "calendars"
      BY <2>2
    <3> QED
      BY <1>2, <2>1, <2>2, <3>1 DEF EventsAhead
  <2>3. CASE left = <<"objects">>
    BY <1>2, <2>3
  <2> QED
    BY <2>1, <2>2, <2>3 DEF EventsAhead
<1>3. CASE tool \in Searching
  <2>1. left \in SearchAhead /\ Ahead(tool, guests) = SearchAhead
    BY <1>3 DEF Ahead
  <2>2. CASE left = <<"calendars", "ownOrMailbox", "objects">>
    <3>1. Tail(left) = <<"ownOrMailbox", "objects">> /\ Len(left) = 3 /\ Head(left) = "calendars"
      BY <2>2
    <3> QED
      BY <1>3, <2>1, <2>2, <3>1 DEF SearchAhead
  <2>3. CASE left = <<"ownOrMailbox", "objects">>
    <3>1. Tail(left) = <<"objects">> /\ Len(left) = 2 /\ Head(left) = "ownOrMailbox"
      BY <2>3
    <3> QED
      BY <1>3, <2>1, <2>3, <3>1 DEF SearchAhead
  <2>4. CASE left = <<"objects">>
    BY <1>3, <2>4
  <2> QED
    BY <2>1, <2>2, <2>3, <2>4 DEF SearchAhead
<1>4. CASE tool \in Creating \cup Changing /\ guests
  <2>1. left \in GuestsAhead /\ Ahead(tool, guests) = GuestsAhead
    BY <1>4 DEF Ahead
  <2> DEFINE Before(head) ==
               /\ Head(left) = head /\ Tail(left) \in GuestsAhead /\ Tail(left) # <<"objects">>
               /\ head # "own" => Tail(left) # <<"write">>
               /\ left # <<>> /\ left # <<"write">> /\ left # <<"objects">>
               /\ Len(left) \in Nat /\ Len(left) # 1
  <2>2. ASSUME left = <<"calendars", "event", "own", "write">> PROVE Before("calendars")
    <3>1. Tail(left) = <<"event", "own", "write">> /\ Len(left) = 4 /\ Head(left) = "calendars"
      BY <2>2
    <3>2. Tail(left) \in GuestsAhead
      BY <3>1 DEF GuestsAhead
    <3>3. Len(Tail(left)) = 3 /\ Len(<<"write">>) = 1 /\ Len(<<"objects">>) = 1
      BY <3>1
    <3>4. Tail(left) # <<"objects">> /\ ("calendars" # "own" => Tail(left) # <<"write">>)
      BY <3>1, <3>3
    <3>5. left # <<>> /\ left # <<"write">> /\ left # <<"objects">>
      BY <2>2, <3>1, <3>3
    <3> QED
      BY <3>1, <3>2, <3>4, <3>5
  <2>3. ASSUME left = <<"event", "own", "write">> PROVE Before("event")
    <3>1. Tail(left) = <<"own", "write">> /\ Len(left) = 3 /\ Head(left) = "event"
      BY <2>3
    <3>2. Tail(left) \in GuestsAhead
      BY <3>1 DEF GuestsAhead
    <3>3. Len(Tail(left)) = 2 /\ Len(<<"write">>) = 1 /\ Len(<<"objects">>) = 1
      BY <3>1
    <3>4. Tail(left) # <<"objects">> /\ ("event" # "own" => Tail(left) # <<"write">>)
      BY <3>1, <3>3
    <3>5. left # <<>> /\ left # <<"write">> /\ left # <<"objects">>
      BY <2>3, <3>1, <3>3
    <3> QED
      BY <3>1, <3>2, <3>4, <3>5
  <2>4. ASSUME left = <<"calendars", "own", "write">> PROVE Before("calendars")
    <3>1. Tail(left) = <<"own", "write">> /\ Len(left) = 3 /\ Head(left) = "calendars"
      BY <2>4
    <3>2. Tail(left) \in GuestsAhead
      BY <3>1 DEF GuestsAhead
    <3>3. Len(Tail(left)) = 2 /\ Len(<<"write">>) = 1 /\ Len(<<"objects">>) = 1
      BY <3>1
    <3>4. Tail(left) # <<"objects">> /\ ("calendars" # "own" => Tail(left) # <<"write">>)
      BY <3>1, <3>3
    <3>5. left # <<>> /\ left # <<"write">> /\ left # <<"objects">>
      BY <2>4, <3>1, <3>3
    <3> QED
      BY <3>1, <3>2, <3>4, <3>5
  <2>5. ASSUME left = <<"own", "write">> PROVE Before("own")
    <3>1. Tail(left) = <<"write">> /\ Len(left) = 2 /\ Head(left) = "own"
      BY <2>5
    <3>2. Tail(left) \in GuestsAhead
      BY <3>1 DEF GuestsAhead
    <3>3. Len(Tail(left)) = 1 /\ Len(<<"write">>) = 1 /\ Len(<<"objects">>) = 1
      BY <3>1
    <3>4. Tail(left) # <<"objects">> /\ ("own" # "own" => Tail(left) # <<"write">>)
      BY <3>1, <3>3
    <3>5. left # <<>> /\ left # <<"write">> /\ left # <<"objects">>
      BY <2>5, <3>1, <3>3
    <3> QED
      BY <3>1, <3>2, <3>4, <3>5
  <2>6. ASSUME NEW head \in {"calendars", "event", "own"}, Before(head)
        PROVE  /\ left # <<>> /\ Len(left) \in Nat
               /\ Len(left) # 1 => Tail(left) \in Ahead(tool, guests)
               /\ Head(left) \in {"calendars", "event"} =>
                    /\ Tail(left) \notin {<<"objects">>, <<"write">>}
                    /\ Len(left) # 1
               /\ Head(left) \in {"calendars", "event", "own"} /\ Len(left) # 1
               /\ left # <<"objects">> /\ left # <<"write">>
    BY <2>1, <2>6
  <2>7. CASE left = <<"write">>
    BY <1>4, <2>7
  <2> QED
    <3>1. Before("calendars") \/ Before("event") \/ Before("own") \/ left = <<"write">>
      BY <2>1, <2>2, <2>3, <2>4, <2>5 DEF GuestsAhead
    <3> HIDE DEF Before
    <3> QED
      BY <1>4, <2>6, <2>7, <3>1
<1>5. CASE tool \in Creating \cup Changing /\ ~guests
  <2>1. left \in QuietAhead /\ Ahead(tool, guests) = QuietAhead
    BY <1>5 DEF Ahead
  <2>2. CASE left = <<"calendars", "event", "write">>
    <3>1. Tail(left) = <<"event", "write">> /\ Len(left) = 3 /\ Head(left) = "calendars"
      BY <2>2
    <3> QED
      BY <1>5, <2>1, <2>2, <3>1 DEF QuietAhead
  <2>3. CASE left = <<"event", "write">>
    <3>1. Tail(left) = <<"write">> /\ Len(left) = 2 /\ Head(left) = "event"
      BY <2>3
    <3> QED
      BY <1>5, <2>1, <2>3, <3>1 DEF QuietAhead
  <2>4. CASE left = <<"calendars", "write">>
    <3>1. Tail(left) = <<"write">> /\ Len(left) = 2 /\ Head(left) = "calendars"
      BY <2>4
    <3> QED
      BY <1>5, <2>1, <2>4, <3>1 DEF QuietAhead
  <2>5. CASE left = <<"write">>
    BY <1>5, <2>5
  <2> QED
    BY <2>1, <2>2, <2>3, <2>4, <2>5 DEF QuietAhead
<1> QED
  BY <1>1, <1>2, <1>3, <1>4, <1>5

LEMMA FirstOfAll ==
  ASSUME NEW tool \in Tools, NEW guests \in BOOLEAN, guests => tool \in Creating \cup Changing
  PROVE  /\ Stages(tool, guests) \in Ahead(tool, guests)
         /\ Stages(tool, guests) \notin {<<"write">>, <<"objects">>}
<1> USE DEF Tools, Listings, Creating, Changing, Searching
<1>1. CASE tool = "list_calendars" \/ tool = "list_events" \/ tool \in Searching
  BY <1>1 DEF Stages, Ahead, EventsAhead, SearchAhead
<1>2. CASE tool \in Creating \cup Changing
  BY <1>2 DEF Stages, Ahead, GuestsAhead, QuietAhead
<1> QED
  BY <1>1, <1>2

LEMMA OnwardParts ==
  ASSUME NEW k \in CallRecords, k.at = "running", AheadInv(k)
  PROVE  /\ Onward(k) \in CallRecords
         /\ Onward(k).left = Tail(k.left) /\ ~Onward(k).waits
         /\ Onward(k).at = IF Len(k.left) = 1 THEN "answered" ELSE "running"
         /\ Onward(k).tool = k.tool /\ Onward(k).guests = k.guests /\ Onward(k).named = k.named
         /\ Onward(k).toRead = k.toRead /\ Onward(k).own = k.own /\ Onward(k).known = k.known
         /\ Onward(k).read = k.read /\ Onward(k).skipped = k.skipped
<1> DEFINE left == Tail(k.left)
           at == IF Len(k.left) = 1 THEN "answered" ELSE "running"
<1>1. k.tool \in Tools /\ k.guests \in BOOLEAN /\ k.left \in Ahead(k.tool, k.guests)
  BY DEF AheadInv, CallRecords
<1>2. left \in Lefts
  <2>1. CASE Len(k.left) # 1
    BY <1>1, <2>1, AskedInTurn DEF Lefts
  <2>2. CASE Len(k.left) = 1
    <3>1. k.left \in {<<"calendars">>, <<"objects">>, <<"write">>}
      BY <1>1, <2>2 DEF Ahead, GuestsAhead, QuietAhead, EventsAhead, SearchAhead, Tools, Listings,
         Creating, Changing, Searching
    <3>2. left = <<>>
      <4>1. CASE k.left = <<"calendars">>
        BY <4>1
      <4>2. CASE k.left = <<"objects">>
        BY <4>2
      <4>3. CASE k.left = <<"write">>
        BY <4>3
      <4> QED
        BY <3>1, <4>1, <4>2, <4>3
    <3> QED
      BY <3>2 DEF Lefts
  <2> QED
    BY <2>1, <2>2
<1>3. at \in {"idle", "login", "running", "answered", "failed"}
  OBVIOUS
<1>4. Onward(k) = [k EXCEPT !.left = left, !.waits = FALSE, !.at = at]
  BY DEF Onward, CallRecords
<1>5. Onward(k) \in CallRecords
  <2> HIDE DEF left, at
  <2>1. \A r \in CallRecords, l \in Lefts, w \in BOOLEAN, a \in {"idle", "login", "running", "answered", "failed"} :
          [r EXCEPT !.left = l, !.waits = w, !.at = a] \in CallRecords
    BY ZenonT(60) DEF CallRecords
  <2>2. [k EXCEPT !.left = left, !.waits = FALSE, !.at = at] \in CallRecords
    BY <1>2, <1>3, <2>1
  <2> QED
    BY <1>4, <2>2
<1> HIDE DEF left, at
<1>6. ~Onward(k).waits /\ Onward(k).left = left /\ Onward(k).at = at
  BY <1>4 DEF CallRecords
<1>7. /\ Onward(k).tool = k.tool /\ Onward(k).named = k.named
      /\ Onward(k).toRead = k.toRead /\ Onward(k).own = k.own
      /\ Onward(k).read = k.read /\ Onward(k).skipped = k.skipped
  BY <1>4 DEF CallRecords
<1>8. Onward(k).guests = k.guests
  BY <1>4 DEF CallRecords
<1>9. Onward(k).known = k.known
  BY <1>4 DEF CallRecords
<1> QED
  BY <1>5, <1>6, <1>7, <1>8, <1>9 DEF left, at

LEMMA SomeLeast ==
  ASSUME NEW T \in SUBSET Nat, T # {}
  PROVE  \E i \in T : \A j \in T : i <= j
<1>1. PICK i \in T : \A j \in T : ~(<<j, i>> \in OpToRel(<, Nat))
  BY NatLessThanWellFounded, WFMin
<1>2. \A j \in T : ~(j < i)
  BY <1>1 DEF OpToRel
<1> QED
  BY <1>2

LEMMA NamedInOrder ==
  ASSUME NEW named \in Named
  PROVE  \E n \in Nat : DOMAIN named = 1..n
<1>1. CASE named = <<>>
  BY <1>1
<1>2. CASE named \in Asked
  <2> DEFINE S == {named[i] : i \in DOMAIN named}
  <2>1. named \in Seq(S)
    BY <1>2, CallsAssumption
  <2> HIDE DEF S
  <2>2. Len(named) \in Nat /\ DOMAIN named = 1..Len(named)
    BY <2>1
  <2> QED
    BY <2>2
<1>3. CASE named \in {<<o.in>> : o \in Objects}
  <2>1. PICK o \in Objects : named = <<o.in>>
    BY <1>3
  <2>2. DOMAIN named = 1..1
    BY <2>1
  <2> QED
    BY <2>2
<1> QED
  BY <1>1, <1>2, <1>3 DEF Named

\* A calendar that is named is read at its first position, and at no other.
LEMMA ReadWhereFirstNamed ==
  ASSUME NEW named \in Named
  PROVE  /\ EachOnce(named) \subseteq Nat
         /\ \A i \in DOMAIN named : \E j \in EachOnce(named) : named[j] = named[i]
         /\ \A i, j \in EachOnce(named) : named[i] = named[j] => i = j
<1>1. PICK n \in Nat : DOMAIN named = 1..n
  BY NamedInOrder
<1>2. EachOnce(named) \subseteq Nat
  BY <1>1 DEF EachOnce
<1>3. ASSUME NEW i \in DOMAIN named
      PROVE  \E j \in EachOnce(named) : named[j] = named[i]
  <2> DEFINE T == {j \in DOMAIN named : named[j] = named[i]}
  <2>1. T \in SUBSET Nat /\ T # {}
    BY <1>1
  <2>2. PICK j \in T : \A h \in T : j <= h
    BY <2>1, SomeLeast
  <2>3. \A h \in 1..(j - 1) : named[h] # named[j]
    BY <1>1, <2>2
  <2> QED
    BY <2>2, <2>3 DEF EachOnce
<1>4. ASSUME NEW i \in EachOnce(named), NEW j \in EachOnce(named), named[i] = named[j]
      PROVE  i = j
  <2>1. i \in 1..n /\ j \in 1..n
    BY <1>1 DEF EachOnce
  <2>2. ~(i < j) /\ ~(j < i)
    BY <1>4, <2>1 DEF EachOnce
  <2> QED
    BY <2>1, <2>2
<1> QED
  BY <1>2, <1>3, <1>4

-----------------------------------------------------------------------------
(* What becomes of one call.                                               *)

LEMMA FailedKeeps ==
  ASSUME NEW listed, NEW address, NEW k, CallInv(k, listed, address)
  PROVE  CallInv(Failed(k), listed, address)
<1> DEFINE f == Failed(k)
<1>1. k \in CallRecords /\ AheadInv(k) /\ ReadInv(k)
  BY DEF CallInv
<1>2. f = [k EXCEPT !.at = "failed", !.waits = FALSE]
  BY DEF Failed
<1>3. f \in CallRecords
  <2>1. \A r \in CallRecords, a \in {"idle", "login", "running", "answered", "failed"}, w \in BOOLEAN :
          [r EXCEPT !.at = a, !.waits = w] \in CallRecords
    BY DEF CallRecords
  <2>2. [k EXCEPT !.at = "failed", !.waits = FALSE] \in CallRecords
    BY <1>1, <2>1
  <2> QED
    BY <1>2, <2>2
<1>4. f.at = "failed" /\ ~f.waits
  BY <1>1, <1>2 DEF CallRecords
<1>5. /\ f.tool = k.tool /\ f.named = k.named /\ f.toRead = k.toRead
      /\ f.read = k.read /\ f.skipped = k.skipped
  BY <1>1, <1>2 DEF CallRecords
<1>6. f.guests = k.guests
  BY <1>1, <1>2 DEF CallRecords
<1> HIDE DEF f
<1>7. AheadInv(f)
  BY <1>1, <1>4, <1>5, <1>6 DEF AheadInv
<1>8. OwnInv(f, listed) /\ SearchInv(f, listed, address)
  BY <1>4 DEF OwnInv, SearchInv
<1>9. ReadInv(f)
  BY <1>1, <1>4, <1>5 DEF ReadInv, Settled, Reads
<1>10. CallInv(f, listed, address)
  BY <1>3, <1>7, <1>8, <1>9 DEF CallInv
<1> QED
  BY <1>10 DEF f

\* The login that a call waits for is done.
LEMMA RunsOn ==
  ASSUME NEW listed, NEW address, NEW k, CallInv(k, listed, address), k.at = "login"
  PROVE  CallInv([k EXCEPT !.at = "running"], listed, address)
<1> DEFINE f == [k EXCEPT !.at = "running"]
<1>1. k \in CallRecords /\ AheadInv(k) /\ ReadInv(k)
  BY DEF CallInv
<1>2. f \in CallRecords
  <2>1. \A r \in CallRecords, a \in {"idle", "login", "running", "answered", "failed"} :
          [r EXCEPT !.at = a] \in CallRecords
    BY DEF CallRecords
  <2> QED
    BY <1>1, <2>1
<1>3. /\ f.at = "running"
      /\ f.tool = k.tool /\ f.named = k.named /\ f.toRead = k.toRead
      /\ f.left = k.left /\ f.read = k.read /\ f.skipped = k.skipped
  BY <1>1 DEF CallRecords
<1>4. f.guests = k.guests
  BY <1>1 DEF CallRecords
<1>5. f.waits = k.waits
  BY <1>1 DEF CallRecords
<1> HIDE DEF f
<1>6. AheadInv(f)
  BY <1>1, <1>3, <1>4, <1>5 DEF AheadInv
<1>7. OwnInv(f, listed) /\ SearchInv(f, listed, address)
  <2>1. k.left \notin {<<"write">>, <<"objects">>}
    <3>1. k.guests \in BOOLEAN
      BY <1>1 DEF CallRecords
    <3> QED
      BY <1>1, <3>1, FirstOfAll DEF AheadInv
  <2> QED
    BY <1>3, <2>1 DEF OwnInv, SearchInv
<1>8. ReadInv(f)
  BY <1>1, <1>3 DEF ReadInv, Settled, Reads
<1>9. CallInv(f, listed, address)
  BY <1>2, <1>6, <1>7, <1>8 DEF CallInv
<1> QED
  BY <1>9 DEF f

\* A call has an answer to its first request, and what it knows by then is right.
LEMMA OnwardKeeps ==
  ASSUME NEW listed, NEW address, NEW k,
         k \in CallRecords, AheadInv(k), ReadInv(k), k.at = "running",
         Head(k.left) = "own" => k.own = listed,
         Head(k.left) = "ownOrMailbox" /\ k.known => k.own = listed \cup address,
         Head(k.left) = "write" /\ k.guests => k.own = listed,
         Head(k.left) = "objects" => k.toRead = {} /\ Reads(k),
         Head(k.left) = "objects" /\ k.tool \in Searching /\ k.known => k.own = listed \cup address
  PROVE  CallInv(Onward(k), listed, address)
<1> DEFINE f == Onward(k)
<1>1. /\ f \in CallRecords
      /\ f.left = Tail(k.left) /\ ~f.waits
      /\ f.at = IF Len(k.left) = 1 THEN "answered" ELSE "running"
      /\ f.tool = k.tool /\ f.guests = k.guests /\ f.named = k.named
      /\ f.toRead = k.toRead /\ f.own = k.own /\ f.known = k.known
      /\ f.read = k.read /\ f.skipped = k.skipped
  BY OnwardParts
<1> HIDE DEF f
<1>2. k.tool \in Tools /\ k.guests \in BOOLEAN /\ k.left \in Ahead(k.tool, k.guests)
  BY DEF AheadInv, CallRecords
<1>3. k.guests => k.tool \in Creating \cup Changing
  BY DEF AheadInv
<1>4. Head(k.left) \in {"calendars", "event", "own", "ownOrMailbox", "write", "objects"}
  BY <1>2 DEF Ahead, GuestsAhead, QuietAhead, EventsAhead, SearchAhead, Tools, Listings, Creating,
     Changing, Searching
<1>5. /\ k.left # <<>> /\ Len(k.left) \in Nat
      /\ Len(k.left) # 1 => Tail(k.left) \in Ahead(k.tool, k.guests)
      /\ Head(k.left) \in {"calendars", "event"} =>
           /\ Tail(k.left) \notin {<<"objects">>, <<"write">>} \/ k.tool = "list_events" \/ ~k.guests
           /\ Tail(k.left) # <<"objects">> \/ k.tool = "list_events"
           /\ Len(k.left) = 1 => k.tool = "list_calendars"
      /\ Head(k.left) = "write" => k.tool \in Creating \cup Changing /\ k.left = <<"write">> /\ Len(k.left) = 1
      /\ Head(k.left) = "own" => k.tool \in Creating \cup Changing /\ Len(k.left) # 1
      /\ Head(k.left) = "ownOrMailbox" => k.tool \in Searching /\ Len(k.left) # 1
      /\ Head(k.left) = "objects" => k.left = <<"objects">> /\ Len(k.left) = 1
  BY <1>2, AskedInTurn
<1>6. AheadInv(f)
  BY <1>1, <1>2, <1>3, <1>5 DEF AheadInv
<1>7. /\ k.tool \in Searching => k.tool = "find_free_slot"
      /\ k.tool \in Creating \cup Changing => k.tool \notin {"list_calendars", "list_events", "find_free_slot"}
  BY DEF Searching, Creating, Changing
<1>8. OwnInv(f, listed)
  BY <1>1, <1>3, <1>4, <1>5, <1>7 DEF OwnInv, Reads
<1>9. SearchInv(f, listed, address)
  BY <1>1, <1>4, <1>5, <1>7 DEF SearchInv
<1>10. ReadInv(f)
  <2>1. f.at = "answered" \/ (f.at \in {"login", "running"} /\ ~Reads(f)) => f.toRead = {}
    BY <1>1, <1>4, <1>5, <1>7 DEF ReadInv, Reads
  <2> QED
    BY <1>1, <2>1 DEF ReadInv, Settled, Reads
<1>11. CallInv(f, listed, address)
  BY <1>1, <1>6, <1>8, <1>9, <1>10 DEF CallInv
<1> QED
  BY <1>11 DEF f

LEMMA WaitsKeeps ==
  ASSUME NEW listed, NEW address, NEW k, CallInv(k, listed, address), k.at = "running",
         Head(k.left) \in {"own", "ownOrMailbox"}
  PROVE  CallInv([k EXCEPT !.waits = TRUE], listed, address)
<1> DEFINE f == [k EXCEPT !.waits = TRUE]
<1>1. k \in CallRecords /\ AheadInv(k) /\ ReadInv(k) /\ OwnInv(k, listed) /\ SearchInv(k, listed, address)
  BY DEF CallInv
<1>2. f \in CallRecords
  <2>1. \A r \in CallRecords, w \in BOOLEAN : [r EXCEPT !.waits = w] \in CallRecords
    BY DEF CallRecords
  <2> QED
    BY <1>1, <2>1
<1>3. /\ f.tool = k.tool /\ f.named = k.named /\ f.toRead = k.toRead /\ f.at = k.at
      /\ f.left = k.left /\ f.read = k.read /\ f.skipped = k.skipped /\ f.own = k.own
  BY <1>1 DEF CallRecords
<1>4. f.guests = k.guests
  BY <1>1 DEF CallRecords
<1>5. f.known = k.known
  BY <1>1 DEF CallRecords
<1> HIDE DEF f
<1>6. AheadInv(f)
  BY <1>1, <1>3, <1>4 DEF AheadInv
<1>7. OwnInv(f, listed) /\ SearchInv(f, listed, address)
  BY <1>1, <1>3, <1>4, <1>5 DEF OwnInv, SearchInv
<1>8. ReadInv(f)
  BY <1>1, <1>3 DEF ReadInv, Settled, Reads
<1>9. CallInv(f, listed, address)
  BY <1>2, <1>6, <1>7, <1>8 DEF CallInv
<1> QED
  BY <1>9 DEF f

\* What a call is told changes nothing of what it asks for and reads.
Told(k, mine, known) == [k EXCEPT !.own = mine, !.known = known]

LEMMA ToldOnly ==
  ASSUME NEW k \in CallRecords, AheadInv(k), ReadInv(k),
         NEW mine \in SUBSET {Mailbox, Principal}, NEW known \in BOOLEAN,
         NEW f, f = Told(k, mine, known)
  PROVE  /\ f \in CallRecords /\ AheadInv(f) /\ ReadInv(f)
         /\ f.at = k.at /\ f.left = k.left /\ f.tool = k.tool /\ f.own = mine
         /\ f.guests = k.guests /\ f.known = known
<1> USE DEF Told
<1>1. f \in CallRecords
  <2>1. \A r \in CallRecords, o \in SUBSET {Mailbox, Principal}, w \in BOOLEAN :
          [r EXCEPT !.own = o, !.known = w] \in CallRecords
    BY DEF CallRecords
  <2> QED
    BY <2>1
<1>2. /\ f.tool = k.tool /\ f.named = k.named /\ f.toRead = k.toRead /\ f.at = k.at
      /\ f.left = k.left /\ f.read = k.read /\ f.skipped = k.skipped /\ f.own = mine
  BY DEF CallRecords
<1>3. f.guests = k.guests
  BY DEF CallRecords
<1>4. f.waits = k.waits
  BY DEF CallRecords
<1>5. f.known = known
  BY DEF CallRecords
<1>6. AheadInv(f)
  BY <1>2, <1>3, <1>4 DEF AheadInv
<1>7. ReadInv(f)
  BY <1>2 DEF ReadInv, Settled, Reads
<1> QED
  BY <1>1, <1>2, <1>3, <1>5, <1>6, <1>7

LEMMA ToldKeeps ==
  ASSUME NEW listed \in SUBSET {Mailbox, Principal}, sender \in SUBSET {Mailbox, Principal},
         NEW k, CallInv(k, listed, sender), k.at = "running", Head(k.left) \in {"own", "ownOrMailbox"}
  PROVE  CallInv(ToldAddresses(k, listed), listed, sender)
<1> DEFINE mine == listed \cup (IF k.tool \in Searching THEN sender ELSE {})
           f == [k EXCEPT !.own = mine]
<1>1. k \in CallRecords /\ AheadInv(k) /\ ReadInv(k) /\ k.known \in BOOLEAN
  BY DEF CallInv, CallRecords
<1>2. f = Told(k, mine, k.known)
  <2>1. \A r \in CallRecords : \A o : [r EXCEPT !.own = o] = [r EXCEPT !.own = o, !.known = r.known]
    BY DEF CallRecords
  <2> QED
    BY <1>1, <2>1 DEF Told
<1>3. mine \in SUBSET {Mailbox, Principal}
  OBVIOUS
<1> HIDE DEF mine, f
<1>4. /\ f \in CallRecords /\ AheadInv(f) /\ ReadInv(f)
      /\ f.at = k.at /\ f.left = k.left /\ f.tool = k.tool /\ f.own = mine
  BY <1>1, <1>2, <1>3, ToldOnly
<1>5. k.tool \in Tools /\ k.guests \in BOOLEAN /\ k.left \in Ahead(k.tool, k.guests)
  BY <1>1 DEF AheadInv, CallRecords
<1>6. /\ Head(k.left) = "own" => k.tool \in Creating \cup Changing
      /\ Head(k.left) = "ownOrMailbox" => k.tool \in Searching
  BY <1>5, AskedInTurn
<1>7. k.tool \in Creating \cup Changing => k.tool \notin Searching
  BY DEF Creating, Changing, Searching
<1>8. Head(f.left) = "own" => f.own = listed
  BY <1>4, <1>6, <1>7 DEF mine
<1>9. Head(f.left) = "ownOrMailbox" => f.own = listed \cup sender
  BY <1>4, <1>6 DEF mine
<1>10. CallInv(Onward(f), listed, sender)
  BY <1>4, <1>8, <1>9, OnwardKeeps
<1> QED
  BY <1>10 DEF ToldAddresses, f, mine

LEMMA RefusedKeeps ==
  ASSUME NEW listed \in SUBSET {Mailbox, Principal}, sender \in SUBSET {Mailbox, Principal},
         NEW k, CallInv(k, listed, sender), k.at = "running", Head(k.left) \in {"own", "ownOrMailbox"}
  PROVE  CallInv(RefusedAddresses(k), listed, sender)
<1> DEFINE f == [k EXCEPT !.own = sender, !.known = FALSE]
<1>1. k \in CallRecords /\ AheadInv(k) /\ ReadInv(k)
  BY DEF CallInv
<1>2. CASE k.tool \in Searching
  <2> DEFINE learnt == FALSE
  <2>0. f = Told(k, sender, learnt) /\ learnt \in BOOLEAN /\ ~learnt
    BY DEF Told
  <2> HIDE DEF f, learnt
  <2>1. /\ f \in CallRecords /\ AheadInv(f) /\ ReadInv(f)
        /\ f.at = k.at /\ f.left = k.left /\ f.tool = k.tool /\ f.known = learnt
    BY <1>1, <2>0, ToldOnly
  <2>2. k.tool \in Tools /\ k.guests \in BOOLEAN /\ k.left \in Ahead(k.tool, k.guests)
    BY <1>1 DEF AheadInv, CallRecords
  <2>3. Head(k.left) = "ownOrMailbox"
    <3>1. Head(k.left) = "own" => k.tool \in Creating \cup Changing
      BY <2>2, AskedInTurn
    <3>2. k.tool \notin Creating \cup Changing
      BY <1>2 DEF Searching, Creating, Changing
    <3> QED
      BY <3>1, <3>2
  <2>4. CallInv(Onward(f), listed, sender)
    BY <2>0, <2>1, <2>3, OnwardKeeps
  <2> QED
    BY <1>2, <2>4 DEF RefusedAddresses, f
<1>3. CASE k.tool \notin Searching
  BY <1>3, FailedKeeps DEF RefusedAddresses
<1> QED
  BY <1>2, <1>3

\* One calendar is read.
LEMMA ReadKeeps ==
  ASSUME NEW listed, NEW address, NEW k, CallInv(k, listed, address), k.at = "running",
         Head(k.left) = "objects", NEW i \in k.toRead, NEW failing
  PROVE  LET read == Read(k, i, failing) IN
           CallInv(IF read.toRead = {} THEN Onward(read) ELSE read, listed, address)
<1> DEFINE f == Read(k, i, failing)
           read == [o \in Objects |->
                      IF o.in # k.named[i] \/ o.data \in {"none", "hangs"} \/ o \in failing
                      THEN k.read[o] ELSE k.read[o] + 1]
           skipped == [o \in Objects |->
                         IF o.in = k.named[i] /\ (Unread(o, failing) \/ o.data = "partly")
                         THEN k.skipped[o] + 1 ELSE k.skipped[o]]
           toRead == k.toRead \ {i}
<1>1. /\ k \in CallRecords /\ AheadInv(k) /\ ReadInv(k) /\ OwnInv(k, listed) /\ SearchInv(k, listed, address)
      /\ k.named \in Named /\ k.toRead \in SUBSET Nat
      /\ k.read \in [Objects -> Nat] /\ k.skipped \in [Objects -> Nat]
  BY DEF CallInv, CallRecords
<1>2. f = [k EXCEPT !.read = read, !.skipped = skipped, !.toRead = toRead]
  BY <1>1 DEF Read, CallRecords
<1>3. read \in [Objects -> Nat] /\ skipped \in [Objects -> Nat] /\ toRead \in SUBSET Nat
  BY <1>1
<1>4. \A o \in Objects :
        /\ read[o] = IF o.in # k.named[i] \/ Unread(o, failing) THEN k.read[o] ELSE k.read[o] + 1
        /\ skipped[o] = IF o.in = k.named[i] /\ (Unread(o, failing) \/ o.data = "partly")
                        THEN k.skipped[o] + 1 ELSE k.skipped[o]
        /\ o.data \in {"whole", "partly", "none", "hangs"}
        /\ ~Unread(o, failing) => o.data \in {"whole", "partly"}
  BY CallsAssumption DEF Unread
<1> HIDE DEF read, skipped, toRead
<1>5. f \in CallRecords
  <2>1. \A r \in CallRecords, a, b \in [Objects -> Nat], s \in SUBSET Nat :
          [r EXCEPT !.read = a, !.skipped = b, !.toRead = s] \in CallRecords
    BY DEF CallRecords
  <2>2. [k EXCEPT !.read = read, !.skipped = skipped, !.toRead = toRead] \in CallRecords
    BY <1>1, <1>3, <2>1
  <2> QED
    BY <1>2, <2>2
<1>6. /\ f.tool = k.tool /\ f.named = k.named /\ f.toRead = toRead /\ f.at = k.at
      /\ f.left = k.left /\ f.read = read /\ f.skipped = skipped /\ f.own = k.own
  BY <1>1, <1>2 DEF CallRecords
<1>7. f.guests = k.guests
  BY <1>1, <1>2 DEF CallRecords
<1>8. f.known = k.known
  BY <1>1, <1>2 DEF CallRecords
<1>9. f.waits = k.waits
  BY <1>1, <1>2 DEF CallRecords
<1> HIDE DEF f
<1>10. AheadInv(f)
  BY <1>1, <1>6, <1>7, <1>9 DEF AheadInv
<1>11. OwnInv(f, listed) /\ SearchInv(f, listed, address)
  BY <1>1, <1>6, <1>7, <1>8 DEF OwnInv, SearchInv
<1>12. k.tool \in {"list_events", "find_free_slot"} /\ k.left = <<"objects">>
  <2>1. k.tool \in Tools /\ k.guests \in BOOLEAN /\ k.left \in Ahead(k.tool, k.guests)
    BY <1>1 DEF AheadInv, CallRecords
  <2> QED
    BY <2>1, AskedInTurn
<1>13. ReadInv(f)
  <2>1. f.toRead \subseteq EachOnce(f.named)
    BY <1>1, <1>6 DEF ReadInv, toRead
  <2>2. ASSUME NEW j \in EachOnce(k.named), NEW o \in Objects, o.in = k.named[j]
        PROVE  IF j \in toRead THEN read[o] = 0 /\ skipped[o] = 0
               ELSE /\ read[o] < 2
                    /\ skipped[o] = IF o.data = "whole" /\ read[o] = 1 THEN 0 ELSE 1
    <3>1. i \in EachOnce(k.named)
      BY <1>1 DEF ReadInv
    <3>2. CASE j = i
      <4>1. j \notin toRead /\ k.read[o] = 0 /\ k.skipped[o] = 0
        BY <1>1, <2>2, <3>1, <3>2 DEF ReadInv, toRead
      <4>2. CASE Unread(o, failing)
        <5>1. read[o] = 0 /\ skipped[o] = 1
          BY <1>4, <2>2, <3>2, <4>1, <4>2
        <5> QED
          BY <4>1, <5>1
      <4>3. CASE ~Unread(o, failing)
        <5>1. read[o] = 1 /\ skipped[o] = (IF o.data = "partly" THEN 1 ELSE 0) /\ o.data \in {"whole", "partly"}
          BY <1>4, <2>2, <3>2, <4>1, <4>3
        <5> QED
          BY <4>1, <5>1
      <4> QED
        BY <4>2, <4>3
    <3>3. CASE j # i
      <4>1. o.in # k.named[i]
        BY <1>1, <2>2, <3>1, <3>3, ReadWhereFirstNamed
      <4>2. read[o] = k.read[o] /\ skipped[o] = k.skipped[o] /\ (j \in toRead <=> j \in k.toRead)
        BY <1>4, <3>3, <4>1 DEF toRead
      <4> QED
        BY <1>1, <2>2, <4>2 DEF ReadInv, Settled
    <3> QED
      BY <3>2, <3>3
  <2> QED
    BY <1>6, <1>12, <2>1, <2>2 DEF ReadInv, Settled, Reads
<1>14. CallInv(f, listed, address)
  BY <1>5, <1>10, <1>11, <1>13 DEF CallInv
<1>15. ASSUME f.toRead = {}
       PROVE  CallInv(Onward(f), listed, address)
  <2>1. Reads(f) /\ f.at = "running" /\ Head(f.left) = "objects"
    BY <1>6, <1>12 DEF Reads
  <2>2. f.tool \in Searching /\ f.known => f.own = listed \cup address
    BY <1>11, <1>12, <1>6 DEF SearchInv
  <2> QED
    BY <1>5, <1>10, <1>13, <1>15, <2>1, <2>2, OnwardKeeps
<1> QED
  BY <1>14, <1>15 DEF f

\* A call as it starts.
Started(tool, named, guests) ==
  [Idle EXCEPT !.tool = tool, !.guests = guests, !.named = named, !.left = Stages(tool, guests),
               !.toRead = EachOnce(named), !.at = "login"]

LEMMA NamesAreNamed ==
  ASSUME NEW tool \in Tools, NEW named \in Names(tool)
  PROVE  named \in Named /\ (tool \notin {"list_events", "find_free_slot"} => EachOnce(named) = {})
<1>1. named \in Named
  BY DEF Names, Named
<1>2. ASSUME tool \notin {"list_events", "find_free_slot"} PROVE EachOnce(named) = {}
  <2>1. named = <<>>
    BY <1>2 DEF Names, Searching
  <2> QED
    BY <2>1 DEF EachOnce
<1> QED
  BY <1>1, <1>2

LEMMA IdleInv ==
  ASSUME NEW listed, NEW address
  PROVE  CallInv(Idle, listed, address)
<1>1. NoneRead \in [Objects -> Nat] /\ EachOnce(<<>>) = {}
  BY DEF NoneRead, EachOnce
<1>2. Idle \in CallRecords
  BY <1>1 DEF Idle, CallRecords, Named, Lefts
<1>3. /\ Idle.at = "idle" /\ Idle.named = <<>> /\ Idle.toRead = {}
      /\ ~Idle.guests /\ ~Idle.waits
  BY DEF Idle
<1>4. AheadInv(Idle) /\ OwnInv(Idle, listed) /\ SearchInv(Idle, listed, address)
  BY <1>3 DEF AheadInv, OwnInv, SearchInv
<1>5. ReadInv(Idle)
  BY <1>1, <1>3 DEF ReadInv
<1> QED
  BY <1>2, <1>4, <1>5 DEF CallInv

LEMMA StartedInv ==
  ASSUME NEW listed, NEW address, NEW tool \in Tools, NEW named \in Names(tool),
         NEW guests \in BOOLEAN, guests => tool \in Creating \cup Changing
  PROVE  CallInv(Started(tool, named, guests), listed, address)
<1> DEFINE k == Started(tool, named, guests)
           left == Stages(tool, guests)
           toRead == EachOnce(named)
<1>1. left \in Ahead(tool, guests) /\ left \in Lefts
  BY FirstOfAll DEF Lefts
<1>2. /\ named \in Named /\ toRead \in SUBSET Nat
      /\ tool \notin {"list_events", "find_free_slot"} => toRead = {}
  BY NamesAreNamed, ReadWhereFirstNamed
<1>3. /\ Idle \in CallRecords /\ ~Idle.waits
      /\ \A o \in Objects : Idle.read[o] = 0 /\ Idle.skipped[o] = 0
  BY IdleInv DEF CallInv, Idle, NoneRead
<1>4. k = [Idle EXCEPT !.tool = tool, !.guests = guests, !.named = named, !.left = left,
                       !.toRead = toRead, !.at = "login"]
  BY DEF Started
<1> HIDE DEF k, left, toRead
<1>5. k \in CallRecords
  <2>1. ASSUME NEW r \in CallRecords, NEW t \in Tools, NEW g \in BOOLEAN, NEW n \in Named, NEW l \in Lefts,
               NEW s \in SUBSET Nat
        PROVE  [r EXCEPT !.tool = t, !.guests = g, !.named = n, !.left = l, !.toRead = s, !.at = "login"] \in CallRecords
    <3>1. \A q \in CallRecords : [q EXCEPT !.tool = t, !.named = n, !.left = l] \in CallRecords
      BY DEF CallRecords
    <3>2. \A q \in CallRecords : [q EXCEPT !.guests = g, !.toRead = s, !.at = "login"] \in CallRecords
      BY DEF CallRecords
    <3> DEFINE q == [r EXCEPT !.tool = t, !.named = n, !.left = l]
    <3>3. [q EXCEPT !.guests = g, !.toRead = s, !.at = "login"] \in CallRecords
      BY <3>1, <3>2
    <3>4. [q EXCEPT !.guests = g, !.toRead = s, !.at = "login"] =
            [r EXCEPT !.tool = t, !.guests = g, !.named = n, !.left = l, !.toRead = s, !.at = "login"]
      BY DEF CallRecords
    <3> QED
      BY <3>3, <3>4
  <2>2. [Idle EXCEPT !.tool = tool, !.guests = guests, !.named = named, !.left = left,
                     !.toRead = toRead, !.at = "login"] \in CallRecords
    BY <1>1, <1>2, <1>3, <2>1
  <2> QED
    BY <1>4, <2>2
<1>6. /\ k.tool = tool /\ k.named = named /\ k.at = "login" /\ k.left = left /\ k.toRead = toRead
      /\ k.read = Idle.read /\ k.skipped = Idle.skipped
  BY <1>4, <1>3 DEF CallRecords
<1>7. k.guests = guests
  BY <1>4, <1>3 DEF CallRecords
<1>8. ~k.waits
  BY <1>4, <1>3 DEF CallRecords
<1>9. AheadInv(k)
  BY <1>1, <1>6, <1>7, <1>8 DEF AheadInv, left
<1>10. OwnInv(k, listed) /\ SearchInv(k, listed, address)
  BY <1>6 DEF OwnInv, SearchInv
<1>11. ReadInv(k)
  BY <1>2, <1>3, <1>6 DEF ReadInv, Reads, toRead
<1>12. CallInv(k, listed, address)
  BY <1>5, <1>9, <1>10, <1>11 DEF CallInv
<1> QED
  BY <1>12 DEF k

-----------------------------------------------------------------------------
(* What becomes of all of them.                                            *)

LEMMA OneCallChanges ==
  ASSUME CallsInv, NEW c \in Callers, NEW k, CallInv(k, calendarUserAddresses, sender),
         calls' = [calls EXCEPT ![c] = k], listing' = listing, sender' = sender,
         addresses' = addresses \/ addresses' = [addresses EXCEPT !.st = "asking"]
  PROVE  CallsInv'
<1>1. k \in CallRecords /\ calendarUserAddresses' = calendarUserAddresses
  BY DEF CallInv, calendarUserAddresses
<1>2. calls' \in [Callers -> CallRecords]
  BY <1>1 DEF CallsInv
<1>3. ASSUME NEW d \in Callers
      PROVE  CallInv(calls'[d], calendarUserAddresses, sender)
  <2>1. calls'[d] = IF d = c THEN k ELSE calls[d]
    BY DEF CallsInv
  <2> QED
    BY <2>1 DEF CallsInv
<1>4. /\ addresses' \in [st : {"none", "asking", "known"}, own : SUBSET {Mailbox, Principal}]
      /\ addresses'.st = "known" => addresses'.own = calendarUserAddresses
  BY DEF CallsInv
<1> QED
  BY <1>1, <1>2, <1>3, <1>4 DEF CallsInv

LEMMA EveryCallChanges ==
  ASSUME CallsInv, calls' \in [Callers -> CallRecords],
         \A c \in Callers : CallInv(calls'[c], calendarUserAddresses, sender),
         listing' = listing, sender' = sender,
         addresses' \in [st : {"none", "asking", "known"}, own : SUBSET {Mailbox, Principal}],
         addresses'.st = "known" => addresses'.own = calendarUserAddresses
  PROVE  CallsInv'
<1>1. calendarUserAddresses' = calendarUserAddresses
  BY DEF calendarUserAddresses
<1> QED
  BY <1>1 DEF CallsInv

LEMMA StartKeeps ==
  ASSUME CallsInv, NEW c \in Callers, NEW tool \in Tools, NEW named \in Names(tool),
         NEW guests \in IF tool \in Creating \cup Changing THEN BOOLEAN ELSE {FALSE},
         Start(c, tool, named, guests)
  PROVE  CallsInv'
<1> DEFINE k == Started(tool, named, guests)
           new == CASE client = "ready" -> [k EXCEPT !.at = "running"]
                    [] client = "failed" -> Failed(k)
                    [] OTHER -> k
<1>1. CallInv(k, calendarUserAddresses, sender)
  BY StartedInv
<1>2. calls' = [calls EXCEPT ![c] = new] /\ UNCHANGED <<addresses, listing, sender>>
  BY DEF Start, Started
<1>3. k.at = "login"
  BY DEF Started, Idle
<1> HIDE DEF k
<1>4. CallInv(new, calendarUserAddresses, sender)
  BY <1>1, <1>3, RunsOn, FailedKeeps
<1> QED
  BY <1>2, <1>4, OneCallChanges

LEMMA LoginKeeps ==
  ASSUME CallsInv, LoggedIn \/ LoginFails
  PROVE  CallsInv'
<1> DEFINE new(k) == IF k.at = "login" THEN IF LoggedIn THEN [k EXCEPT !.at = "running"] ELSE Failed(k) ELSE k
<1>1. /\ calls' = [c \in Callers |-> new(calls[c])]
      /\ UNCHANGED <<addresses, listing, sender>>
  <2>1. CASE LoggedIn
    BY <2>1 DEF LoggedIn
  <2>2. CASE LoginFails /\ ~LoggedIn
    BY <2>2 DEF LoginFails
  <2> QED
    BY <2>1, <2>2
<1>2. ASSUME NEW c \in Callers
      PROVE  CallInv(new(calls[c]), calendarUserAddresses, sender)
  <2>1. CallInv(calls[c], calendarUserAddresses, sender)
    BY DEF CallsInv
  <2> QED
    BY <2>1, RunsOn, FailedKeeps
<1> HIDE DEF new
<1>3. calls' \in [Callers -> CallRecords]
  BY <1>1, <1>2 DEF CallInv
<1>4. \A c \in Callers : CallInv(calls'[c], calendarUserAddresses, sender)
  BY <1>1, <1>2
<1> QED
  BY <1>1, <1>3, <1>4, EveryCallChanges DEF CallsInv

LEMMA RequestKeeps ==
  ASSUME CallsInv, NEW c \in Callers, Answered(c) \/ RequestFails(c) \/ WriteEvent(c)
  PROVE  CallsInv'
<1> DEFINE k == calls[c]
<1>1. /\ CallInv(k, calendarUserAddresses, sender) /\ k \in CallRecords /\ AheadInv(k) /\ ReadInv(k)
      /\ OwnInv(k, calendarUserAddresses) /\ k.at = "running"
      /\ UNCHANGED <<client, addresses, listing, sender>>
  BY DEF CallsInv, CallInv, Answered, RequestFails, WriteEvent, Asks
<1>2. \/ calls' = [calls EXCEPT ![c] = Failed(k)]
      \/ calls' = [calls EXCEPT ![c] = Onward(k)] /\ Head(k.left) \in {"calendars", "event", "write"}
  BY DEF Answered, RequestFails, WriteEvent, Asks
<1>3. CASE calls' = [calls EXCEPT ![c] = Failed(k)]
  <2>1. CallInv(Failed(k), calendarUserAddresses, sender)
    BY <1>1, FailedKeeps
  <2> QED
    BY <1>1, <1>3, <2>1, OneCallChanges
<1>4. CASE calls' = [calls EXCEPT ![c] = Onward(k)] /\ Head(k.left) \in {"calendars", "event", "write"}
  <2>1. k.tool \in Tools /\ k.guests \in BOOLEAN /\ k.left \in Ahead(k.tool, k.guests)
    BY <1>1 DEF AheadInv, CallRecords
  <2>2. Head(k.left) = "write" => k.left = <<"write">>
    BY <2>1, AskedInTurn
  <2>3. Head(k.left) = "write" /\ k.guests => k.own = calendarUserAddresses
    BY <1>1, <2>2 DEF OwnInv
  <2> HIDE DEF k
  <2>4. CallInv(Onward(k), calendarUserAddresses, sender)
    BY <1>1, <1>4, <2>3, OnwardKeeps
  <2> QED
    BY <1>1, <1>4, <2>4, OneCallChanges
<1> QED
  BY <1>2, <1>3, <1>4

LEMMA AskAddressesKeeps ==
  ASSUME CallsInv, NEW c \in Callers, AskAddresses(c)
  PROVE  CallsInv'
<1> DEFINE k == calls[c]
<1>1. /\ CallInv(k, calendarUserAddresses, sender) /\ k.at = "running"
      /\ Head(k.left) \in {"own", "ownOrMailbox"}
      /\ UNCHANGED <<client, listing, sender>>
      /\ calendarUserAddresses \in SUBSET {Mailbox, Principal} /\ sender \in SUBSET {Mailbox, Principal}
  BY DEF CallsInv, AskAddresses, Asks, calendarUserAddresses
<1>2. CASE addresses.st = "known"
  <2>1. calls' = [calls EXCEPT ![c] = ToldAddresses(k, calendarUserAddresses)] /\ addresses' = addresses
    BY <1>2 DEF CallsInv, AskAddresses
  <2>2. CallInv(ToldAddresses(k, calendarUserAddresses), calendarUserAddresses, sender)
    BY <1>1, ToldKeeps
  <2> QED
    BY <1>1, <2>1, <2>2, OneCallChanges
<1>3. CASE addresses.st # "known"
  <2>1. /\ calls' = [calls EXCEPT ![c] = [k EXCEPT !.waits = TRUE]]
        /\ addresses' = [addresses EXCEPT !.st = "asking"]
    BY <1>3 DEF AskAddresses
  <2>2. CallInv([k EXCEPT !.waits = TRUE], calendarUserAddresses, sender)
    BY <1>1, WaitsKeeps
  <2> QED
    BY <1>1, <2>1, <2>2, OneCallChanges
<1> QED
  BY <1>2, <1>3

LEMMA LookupAnswersKeeps ==
  ASSUME CallsInv, LookupAnswers \/ LookupFails
  PROVE  CallsInv'
<1>0. /\ calendarUserAddresses \in SUBSET {Mailbox, Principal} /\ sender \in SUBSET {Mailbox, Principal}
      /\ UNCHANGED <<client, listing, sender>>
  BY DEF CallsInv, calendarUserAddresses, LookupAnswers, LookupFails
<1>1. ASSUME NEW c \in Waiting
      PROVE  /\ CallInv(ToldAddresses(calls[c], calendarUserAddresses), calendarUserAddresses, sender)
             /\ CallInv(RefusedAddresses(calls[c]), calendarUserAddresses, sender)
  <2>1. /\ CallInv(calls[c], calendarUserAddresses, sender)
        /\ calls[c].at = "running" /\ Head(calls[c].left) \in {"own", "ownOrMailbox"}
    BY DEF CallsInv, CallInv, AheadInv, Waiting
  <2> QED
    BY <1>0, <2>1, ToldKeeps, RefusedKeeps
<1>2. \A c \in Callers : CallInv(calls[c], calendarUserAddresses, sender)
  BY DEF CallsInv
<1>3. CASE LookupAnswers
  <2> DEFINE new(c) == IF c \in Waiting THEN ToldAddresses(calls[c], calendarUserAddresses) ELSE calls[c]
  <2>1. calls' = [c \in Callers |-> new(c)] /\ addresses' = [st |-> "known", own |-> calendarUserAddresses]
    BY <1>3 DEF LookupAnswers
  <2>2. \A c \in Callers : CallInv(new(c), calendarUserAddresses, sender)
    BY <1>1, <1>2
  <2> HIDE DEF new
  <2>3. calls' \in [Callers -> CallRecords] /\ \A c \in Callers : CallInv(calls'[c], calendarUserAddresses, sender)
    BY <2>1, <2>2 DEF CallInv
  <2>4. /\ addresses' \in [st : {"none", "asking", "known"}, own : SUBSET {Mailbox, Principal}]
        /\ addresses'.own = calendarUserAddresses
    BY <1>0, <2>1
  <2> QED
    BY <1>0, <2>3, <2>4, EveryCallChanges
<1>4. CASE LookupFails
  <2> DEFINE new(c) == IF c \in Waiting THEN RefusedAddresses(calls[c]) ELSE calls[c]
  <2>1. calls' = [c \in Callers |-> new(c)] /\ addresses' = [st |-> "none", own |-> {}]
    BY <1>4 DEF LookupFails, KeptAfterFailure
  <2>2. \A c \in Callers : CallInv(new(c), calendarUserAddresses, sender)
    BY <1>1, <1>2
  <2> HIDE DEF new
  <2>3. calls' \in [Callers -> CallRecords] /\ \A c \in Callers : CallInv(calls'[c], calendarUserAddresses, sender)
    BY <2>1, <2>2 DEF CallInv
  <2>4. /\ addresses' \in [st : {"none", "asking", "known"}, own : SUBSET {Mailbox, Principal}]
        /\ addresses'.st = "none"
    BY <2>1
  <2> QED
    BY <1>0, <2>3, <2>4, EveryCallChanges
<1> QED
  BY <1>3, <1>4

LEMMA ReadCalendarKeeps ==
  ASSUME CallsInv, NEW c \in Callers, NEW failing, ReadCalendar(c, failing)
  PROVE  CallsInv'
<1> DEFINE k == calls[c]
<1>1. /\ CallInv(k, calendarUserAddresses, sender) /\ k.at = "running" /\ Head(k.left) = "objects"
      /\ UNCHANGED <<client, addresses, listing, sender>>
  BY DEF CallsInv, ReadCalendar, Asks
<1>2. PICK i \in k.toRead :
        LET read == Read(k, i, failing) IN
          calls' = [calls EXCEPT ![c] = IF read.toRead = {} THEN Onward(read) ELSE read]
  BY DEF ReadCalendar
<1> HIDE DEF k
<1> DEFINE read == Read(k, i, failing)
           new == IF read.toRead = {} THEN Onward(read) ELSE read
<1>3. CallInv(new, calendarUserAddresses, sender)
  BY <1>1, ReadKeeps
<1>4. calls' = [calls EXCEPT ![c] = new]
  BY <1>2
<1> HIDE DEF new
<1> QED
  BY <1>1, <1>3, <1>4, OneCallChanges

LEMMA CallsInitInv == CallsInit => CallsInv
<1> SUFFICES ASSUME CallsInit PROVE CallsInv
  OBVIOUS
<1>1. calls \in [Callers -> CallRecords] /\ \A c \in Callers : CallInv(calls[c], calendarUserAddresses, sender)
  BY IdleInv DEF CallsInit, CallInv
<1>2. /\ addresses \in [st : {"none", "asking", "known"}, own : SUBSET {Mailbox, Principal}]
      /\ addresses.st = "none"
  BY DEF CallsInit
<1>3. listing \subseteq {Mailbox, Principal} /\ sender \subseteq {Mailbox, Principal}
  BY DEF CallsInit
<1> QED
  BY <1>1, <1>2, <1>3 DEF CallsInv

LEMMA CallsNextKeeps == CallsInv /\ [CallsNext]_cvars => CallsInv'
<1> SUFFICES ASSUME CallsInv, [CallsNext]_cvars PROVE CallsInv'
  OBVIOUS
<1>1. CASE UNCHANGED cvars
  BY <1>1 DEF cvars, CallsInv, calendarUserAddresses
<1>2. CASE CallsNext
  BY <1>2, StartKeeps, LoginKeeps, RequestKeeps, AskAddressesKeeps, LookupAnswersKeeps, ReadCalendarKeeps
     DEF CallsNext
<1> QED
  BY <1>1, <1>2

LEMMA CallsInvariance == CallsSpec => []CallsInv
BY CallsInitInv, CallsNextKeeps, PTL DEF CallsSpec

\* Guests are written about as whom the server knows the account, however many calls
\* wait for one lookup of its addresses and whatever becomes of it (ownAddresses(),
\* ownFor()).
THEOREM GuestsSeeOurAddress == CallsSpec => []WrittenAsOurselves
<1>1. CallsInv => WrittenAsOurselves
  BY DEF CallsInv, CallInv, OwnInv, WrittenAsOurselves
<1> QED
  BY CallsInvariance, <1>1, PTL

\* An answer has every object of the calendars that were named, whole or among the
\* skipped, however often a calendar was named and whichever reads failed (readEach(),
\* findFreeSlots()).
THEOREM EveryObjectAnswered == CallsSpec => []NothingLeftOutInSilence
<1>1. CallsInv => NothingLeftOutInSilence
  <2> SUFFICES ASSUME CallsInv, NEW c \in Callers, calls[c].at = "answered", NEW o \in Objects,
                      NEW n \in DOMAIN calls[c].named, calls[c].named[n] = o.in
               PROVE  /\ Settled(calls[c], o)
                      /\ calls[c].tool \in Searching /\ Busy(calls[c], o) /\ o.declined \in listing \cup sender
                           => Warned(calls[c])
    BY DEF NothingLeftOutInSilence, Settled
  <2> DEFINE k == calls[c]
  <2>1. /\ k \in CallRecords /\ k.named \in Named
        /\ ReadInv(k) /\ SearchInv(k, calendarUserAddresses, sender)
    BY DEF CallsInv, CallInv, CallRecords
  <2>2. Settled(k, o)
    <3>1. PICK i \in EachOnce(k.named) : k.named[i] = o.in
      BY <2>1, ReadWhereFirstNamed
    <3>2. k.toRead = {}
      BY <2>1 DEF ReadInv
    <3> QED
      BY <2>1, <3>1, <3>2 DEF ReadInv
  <2>3. k.tool \in Searching /\ Busy(k, o) /\ o.declined \in listing \cup sender => Warned(k)
    BY <2>1 DEF SearchInv, Busy, Warned, calendarUserAddresses
  <2> QED
    BY <2>2, <2>3
<1> QED
  BY CallsInvariance, <1>1, PTL
-----------------------------------------------------------------------------
(* Guests: whom a write of the guest list may mail.                        *)

\* Who may organize a meeting, the account among them or not.
Organizer == {Nobody, Boss, MailboxAddress, PrincipalAddress}

VeventType == [main : BOOLEAN, organizer : Organizer, lines : SUBSET Line]

\* The VEVENTs of an event are of one meeting.
OneOrganizer(vs) == \E o : Organizers(vs) \subseteq {o}

EventOK(vs) == vs \in Seq(VeventType) /\ OneOrganizer(vs)

\* An invariant of the guest list.
GuestsInv ==
  /\ EventOK(vevents)
  /\ principal \in {PrincipalAddress, Nobody} /\ mailbox \in {MailboxAddress, Nobody}
  /\ MailedAreNamed /\ QuietCallsStayQuiet

LEMMA OwnAddresses ==
  ASSUME GuestsInv
  PROVE  own \subseteq Organizer /\ Nobody \notin own /\ Boss \notin own
BY GuestsAssumption DEF GuestsInv, own, Organizer

\* A write that takes lines away, or none, mails nobody but those the server
\* schedules already.
LEMMA FewerLines ==
  ASSUME NEW before, OneOrganizer(before),
         NEW after, Organizers(after) \subseteq Organizers(before), Lines(after) \subseteq Lines(before)
  PROVE  /\ Invited(before, after) = {}
         /\ Cancelled(before, after) \cup Informed(before, after) \subseteq mayNotifyAbout(before)
<1>1. PICK o : Organizers(before) \subseteq {o}
  BY DEF OneOrganizer
<1>2. Scheduled(after) \subseteq Scheduled(before)
  BY DEF Scheduled
<1>3. schedulingObject(after) => schedulingObject(before)
  BY DEF schedulingObject
<1>4. Invited(before, after) = {}
  BY <1>2, <1>3 DEF Invited
<1>5. Mine(after) => Mine(before)
  BY <1>1 DEF Mine, Organized
<1>6. Mine(before) => foreignOrganizer(before) = {}
  BY DEF Mine, foreignOrganizer
<1>7. Scheduled(before) \subseteq schedulable(before, {})
  BY DEF schedulable
<1>8. Scheduled(before) # {} => Lines(before) # {}
  BY DEF Scheduled
<1>9. Cancelled(before, after) \subseteq mayNotifyAbout(before)
  <2>1. CASE Mine(before) /\ Scheduled(before) # {}
    <3>1. schedulingObject(before)
      BY <2>1, <1>8 DEF Mine, Organized, schedulingObject
    <3> QED
      BY <2>1, <3>1, <1>6, <1>7 DEF Cancelled, mayNotifyAbout
  <2>2. CASE ~Mine(before) \/ Scheduled(before) = {}
    BY <2>2, <1>5 DEF Cancelled
  <2> QED
    BY <2>1, <2>2
<1>10. Informed(before, after) \subseteq mayNotifyAbout(before)
  <2>1. CASE schedulingObject(before) /\ Mine(before)
    BY <2>1, <1>6, <1>7 DEF Informed, mayNotifyAbout
  <2>2. CASE schedulingObject(before) /\ ~Mine(before)
    <3>1. foreignOrganizer(before) = Organizers(before) /\ Organizers(before) # {}
      BY <2>2, <1>1 DEF Mine, Organized, schedulingObject, foreignOrganizer
    <3> QED
      BY <2>2, <3>1 DEF Informed, mayNotifyAbout
  <2>3. CASE ~schedulingObject(before)
    BY <2>3 DEF Informed
  <2> QED
    BY <2>1, <2>2, <2>3
<1> QED
  BY <1>4, <1>9, <1>10

\* A new override says what the main VEVENT does.
LEMMA CopySaysTheSame ==
  ASSUME EventOK(vevents), HasMain
  PROVE  /\ EventOK(WithCopy) /\ DOMAIN WithCopy = 1 .. Len(vevents) + 1
         /\ Organizers(WithCopy) = Organizers(vevents) /\ Lines(WithCopy) = Lines(vevents)
<1> DEFINE copy == [vevents[1] EXCEPT !.main = FALSE]
           n == Len(vevents)
<1>1. vevents \in Seq(VeventType) /\ n \in Nat \ {0} /\ DOMAIN vevents = 1 .. n /\ vevents[1] \in VeventType
  BY DEF EventOK, HasMain
<1>2. copy \in VeventType /\ copy.organizer = vevents[1].organizer /\ copy.lines = vevents[1].lines
  BY <1>1 DEF VeventType
<1> HIDE DEF copy
<1>3. /\ WithCopy \in Seq(VeventType) /\ DOMAIN WithCopy = 1 .. n + 1
      /\ \A i \in 1 .. n : WithCopy[i] = vevents[i]
      /\ WithCopy[n + 1] = copy
  BY <1>1, <1>2 DEF WithCopy, copy
<1> HIDE DEF n
<1>4. /\ \A i \in DOMAIN WithCopy : \E j \in DOMAIN vevents :
           WithCopy[i].organizer = vevents[j].organizer /\ WithCopy[i].lines = vevents[j].lines
      /\ \A j \in DOMAIN vevents : j \in DOMAIN WithCopy /\ WithCopy[j] = vevents[j]
  <2>1. \A i \in 1 .. n + 1 : i \in 1 .. n \/ i = n + 1
    BY <1>1
  <2>2. 1 \in 1 .. n /\ \A j \in 1 .. n : j \in 1 .. n + 1
    BY <1>1
  <2> QED
    BY <1>1, <1>2, <1>3, <2>1, <2>2
<1>5. Organizers(WithCopy) = Organizers(vevents)
  BY <1>4 DEF Organizers
<1>6. Lines(WithCopy) = Lines(vevents)
  BY <1>4 DEF Lines
<1>7. OneOrganizer(WithCopy)
  BY <1>5 DEF EventOK, OneOrganizer
<1> QED
  BY <1>3, <1>5, <1>6, <1>7 DEF EventOK, n
\* A change of the guest list leaves VEVENTs of one meeting, which is the account's own.
LEMMA GuestListWritten ==
  ASSUME GuestsInv, NEW vs, EventOK(vs), NEW strict, NEW targets, NEW c \in Calls,
         Checked(vs, strict, targets, c)
  PROVE  /\ EventOK(writeGuestList(vs, strict, targets, c))
         /\ Organizers(writeGuestList(vs, strict, targets, c)) \subseteq own
<1> DEFINE after == writeGuestList(vs, strict, targets, c)
           marked == Marked(vs, strict, c)
<1>1. PICK o : Organizers(vs) \subseteq {o}
  BY DEF EventOK, OneOrganizer
<1>2. Organizers(vs) \subseteq own /\ own # {} /\ own \subseteq Organizer
  BY OwnAddresses DEF Checked, checkOrganizer, foreignOrganizer
<1>3. organizer(vs) \in own /\ (Organized(vs) => organizer(vs) \in Organizers(vs))
  BY <1>2 DEF organizer, Organized
<1>4. vs \in Seq(VeventType) /\ DOMAIN after = DOMAIN vs /\ DOMAIN marked = DOMAIN vs
  BY DEF writeGuestList, Marked, EventOK
<1>5. \A i \in DOMAIN vs : marked[i] \in VeventType /\ marked[i].organizer = vs[i].organizer
  <2> SUFFICES ASSUME NEW i \in DOMAIN vs
               PROVE  marked[i] \in VeventType /\ marked[i].organizer = vs[i].organizer
    OBVIOUS
  <2>1. vs[i] \in VeventType
    BY <1>4
  <2>2. \A l \in Line : [l EXCEPT !.client = TRUE] \in Line
    BY DEF Line
  <2>3. {[l EXCEPT !.client = TRUE] : l \in vs[i].lines} \in SUBSET Line
    BY <2>1, <2>2 DEF VeventType
  <2>4. \A v \in VeventType, s \in SUBSET Line :
          [v EXCEPT !.lines = s] \in VeventType /\ [v EXCEPT !.lines = s].organizer = v.organizer
    BY DEF VeventType
  <2>5. marked[i] = vs[i] \/ marked[i] = [vs[i] EXCEPT !.lines = {[l EXCEPT !.client = TRUE] : l \in vs[i].lines}]
    BY DEF Marked
  <2> QED
    BY <2>1, <2>3, <2>4, <2>5
<1>6. \A i \in DOMAIN vs :
        /\ after[i] \in VeventType
        /\ after[i].organizer = IF vs[i].organizer = Nobody THEN organizer(vs) ELSE vs[i].organizer
  <2> SUFFICES ASSUME NEW i \in DOMAIN vs
               PROVE  /\ after[i] \in VeventType
                      /\ after[i].organizer = IF vs[i].organizer = Nobody THEN organizer(vs) ELSE vs[i].organizer
    OBVIOUS
  <2> DEFINE m == marked[i]
             who == IF m.organizer = Nobody THEN organizer(vs) ELSE m.organizer
             lines == IF i \notin targets THEN m.lines
                      ELSE {l \in m.lines : l.who \notin c.remove} \cup
                           {[who |-> p, client |-> ~c.notify] : p \in c.add \ {l.who : l \in m.lines}}
  <2>1. after[i] = [m EXCEPT !.organizer = who, !.lines = lines]
    BY DEF writeGuestList
  <2>2. m \in VeventType /\ m.organizer = vs[i].organizer
    BY <1>5
  <2>3. c.add \in SUBSET Attendees /\ c.notify \in BOOLEAN
    BY DEF Calls
  <2>4. \A p \in c.add : [who |-> p, client |-> ~c.notify] \in Line
    <3>1. (~c.notify) = TRUE \/ (~c.notify) = FALSE
      OBVIOUS
    <3>2. (~c.notify) \in BOOLEAN
      BY <3>1
    <3> QED
      BY <2>3, <3>2 DEF Line
  <2>5. lines \in SUBSET Line
    BY <2>2, <2>4 DEF VeventType
  <2>6. who \in Organizer
    BY <2>2, <1>2, <1>3 DEF VeventType
  <2> HIDE DEF m, who, lines
  <2>7. after[i] \in VeventType /\ after[i].organizer = who
    BY <2>1, <2>2, <2>5, <2>6 DEF VeventType
  <2> QED
    BY <2>2, <2>7 DEF who
<1>7. after \in Seq(VeventType)
  <2>1. Len(vs) \in Nat /\ DOMAIN vs = 1 .. Len(vs)
    BY <1>4
  <2>2. after = [i \in 1 .. Len(vs) |-> after[i]]
    BY <2>1 DEF writeGuestList
  <2> HIDE DEF after
  <2>3. [i \in 1 .. Len(vs) |-> after[i]] \in Seq(VeventType)
    BY <2>1, <1>6
  <2> QED
    BY <2>2, <2>3
<1> HIDE DEF after, marked
<1>8. Organizers(after) \subseteq own
  BY <1>2, <1>3, <1>4, <1>6 DEF Organizers
<1>9. OneOrganizer(after)
  <2>1. CASE Organized(vs)
    <3>1. organizer(vs) = o
      BY <2>1, <1>1, <1>3
    <3>2. \A i \in DOMAIN vs : vs[i].organizer \in {o, Nobody}
      BY <1>1 DEF Organizers
    <3>3. \A i \in DOMAIN after : after[i].organizer = o
      BY <3>1, <3>2, <1>4, <1>6
    <3>4. Organizers(after) \subseteq {o}
      BY <3>3 DEF Organizers
    <3> QED
      BY <3>4 DEF OneOrganizer
  <2>2. CASE ~Organized(vs)
    BY <2>2, <1>4, <1>6 DEF Organized, Organizers, OneOrganizer
  <2> QED
    BY <2>1, <2>2
<1> QED
  BY <1>7, <1>8, <1>9 DEF EventOK, after
\* What a change leaves of a guest's line: a line that is not marked was there and not
\* marked before, or is of someone added with true; and whoever is not taken off
\* stays, as they were unless the change marks them.
LEMMA LinesWritten ==
  ASSUME NEW vs, EventOK(vs), NEW strict, NEW targets, NEW c \in Calls, NEW i \in DOMAIN vs,
         NEW after, after = writeGuestList(vs, strict, targets, c)
  PROVE  /\ i \in DOMAIN after
         /\ \A l \in after[i].lines :
              ~clientScheduled(l) => c.notify \/ (~Marking(vs, c) /\ l \in vs[i].lines)
         /\ \A l \in vs[i].lines : i \notin targets \/ l.who \notin c.remove =>
              \E k \in after[i].lines : k.who = l.who /\ (~Marking(vs, c) => k = l)
<1> DEFINE m == Marked(vs, strict, c)[i]
           stay == IF i \notin targets THEN m.lines ELSE {l \in m.lines : l.who \notin c.remove}
           new == IF i \notin targets THEN {}
                  ELSE {[who |-> p, client |-> ~c.notify] : p \in c.add \ {l.who : l \in m.lines}}
           who == IF m.organizer = Nobody THEN organizer(vs) ELSE m.organizer
           masked == [vs[i] EXCEPT !.lines = {[l EXCEPT !.client = TRUE] : l \in vs[i].lines}]
<1>1. vs[i] \in VeventType /\ vs[i].lines \in SUBSET Line
  <2>1. vs[i] \in VeventType
    BY DEF EventOK
  <2> QED
    BY <2>1 DEF VeventType
<1>2. m = IF Marking(vs, c) THEN masked ELSE vs[i]
  BY DEF Marked
<1>3. masked \in VeventType /\ masked.lines = {[l EXCEPT !.client = TRUE] : l \in vs[i].lines}
  <2>1. \A l \in Line : [l EXCEPT !.client = TRUE] \in Line
    BY DEF Line
  <2>2. {[l EXCEPT !.client = TRUE] : l \in vs[i].lines} \in SUBSET Line
    BY <1>1, <2>1
  <2>3. \A v \in VeventType, s \in SUBSET Line :
          [v EXCEPT !.lines = s] \in VeventType /\ [v EXCEPT !.lines = s].lines = s
    BY DEF VeventType
  <2> QED
    BY <1>1, <2>2, <2>3
<1>4. m \in VeventType
  BY <1>1, <1>2, <1>3
<1> HIDE DEF m, masked
<1>5. i \in DOMAIN after /\ after[i].lines = stay \cup new
  <2>1. i \in DOMAIN after /\ after[i] = [m EXCEPT !.organizer = who, !.lines = stay \cup new]
    BY DEF writeGuestList, m
  <2>2. \A v \in VeventType : \A o, s : [v EXCEPT !.organizer = o, !.lines = s].lines = s
    BY DEF VeventType
  <2> QED
    BY <1>4, <2>1, <2>2
<1>6. \A l \in new : c.notify \/ clientScheduled(l)
  <2> SUFFICES ASSUME NEW l \in new, ~c.notify
               PROVE  l.client
    BY DEF clientScheduled
  <2>1. PICK p : l = [who |-> p, client |-> ~c.notify]
    OBVIOUS
  <2>2. (~c.notify) = TRUE
    OBVIOUS
  <2>3. l.client = ~c.notify
    BY <2>1
  <2> QED
    BY <2>2, <2>3
<1>7. Marking(vs, c) => \A l \in m.lines : clientScheduled(l)
  <2>1. \A l \in Line : [l EXCEPT !.client = TRUE].client = TRUE
    BY DEF Line
  <2> QED
    BY <1>1, <1>2, <1>3, <2>1 DEF clientScheduled
<1>8. \A l \in vs[i].lines : \E k \in m.lines : k.who = l.who /\ (~Marking(vs, c) => k = l)
  <2>1. \A l \in Line : [l EXCEPT !.client = TRUE].who = l.who
    BY DEF Line
  <2>2. CASE Marking(vs, c)
    BY <2>1, <2>2, <1>1, <1>2, <1>3
  <2>3. CASE ~Marking(vs, c)
    BY <2>3, <1>2
  <2> QED
    BY <2>2, <2>3
<1>9. ~Marking(vs, c) => m.lines = vs[i].lines
  BY <1>2
<1>10. stay \subseteq m.lines /\ \A k \in m.lines : i \notin targets \/ k.who \notin c.remove => k \in stay
  OBVIOUS
<1> HIDE DEF stay, new
<1>11. \A l \in after[i].lines : ~clientScheduled(l) => c.notify \/ (~Marking(vs, c) /\ l \in vs[i].lines)
  BY <1>5, <1>6, <1>7, <1>9, <1>10
<1>12. \A l \in vs[i].lines : i \notin targets \/ l.who \notin c.remove =>
         \E k \in after[i].lines : k.who = l.who /\ (~Marking(vs, c) => k = l)
  BY <1>5, <1>8, <1>10
<1> QED
  BY <1>5, <1>11, <1>12
\* A change of the guest list, to the VEVENTs as they are or with a new override.
LEMMA GuestsChanged ==
  ASSUME GuestsInv, NEW vs, EventOK(vs),
         Organizers(vs) = Organizers(vevents), Lines(vs) = Lines(vevents),
         NEW strict, NEW targets, NEW c \in Calls, Changed(vs, strict, targets, c)
  PROVE  GuestsInv'
<1> DEFINE after == writeGuestList(vs, strict, targets, c)
           leaving == cancelled(vs, targets, c) \cup markedAway(vs, c)
<1>1. /\ Checked(vs, strict, targets, c)
      /\ vevents' = after /\ principal' = principal /\ mailbox' = mailbox
      /\ answer' = [named |-> schedulable(after, leaving), call |-> c,
                    invited |-> Invited(vevents, after), cancelled |-> Cancelled(vevents, after),
                    informed |-> Informed(vevents, after)]
  BY DEF Changed, Written
<1>2. EventOK(after) /\ Organizers(after) \subseteq own
  BY <1>1, GuestListWritten
<1>3. \A i \in DOMAIN vs :
        /\ i \in DOMAIN after
        /\ \A l \in after[i].lines :
             ~clientScheduled(l) => c.notify \/ (~Marking(vs, c) /\ l \in vs[i].lines)
        /\ \A l \in vs[i].lines : i \notin targets \/ l.who \notin c.remove =>
             \E k \in after[i].lines : k.who = l.who /\ (~Marking(vs, c) => k = l)
  BY LinesWritten
<1>4. DOMAIN after = DOMAIN vs
  BY DEF writeGuestList
<1>5. \A i \in DOMAIN vs \cap targets : vs[i].lines \subseteq Lines(Targeted(vs, targets))
  BY DEF Targeted, Lines
<1>6. Organizers(vs) \subseteq own
  BY <1>1 DEF Checked, checkOrganizer, foreignOrganizer
<1>7. Scheduled(vs) = Scheduled(vevents) /\ (schedulingObject(vs) <=> schedulingObject(vevents))
  BY DEF Scheduled, schedulingObject
<1> HIDE DEF after, leaving
<1>8. \A p \in Scheduled(vs) : p \notin own /\ \E i \in DOMAIN vs, l \in Line :
        l \in vs[i].lines /\ l.who = p /\ ~clientScheduled(l)
  <2>1. \A i \in DOMAIN vs : vs[i] \in VeventType
    BY DEF EventOK
  <2>2. \A i \in DOMAIN vs : vs[i].lines \subseteq Line
    BY <2>1 DEF VeventType
  <2> QED
    BY <2>2 DEF Scheduled, Lines
<1>9. \A i \in DOMAIN vs : \A l \in after[i].lines :
        ~clientScheduled(l) /\ l.who \notin own => l.who \in Scheduled(after)
  BY <1>4 DEF Scheduled, Lines
<1>10. Scheduled(vs) \subseteq Scheduled(after) \cup leaving
  <2> SUFFICES ASSUME NEW p \in Scheduled(vs), p \notin Scheduled(after)
               PROVE  p \in leaving
    OBVIOUS
  <2>1. PICK i \in DOMAIN vs, l \in Line : l \in vs[i].lines /\ l.who = p /\ ~clientScheduled(l)
    BY <1>8
  <2>2. CASE Marking(vs, c)
    BY <2>2 DEF leaving, markedAway
  <2>3. CASE ~Marking(vs, c)
    <3>1. i \in targets /\ p \in c.remove
      BY <1>3, <1>8, <1>9, <2>1, <2>3
    <3>2. l \in Lines(Targeted(vs, targets))
      BY <1>5, <2>1, <3>1
    <3>3. c.notify
      BY <1>1, <2>1, <3>1, <3>2 DEF Checked, checkRemoval
    <3> QED
      BY <2>1, <3>1, <3>2, <3>3 DEF leaving, cancelled
  <2> QED
    BY <2>2, <2>3
<1>11. Scheduled(vs) \cap own = {} /\ Scheduled(after) \cap own = {}
  BY DEF Scheduled
<1>12. Invited(vevents, after) \cup Cancelled(vevents, after) \cup Informed(vevents, after)
         \subseteq schedulable(after, leaving)
  <2>1. Scheduled(vs) \cup Scheduled(after) \subseteq schedulable(after, leaving)
    BY <1>10, <1>11 DEF schedulable
  <2>2. schedulingObject(vevents) => Mine(vevents)
    BY <1>6 DEF schedulingObject, Mine, Organized
  <2> QED
    BY <1>7, <2>1, <2>2 DEF Invited, Cancelled, Informed
<1>13. ASSUME ~c.notify
       PROVE  /\ Invited(vevents, after) = {}
              /\ Cancelled(vevents, after) \cap c.remove \subseteq Listed(after)
  <2>1. Scheduled(after) \subseteq Scheduled(vs)
    BY <1>3, <1>4, <1>13 DEF Scheduled, Lines
  <2>2. Scheduled(after) # {} => schedulingObject(vs)
    <3>1. Scheduled(after) # {} => ~Marking(vs, c)
      BY <1>3, <1>4, <1>13 DEF Scheduled, Lines
    <3>2. Scheduled(vs) # {} => Lines(vs) # {}
      BY DEF Scheduled
    <3> QED
      BY <2>1, <3>1, <3>2, <1>13 DEF Marking, Organized, schedulingObject
  <2>3. Invited(vevents, after) = {}
    BY <1>7, <2>1, <2>2 DEF Invited
  <2>4. \A p \in Scheduled(vs) : p \in c.remove => p \in Listed(after)
    <3> SUFFICES ASSUME NEW p \in Scheduled(vs), p \in c.remove
                 PROVE  p \in Listed(after)
      OBVIOUS
    <3>1. PICK i \in DOMAIN vs, l \in Line : l \in vs[i].lines /\ l.who = p /\ ~clientScheduled(l)
      BY <1>8
    <3>2. i \notin targets
      BY <1>1, <1>5, <1>13, <3>1 DEF Checked, checkRemoval
    <3>3. \E k \in after[i].lines : k.who = p
      BY <1>3, <3>1, <3>2
    <3> QED
      BY <1>4, <3>3 DEF Listed, Lines
  <2>5. Cancelled(vevents, after) \subseteq Scheduled(vs)
    BY <1>7 DEF Cancelled
  <2> QED
    BY <2>3, <2>4, <2>5
<1>14. MailedAreNamed'
  BY <1>1, <1>12 DEF MailedAreNamed
<1>15. QuietCallsStayQuiet'
  BY <1>1, <1>13 DEF QuietCallsStayQuiet
<1>16. EventOK(vevents)'
  BY <1>1, <1>2
<1> QED
  BY <1>1, <1>14, <1>15, <1>16 DEF GuestsInv
\* Any other write of an event there is.
LEMMA OtherWrites ==
  ASSUME GuestsInv, NEW after, EventOK(after),
         Organizers(after) \subseteq Organizers(vevents), Lines(after) \subseteq Lines(vevents),
         Written(after, mayNotifyAbout(vevents), NoCall)
  PROVE  GuestsInv'
<1>1. /\ vevents' = after /\ principal' = principal /\ mailbox' = mailbox
      /\ answer' = [named |-> mayNotifyAbout(vevents), call |-> NoCall,
                    invited |-> Invited(vevents, after), cancelled |-> Cancelled(vevents, after),
                    informed |-> Informed(vevents, after)]
  BY DEF Written
<1>2. /\ Invited(vevents, after) = {}
      /\ Cancelled(vevents, after) \cup Informed(vevents, after) \subseteq mayNotifyAbout(vevents)
  BY FewerLines DEF GuestsInv, EventOK
<1>3. MailedAreNamed'
  BY <1>1, <1>2 DEF MailedAreNamed
<1>4. NoCall.notify = TRUE
  BY DEF NoCall
<1>5. QuietCallsStayQuiet'
  BY <1>1, <1>4 DEF QuietCallsStayQuiet
<1>6. EventOK(vevents)'
  BY <1>1
<1> QED
  BY <1>1, <1>3, <1>5, <1>6 DEF GuestsInv

\* An event without VEVENTs has no guests.
LEMMA NoEvent ==
  /\ EventOK(<<>>) /\ Organizers(<<>>) = {} /\ Lines(<<>>) = {} /\ Scheduled(<<>>) = {}
  /\ ~schedulingObject(<<>>)
<1>1. DOMAIN <<>> = {} /\ <<>> \in Seq(VeventType)
  OBVIOUS
<1>2. Organizers(<<>>) = {} /\ Lines(<<>>) = {}
  BY <1>1 DEF Organizers, Lines
<1> QED
  BY <1>1, <1>2 DEF EventOK, OneOrganizer, Scheduled, schedulingObject

\* An occurrence that is cancelled leaves the other VEVENTs as they are.
LEMMA OccurrenceTaken ==
  ASSUME EventOK(vevents), NEW i \in DOMAIN vevents,
         NEW after, after = SubSeq(vevents, 1, i - 1) \o SubSeq(vevents, i + 1, Len(vevents))
  PROVE  /\ EventOK(after)
         /\ Organizers(after) \subseteq Organizers(vevents) /\ Lines(after) \subseteq Lines(vevents)
<1> DEFINE n == Len(vevents)
           head == SubSeq(vevents, 1, i - 1)
           tail == SubSeq(vevents, i + 1, n)
<1>1. vevents \in Seq(VeventType) /\ n \in Nat /\ DOMAIN vevents = 1 .. n /\ i \in 1 .. n
  BY DEF EventOK
<1>2. /\ head \in Seq(VeventType) /\ Len(head) = i - 1
      /\ \A j \in 1 .. i - 1 : head[j] = vevents[j]
  BY <1>1
<1>3. /\ tail \in Seq(VeventType) /\ Len(tail) = n - i
      /\ \A j \in 1 .. n - i : tail[j] = vevents[i + j]
  <2>1. i + 1 \in Int /\ n - (i + 1) + 1 = n - i /\ n - i >= 0
    BY <1>1
  <2>2. Len(tail) = n - i /\ tail \in Seq(VeventType)
    BY <1>1, <2>1
  <2>3. \A j \in 1 .. n - i : i + 1 + j - 1 = i + j
    BY <1>1
  <2>4. \A j \in 1 .. n - i : tail[j] = vevents[i + 1 + j - 1]
    BY SMTT(30), <1>1, <2>1
  <2> QED
    BY <2>2, <2>3, <2>4
<1> HIDE DEF n, head, tail
<1>4. /\ after \in Seq(VeventType) /\ DOMAIN after = 1 .. n - 1
      /\ \A j \in 1 .. n - 1 : after[j] = IF j < i THEN head[j] ELSE tail[j - (i - 1)]
  <2>1. after = head \o tail
    BY DEF head, tail, n
  <2>2. after \in Seq(VeventType) /\ Len(after) = (i - 1) + (n - i)
    BY SMTT(30), <2>1, <1>1, <1>2, <1>3
  <2>3. \A j \in 1 .. Len(head) + Len(tail) :
          (head \o tail)[j] = IF j <= Len(head) THEN head[j] ELSE tail[j - Len(head)]
    BY <1>2, <1>3, ConcatProperties
  <2>4. Len(head) + Len(tail) = n - 1 /\ Len(after) = n - 1
    BY <2>2, <1>1, <1>2, <1>3
  <2>5. \A j \in 1 .. n - 1 : after[j] = IF j <= i - 1 THEN head[j] ELSE tail[j - (i - 1)]
    BY <2>1, <2>3, <2>4, <1>2
  <2>6. \A j \in 1 .. n - 1 : j <= i - 1 <=> j < i
    BY <1>1
  <2>7. after \in Seq(VeventType) /\ DOMAIN after = 1 .. n - 1
    BY <2>2, <2>4
  <2>8. \A j \in 1 .. n - 1 : after[j] = IF j < i THEN head[j] ELSE tail[j - (i - 1)]
    BY <2>5, <2>6
  <2> QED
    BY <2>7, <2>8
<1>5. \A j \in DOMAIN after : \E k \in DOMAIN vevents : after[j] = vevents[k]
  <2> SUFFICES ASSUME NEW j \in 1 .. n - 1
               PROVE  \E k \in 1 .. n : after[j] = vevents[k]
    BY <1>1, <1>4
  <2>1. CASE j < i
    <3>1. j \in 1 .. i - 1 /\ j \in 1 .. n
      BY <1>1, <2>1
    <3> QED
      BY <2>1, <3>1, <1>2, <1>4
  <2>2. CASE ~(j < i)
    <3>1. j - (i - 1) \in 1 .. n - i /\ i + (j - (i - 1)) \in 1 .. n
      BY <1>1, <2>2
    <3> QED
      BY <2>2, <3>1, <1>3, <1>4
  <2> QED
    BY <2>1, <2>2
<1>6. Organizers(after) \subseteq Organizers(vevents) /\ Lines(after) \subseteq Lines(vevents)
  <2>1. Organizers(after) \subseteq Organizers(vevents)
    <3> SUFFICES ASSUME NEW j \in DOMAIN after, after[j].organizer # Nobody
                 PROVE  after[j].organizer \in Organizers(vevents)
      BY DEF Organizers
    <3> QED
      BY <1>5 DEF Organizers
  <2>2. Lines(after) \subseteq Lines(vevents)
    <3> SUFFICES ASSUME NEW x \in Lines(after) PROVE x \in Lines(vevents)
      OBVIOUS
    <3>1. PICK j \in DOMAIN after : x \in after[j].lines
      BY DEF Lines
    <3>2. PICK k \in DOMAIN vevents : after[j] = vevents[k]
      BY <1>5, <3>1
    <3> QED
      BY <3>1, <3>2 DEF Lines
  <2> QED
    BY <2>1, <2>2
<1> QED
  BY <1>4, <1>6 DEF EventOK, OneOrganizer

\* An event is created with whom it invites.
LEMMA EventCreated ==
  ASSUME GuestsInv, NEW add \in SUBSET Attendees, NEW notify \in BOOLEAN, CreateEvent(add, notify)
  PROVE  GuestsInv'
<1> DEFINE lines == {[who |-> p, client |-> ~notify] : p \in add}
           who == IF add = {} THEN Nobody ELSE organizer(<<>>)
           new == <<[main |-> TRUE, lines |-> lines, organizer |-> who]>>
           named == IF add = {} THEN {} ELSE schedulable(new, {})
<1>1. /\ vevents = <<>> /\ (add # {} => own # {})
      /\ vevents' = new /\ principal' = principal /\ mailbox' = mailbox
      /\ answer' = [named |-> named, call |-> [add |-> add, remove |-> {}, notify |-> notify],
                    invited |-> Invited(vevents, new), cancelled |-> Cancelled(vevents, new),
                    informed |-> Informed(vevents, new)]
  BY DEF CreateEvent, Written
<1>2. who \in Organizer
  <2>1. add # {} => organizer(<<>>) \in own
    BY <1>1, NoEvent DEF organizer, Organized
  <2> QED
    BY <2>1, OwnAddresses DEF Organizer
<1>3. lines \in SUBSET Line
  <2>1. (~notify) = TRUE \/ (~notify) = FALSE
    OBVIOUS
  <2>2. (~notify) \in BOOLEAN
    BY <2>1
  <2>3. \A w \in BOOLEAN : {[who |-> p, client |-> w] : p \in add} \in SUBSET Line
    BY DEF Line
  <2> QED
    BY <2>2, <2>3
<1>4. ~notify => \A l \in lines : clientScheduled(l)
  <2> SUFFICES ASSUME ~notify, NEW l \in lines
               PROVE  l.client
    BY DEF clientScheduled
  <2>1. PICK p : l = [who |-> p, client |-> ~notify]
    OBVIOUS
  <2>2. (~notify) = TRUE
    OBVIOUS
  <2>3. l.client = ~notify
    BY <2>1
  <2> QED
    BY <2>2, <2>3
<1>5. add = {} => lines = {}
  OBVIOUS
<1> HIDE DEF lines, who
<1>6. DOMAIN new = {1} /\ new[1].lines = lines /\ new[1].organizer = who /\ new \in Seq(VeventType)
  BY <1>2, <1>3 DEF VeventType
<1> HIDE DEF new
<1>7. Lines(new) = lines /\ Organizers(new) \subseteq {who}
  BY <1>6 DEF Lines, Organizers
<1>8. EventOK(new)
  BY <1>6, <1>7 DEF EventOK, OneOrganizer
<1>9. /\ Invited(vevents, new) \subseteq Scheduled(new)
      /\ Cancelled(vevents, new) = {} /\ Informed(vevents, new) = {}
  BY <1>1, NoEvent DEF Invited, Cancelled, Informed
<1>10. Scheduled(new) \subseteq named
  <2>1. Lines(new) = {} => Scheduled(new) = {}
    BY DEF Scheduled
  <2> QED
    BY <2>1, <1>5, <1>7 DEF schedulable
<1>11. ~notify => Scheduled(new) = {}
  BY <1>4, <1>7 DEF Scheduled
<1> HIDE DEF named
<1>12. MailedAreNamed'
  BY <1>1, <1>9, <1>10 DEF MailedAreNamed
<1>13. QuietCallsStayQuiet'
  BY <1>1, <1>9, <1>11 DEF QuietCallsStayQuiet
<1>14. EventOK(vevents)'
  BY <1>1, <1>8
<1> QED
  BY <1>1, <1>12, <1>13, <1>14 DEF GuestsInv
LEMMA GuestsStart == GuestsInit => GuestsInv
<1> SUFFICES ASSUME GuestsInit PROVE GuestsInv
  OBVIOUS
<1>1. /\ principal \in {PrincipalAddress, Nobody} /\ mailbox \in {MailboxAddress, Nobody}
      /\ answer = [named |-> {}, call |-> NoCall, invited |-> {}, cancelled |-> {}, informed |-> {}]
  BY DEF GuestsInit
<1>2. PICK o \in {Nobody, Boss} \cup own : vevents \in StoredBy(o)
  BY DEF GuestsInit
<1>3. o \in Organizer
  BY <1>1 DEF own, Organizer
<1>4. \A m \in BOOLEAN : \A os \in SUBSET {o, Nobody} : \A v \in Vevent(m, os) :
        v \in VeventType /\ v.organizer \in {o, Nobody}
  BY <1>3 DEF Vevent, VeventType, Organizer
<1>5. {o} \in SUBSET {o, Nobody} /\ {o, Nobody} \in SUBSET {o, Nobody}
  OBVIOUS
<1>6. (\E v \in VeventType : v.organizer \in {o, Nobody} /\ vevents = <<v>>)
      \/ (\E v, w \in VeventType : v.organizer \in {o, Nobody} /\ w.organizer \in {o, Nobody} /\ vevents = <<v, w>>)
  <2>1. (\E v \in Vevent(TRUE, {o}) : vevents = <<v>>) \/ (\E v \in Vevent(FALSE, {o}) : vevents = <<v>>)
        \/ (\E v \in Vevent(TRUE, {o, Nobody}), w \in Vevent(FALSE, {o, Nobody}) : vevents = <<v, w>>)
    <3>1. \/ vevents \in {<<v>> : v \in Vevent(TRUE, {o})} \cup {<<v>> : v \in Vevent(FALSE, {o})}
          \/ vevents \in Vevent(TRUE, {o, Nobody}) \X Vevent(FALSE, {o, Nobody})
      BY <1>2 DEF StoredBy
    <3>2. \A V, W : vevents \in V \X W => \E v \in V, w \in W : vevents = <<v, w>>
      OBVIOUS
    <3>3. \A V : vevents \in {<<v>> : v \in V} => \E v \in V : vevents = <<v>>
      OBVIOUS
    <3> QED
      BY <3>1, <3>2, <3>3
  <2> QED
    BY <2>1, <1>4, <1>5
<1>7. vevents \in Seq(VeventType) /\ \A i \in DOMAIN vevents : vevents[i].organizer \in {o, Nobody}
  <2>1. CASE \E v \in VeventType : v.organizer \in {o, Nobody} /\ vevents = <<v>>
    BY <2>1
  <2>2. CASE \E v, w \in VeventType : v.organizer \in {o, Nobody} /\ w.organizer \in {o, Nobody} /\ vevents = <<v, w>>
    <3>1. PICK v \in VeventType, w \in VeventType :
            v.organizer \in {o, Nobody} /\ w.organizer \in {o, Nobody} /\ vevents = <<v, w>>
      BY <2>2
    <3>2. DOMAIN vevents = {1, 2} /\ vevents[1] = v /\ vevents[2] = w /\ vevents \in Seq(VeventType)
      BY <3>1
    <3> QED
      BY <3>1, <3>2
  <2> QED
    BY <1>6, <2>1, <2>2
<1>8. OneOrganizer(vevents)
  <2>1. Organizers(vevents) \subseteq {o}
    BY <1>7 DEF Organizers
  <2> QED
    BY <2>1 DEF OneOrganizer
<1>9. MailedAreNamed
  BY <1>1 DEF MailedAreNamed
<1>10. NoCall.notify = TRUE
  BY DEF NoCall
<1>11. QuietCallsStayQuiet
  BY <1>1, <1>10 DEF QuietCallsStayQuiet
<1> QED
  BY <1>1, <1>7, <1>8, <1>9, <1>11 DEF GuestsInv, EventOK

LEMMA GuestsStep == GuestsInv /\ [GuestsNext]_gvars => GuestsInv'
<1> SUFFICES ASSUME GuestsInv, [GuestsNext]_gvars PROVE GuestsInv'
  OBVIOUS
<1>1. EventOK(vevents)
  BY DEF GuestsInv
<1>2. ASSUME NEW c \in Calls, GuestsOfAll(c) PROVE GuestsInv'
  BY <1>1, <1>2, GuestsChanged DEF GuestsOfAll
<1>3. ASSUME NEW i, NEW c \in Calls, GuestsOfOne(i, c) PROVE GuestsInv'
  BY <1>1, <1>3, GuestsChanged DEF GuestsOfOne
<1>4. ASSUME NEW c \in Calls, GuestsOfNew(c) PROVE GuestsInv'
  BY <1>1, <1>4, CopySaysTheSame, GuestsChanged DEF GuestsOfNew
<1>5. ASSUME NewTitle PROVE GuestsInv'
  <2>1. ASSUME Written(vevents, mayNotifyAbout(vevents), NoCall) PROVE GuestsInv'
    BY <1>1, <2>1, OtherWrites
  <2>2. ASSUME HasMain, Written(WithCopy, mayNotifyAbout(WithCopy), NoCall) PROVE GuestsInv'
    <3>1. /\ EventOK(WithCopy)
          /\ Organizers(WithCopy) = Organizers(vevents) /\ Lines(WithCopy) = Lines(vevents)
      BY <1>1, <2>2, CopySaysTheSame
    <3>2. mayNotifyAbout(WithCopy) = mayNotifyAbout(vevents)
      BY <3>1 DEF mayNotifyAbout, schedulingObject, foreignOrganizer, schedulable, Scheduled
    <3>3. Written(WithCopy, mayNotifyAbout(vevents), NoCall)
      BY <2>2, <3>2
    <3> QED
      BY <3>1, <3>3, OtherWrites
  <2> QED
    BY <1>5, <2>1, <2>2 DEF NewTitle
<1>6. ASSUME NEW i, CancelOccurrence(i) PROVE GuestsInv'
  BY <1>1, <1>6, OccurrenceTaken, OtherWrites DEF CancelOccurrence
<1>7. ASSUME DeleteEvent PROVE GuestsInv'
  BY <1>7, NoEvent, OtherWrites DEF DeleteEvent
<1>8. ASSUME NEW add \in SUBSET Attendees, NEW notify \in BOOLEAN, CreateEvent(add, notify) PROVE GuestsInv'
  BY <1>8, EventCreated
<1>9. ASSUME UNCHANGED gvars PROVE GuestsInv'
  <2>1. vevents' = vevents /\ answer' = answer /\ principal' = principal /\ mailbox' = mailbox
    BY <1>9 DEF gvars
  <2> QED
    BY <1>1, <2>1 DEF GuestsInv, MailedAreNamed, QuietCallsStayQuiet
<1> QED
  BY <1>2, <1>3, <1>4, <1>5, <1>6, <1>7, <1>8, <1>9 DEF GuestsNext

LEMMA GuestsInvariance == GSpec => []GuestsInv
<1>1. GuestsInit => GuestsInv
  BY GuestsStart
<1>2. GuestsInv /\ [GuestsNext]_gvars => GuestsInv'
  BY GuestsStep
<1> QED
  BY <1>1, <1>2, PTL DEF GSpec

\* Whoever the server may mail about a write is named in its answer: whom it invites,
\* whom it cancels, and whom it sends an update or a reply (AttendeeResult.mayNotify,
\* mayNotifyAbout()).
THEOREM TheMailedAreNamed == GSpec => []MailedAreNamed
<1>1. GuestsInv => MailedAreNamed
  BY DEF GuestsInv
<1> QED
  BY GuestsInvariance, <1>1, PTL

\* A call with notify false makes the server invite nobody, and cancel nobody it takes
\* off the event (writeGuestList(), checkRemoval()).
THEOREM QuietMeansQuiet == GSpec => []QuietCallsStayQuiet
<1>1. GuestsInv => QuietCallsStayQuiet
  BY DEF GuestsInv
<1> QED
  BY GuestsInvariance, <1>1, PTL

=============================================================================
