---------------------------- MODULE CalDavWrites ----------------------------
(***************************************************************************)
(* One change of a calendar event by the connector, update_event,          *)
(* delete_event or move_event, against a CalDAV server that other programs *)
(* write to (caldav-client.ts, caldav-move.ts, caldav-etag.ts).            *)
(*                                                                         *)
(* A step is one request with its answer.  Between two steps anybody may   *)
(* edit or delete the event.  The answer may be lost, or be a gateway's    *)
(* 5xx, with the request carried out, not carried out, or carried out      *)
(* later; all of these are "unclear" to the connector.                     *)
(*                                                                         *)
(* What is stored is told apart by its text and by whether the server      *)
(* rewrote it; a strong ETag stands for exactly that.                      *)
(***************************************************************************)
EXTENDS Integers, FiniteSets

CONSTANTS
  MaxTexts,       \* bound: 0 is the event's text, MaxTexts the update's, those
                  \* between other programs'
  Absent, NoTag,  \* no object at a place; no ETag given, or no If-Match sent
  AnyTag          \* If-Match: *

ASSUME WritesAssumption == MaxTexts \in Nat \ {0}

Texts == 0..MaxTexts
Contents == [text : Texts, rewritten : BOOLEAN]

\* The event's URL, the URL of the same name in the target calendar, and any
\* other URL in the target calendar that holds the same UID.
Places == {"source", "target", "twin"}

\* What a server may be like.
Servers ==
  [ etags       : {"strong", "weak", "none"},
    star        : BOOLEAN,   \* If-Match: * is understood
    moves       : BOOLEAN,   \* MOVE is not refused
    moveGuarded : BOOLEAN,   \* If-Match is honoured on MOVE
    oneUid      : BOOLEAN,   \* a UID twice in a calendar is refused
    writable    : BOOLEAN,   \* the source calendar may be written to
    rewrites    : BOOLEAN ]  \* a PUT stores something else, and answers no ETag

ASSUME DistinctAssumption ==
  /\ {Absent, NoTag, AnyTag} \cap Contents = {}
  /\ Absent # NoTag /\ Absent # AnyTag /\ NoTag # AnyTag
  /\ Absent \notin Texts

Kinds == {"update", "delete", "move"}
Guards == Contents \cup {AnyTag, NoTag}
Outcomes == {"none", "done", "nothing", "both", "unclear", "failed"}

VARIABLES
  server,   \* what the server is like
  objs,     \* what it holds at each place
  late,     \* requests behind the gateway, to be carried out yet
  call,     \* the connector's call
  texts,    \* the next text another program writes
  unseen,   \* history: texts other programs wrote, and Absent for the source's
            \* removal, since the connector's last answer
  given,    \* history: texts that other programs replaced or deleted
  did       \* history: what the requests carried out have done

vars == <<server, objs, late, call, texts, unseen, given, did>>

Requests ==
  [op : {"MOVE", "PUT", "DELETE"}, at : Places, guard : Guards, body : Contents \cup {Absent}]

Steps ==
  {"lookup", "twin", "move", "whereSource", "whereTarget", "copy", "check", "write",
   "again", "rewrite", "undoRead", "undo", "end"}

CallType ==
  [ kind    : Kinds,
    step    : Steps,
    seen    : Contents \cup {NoTag},    \* the ETag the caller gave
    stored  : Contents \cup {Absent},   \* what the call found
    guard   : Guards,                   \* what its write is guarded by
    copyTag : Contents \cup {NoTag},    \* the copy's ETag
    still   : BOOLEAN,                  \* whether MOVE left the source
    outcome : Outcomes ]

DidType == [took : BOOLEAN, wrote : BOOLEAN, copied : BOOLEAN]

TypeOK ==
  /\ server \in Servers
  /\ objs \in [Places -> Contents \cup {Absent}]
  /\ late \subseteq Requests
  /\ call \in CallType
  /\ texts \in 1..MaxTexts
  /\ unseen \subseteq Texts \cup {Absent}
  /\ given \subseteq Texts
  /\ did \in DidType

-----------------------------------------------------------------------------
(* The server (external).                                                  *)

\* Whether a request guarded by g may change what is at o.
Passes(o, g) ==
  /\ o # Absent
  /\ g = AnyTag => server.star
  /\ g \in Contents => g = o

\* What is stored when content c is put.
Stored(c) == [c EXCEPT !.rewritten = server.rewrites]

\* What a request does and answers when it is carried out; "refused" is an answer
\* that says the server will not do it, "taken" that the target has the UID or
\* the name.
Moved(q, o) ==
  CASE ~server.moves -> [objs |-> o, reply |-> "refused"]
    [] server.moves /\ o.source = Absent -> [objs |-> o, reply |-> "gone"]
    [] server.moves /\ o.source # Absent
         /\ (o.target # Absent \/ (server.oneUid /\ o.twin # Absent)
              \/ (server.moveGuarded /\ ~Passes(o.source, q.guard)))
         -> [objs |-> o, reply |-> "taken"]
    [] OTHER -> [objs |-> [o EXCEPT !.target = o.source, !.source = Absent], reply |-> "ok"]

\* PUT with If-None-Match: * for the copy, with If-Match for an update.
Put(q, o) ==
  CASE q.at = "target" /\ (o.target # Absent \/ (server.oneUid /\ o.twin # Absent)) ->
         [objs |-> o, reply |-> "taken"]
    [] q.at = "source" /\ ~server.writable -> [objs |-> o, reply |-> "refused"]
    [] q.at = "source" /\ server.writable /\ q.guard # NoTag /\ ~Passes(o.source, q.guard) ->
         [objs |-> o, reply |-> "changed"]
    [] OTHER -> [objs |-> [o EXCEPT ![q.at] = Stored(q.body)], reply |-> "ok"]

Deleted(q, o) ==
  CASE q.at = "source" /\ ~server.writable -> [objs |-> o, reply |-> "refused"]
    [] (q.at = "source" => server.writable) /\ o[q.at] = Absent ->
         [objs |-> o, reply |-> "gone"]
    [] (q.at = "source" => server.writable) /\ o[q.at] # Absent /\ ~Passes(o[q.at], q.guard) ->
         [objs |-> o, reply |-> "changed"]
    [] OTHER -> [objs |-> [o EXCEPT ![q.at] = Absent], reply |-> "ok"]

CarriedOut(q, o) ==
  CASE q.op = "MOVE" -> Moved(q, o)
    [] q.op = "PUT" -> Put(q, o)
    [] q.op = "DELETE" -> Deleted(q, o)

\* The ETag the server gives for what it holds, as an If-Match can use it
\* (strongOrNone).
StrongTag(c) == IF server.etags = "strong" THEN c ELSE NoTag

\* History of a change of the server's objects by a request of the connector.
Doing(new) ==
  did' = [ took   |-> did.took \/ (objs.source # Absent /\ new.source = Absent),
           wrote  |-> did.wrote \/ (new.source # Absent /\ new.source # objs.source),
           copied |-> new.target # Absent /\ (did.copied \/ new.target # objs.target) ]

\* A request is sent, and the connector reads reply.
Exchange(q, reply) ==
  LET served == CarriedOut(q, objs)
  IN  \/ /\ reply = served.reply
         /\ objs' = served.objs /\ Doing(served.objs)
         /\ UNCHANGED late
      \/ /\ reply = "unclear"
         /\ objs' = served.objs /\ Doing(served.objs)
         /\ UNCHANGED late
      \/ /\ reply = "unclear"
         /\ late' \in {late, late \cup {q}}
         /\ UNCHANGED <<objs, did>>

-----------------------------------------------------------------------------
(* caldav-etag.ts                                                          *)

\* Faulty: the write is guarded by the ETag the lookup found, whatever the caller
\* gave.
RequireStored(stored, strict) ==
  CASE server.etags = "none" -> {AnyTag}
    [] server.etags = "weak" -> {NoTag}
    [] server.etags = "strong" -> {stored}

\* requireEtag(): the guard to write with, none for a refusal.
RequireEtag(stored, strict) ==
  CASE call.seen = NoTag -> IF server.etags = "none" THEN {AnyTag} ELSE {}
    [] call.seen # NoTag /\ server.etags = "weak" -> IF call.seen = stored THEN {NoTag} ELSE {}
    [] OTHER -> IF strict /\ call.seen # stored THEN {} ELSE {call.seen}

-----------------------------------------------------------------------------
(* The connector.                                                          *)

At(step) == call.step = step
GoTo(step) == call' = [call EXCEPT !.step = step]
Answer(how) == call' = [call EXCEPT !.step = "end", !.outcome = how]

Reading == UNCHANGED <<server, objs, late, texts, given, did>> /\ unseen' = {}
Writing == UNCHANGED <<server, texts, given>>
Heard(reply) == unseen' = IF reply = "unclear" THEN unseen ELSE {}

\* findStoredEvent(), the refusals that need what it found (a series the caller
\* did not say to change whole, an occurrence there is not) and requireEtag().
Lookup ==
  /\ At("lookup")
  /\ Reading
  /\ \/ Answer("nothing")
     \/ /\ objs.source # Absent
        /\ \E g \in RequireEtag(objs.source, call.kind = "move") :
             call' = [call EXCEPT !.stored = objs.source, !.guard = g,
                        !.step = IF call.kind = "move" THEN "twin" ELSE "write"]
     \/ Answer("failed")

\* The search of the target for the UID.
Twin ==
  /\ At("twin")
  /\ Reading
  /\ \/ objs.target = Absent /\ objs.twin = Absent /\ GoTo("move")
     \/ (objs.target # Absent \/ objs.twin # Absent) /\ Answer("nothing")
     \/ Answer("failed")

\* Faulty: an unclear answer is taken for a refusal of MOVE.
AfterMoveGuessing(reply) ==
  CASE reply = "ok" -> Answer("done")
    [] reply \in {"taken", "gone"} -> Answer("nothing")
    [] reply \in {"refused", "unclear"} -> GoTo("copy")

\* moveObject(), once it has the answer to MOVE.
AfterMove(reply) ==
  CASE reply = "ok" -> Answer("done")
    [] reply \in {"taken", "gone"} -> Answer("nothing")
    [] reply = "refused" -> GoTo("copy")
    [] reply = "unclear" -> GoTo("whereSource")

TheMove == [op |-> "MOVE", at |-> "source", guard |-> call.guard, body |-> Absent]

Move ==
  /\ At("move")
  /\ \/ \E reply \in {"ok", "taken", "gone", "refused", "unclear"} :
          /\ Exchange(TheMove, reply)
          /\ Heard(reply) /\ AfterMove(reply)
     \/ UNCHANGED <<objs, late, did>> /\ Heard("failed") /\ Answer("failed")
  /\ Writing

\* whereItWent(): first the source is looked up, then the target.
WhereSource ==
  /\ At("whereSource")
  /\ Reading
  /\ \/ call' = [call EXCEPT !.still = objs.source # Absent, !.step = "whereTarget"]
     \/ Answer("unclear")

WhereTarget ==
  /\ At("whereTarget")
  /\ Reading
  /\ \/ Answer(CASE (objs.target # Absent \/ objs.twin # Absent) /\ ~call.still -> "done"
                 [] objs.target = Absent /\ objs.twin = Absent /\ call.still -> "nothing"
                 [] OTHER -> "unclear")
     \/ Answer("unclear")

AfterCopy(reply) ==
  CASE reply = "ok" ->
         call' = [call EXCEPT
                    !.copyTag = IF server.rewrites THEN NoTag ELSE StrongTag(call.stored),
                    !.step = IF call.guard \in {NoTag, AnyTag} THEN "check" ELSE "write"]
    [] reply = "taken" -> Answer("nothing")
    [] reply = "unclear" -> GoTo("undoRead")

TheCopy == [op |-> "PUT", at |-> "target", guard |-> NoTag, body |-> call.stored]

\* putCopy(); an unclear answer takes the copy back, if there is one, and the
\* target may refuse any copy (read-only, full).
Copy ==
  /\ At("copy")
  /\ \/ \E reply \in {"ok", "taken", "unclear"} :
          /\ Exchange(TheCopy, reply)
          /\ Heard(reply) /\ AfterCopy(reply)
     \/ UNCHANGED <<objs, late, did>> /\ Heard("taken") /\ AfterCopy("taken")
  /\ Writing

\* rolledBack(): the copy is removed by its ETag, or read first.
RollBack ==
  call' = [call EXCEPT !.step = IF call.copyTag = NoTag THEN "undoRead" ELSE "undo"]

\* sourceUnchanged(), where no ETag guards the DELETE of the source.
Check ==
  /\ At("check")
  /\ Reading
  /\ \/ objs.source # call.stored /\ RollBack
     \/ objs.source = call.stored /\ GoTo("write")
     \/ RollBack

TheWrite ==
  IF call.kind = "update"
  THEN [op |-> "PUT", at |-> "source", guard |-> call.guard,
        body |-> [text |-> MaxTexts, rewritten |-> FALSE]]
  ELSE [op |-> "DELETE", at |-> "source", guard |-> call.guard, body |-> Absent]

\* What a call makes of the answer to its guarded write.
AfterWrite(reply) ==
  CASE reply = "ok" -> Answer("done")
    [] reply \in {"changed", "gone"} -> IF call.kind = "move" THEN RollBack ELSE Answer("nothing")
    [] reply = "refused" -> IF call.kind = "move" THEN RollBack ELSE Answer("failed")
    [] reply = "unclear" -> Answer(IF call.kind = "move" THEN "both" ELSE "failed")

\* guardedWrite(): a 412 to If-Match: * is not taken at its word, but looked up
\* and written once more.
Write ==
  /\ At("write")
  /\ \E reply \in {"ok", "changed", "gone", "refused", "unclear"} :
       /\ Exchange(TheWrite, reply)
       /\ IF call.guard = AnyTag /\ reply = "changed"
          THEN GoTo("again") /\ UNCHANGED unseen
          ELSE Heard(reply) /\ AfterWrite(reply)
  /\ Writing

Again ==
  /\ At("again")
  /\ UNCHANGED <<server, objs, late, texts, given, did>>
  /\ unseen' = unseen \ {Absent}
  /\ \/ objs.source = Absent /\ AfterWrite("gone")
     \/ /\ objs.source # Absent
        /\ call' = [call EXCEPT !.guard = StrongTag(objs.source), !.step = "rewrite"]
     \/ AfterWrite("unclear")

Rewrite ==
  /\ At("rewrite")
  /\ \E reply \in {"ok", "changed", "gone", "refused", "unclear"} :
       Exchange(TheWrite, reply) /\ Heard(reply) /\ AfterWrite(reply)
  /\ Writing

\* removeCopy(): read back first, where no ETag tells the copy from another.
UndoRead ==
  /\ At("undoRead")
  /\ Reading
  /\ \/ objs.target = Absent /\ Answer("nothing")
     \/ /\ objs.target = call.stored
        /\ call' = [call EXCEPT !.copyTag = StrongTag(objs.target), !.step = "undo"]
     \/ objs.target \notin {Absent, call.stored} /\ Answer("both")
     \/ Answer("both")

TheUndo == [op |-> "DELETE", at |-> "target", guard |-> call.copyTag, body |-> Absent]

Undo ==
  /\ At("undo")
  /\ \E reply \in {"ok", "changed", "gone", "unclear"} :
       /\ Exchange(TheUndo, reply)
       /\ Heard(reply)
       /\ Answer(IF reply \in {"ok", "gone"} THEN "nothing" ELSE "both")
  /\ Writing

-----------------------------------------------------------------------------
(* Everyone else.                                                          *)

\* A request held up behind the gateway is carried out.
Late ==
  \E q \in late :
    /\ late' = late \ {q}
    /\ objs' = CarriedOut(q, objs).objs
    /\ Doing(objs')
    /\ UNCHANGED <<server, call, texts, unseen, given>>

\* Another program changes or deletes the event, or puts one of its UID into the
\* target calendar.
Edit(p) ==
  /\ objs[p] # Absent
  /\ texts < MaxTexts
  /\ objs' = [objs EXCEPT ![p] = [text |-> texts, rewritten |-> FALSE]]
  /\ texts' = texts + 1
  /\ given' = given \cup {objs[p].text}
  /\ unseen' = unseen \cup {texts}
  /\ did' = [did EXCEPT !.copied = did.copied /\ p # "target"]
  /\ UNCHANGED <<server, late, call>>

Remove(p) ==
  /\ objs[p] # Absent
  /\ objs' = [objs EXCEPT ![p] = Absent]
  /\ given' = given \cup {objs[p].text}
  /\ unseen' = IF p = "source" THEN unseen \cup {Absent} ELSE unseen
  /\ did' = [did EXCEPT !.copied = did.copied /\ p # "target"]
  /\ UNCHANGED <<server, late, call, texts>>

Arrive(p) ==
  /\ p # "source" /\ objs[p] = Absent
  /\ texts < MaxTexts
  /\ objs' = [objs EXCEPT ![p] = [text |-> texts, rewritten |-> FALSE]]
  /\ texts' = texts + 1
  /\ unseen' = unseen \cup {texts}
  /\ UNCHANGED <<server, late, call, given, did>>

\* The call has ended, and nothing else need happen.
Ended == At("end") /\ UNCHANGED vars

-----------------------------------------------------------------------------

TheEvent == [text |-> 0, rewritten |-> FALSE]

\* What a server is like where nothing asks for it does not matter.
Init ==
  /\ server \in {s \in Servers :
       /\ s.star \/ s.etags = "none"
       /\ s.moveGuarded => s.moves /\ s.etags = "strong"
       /\ s.rewrites => ~s.moves}
  /\ objs = [p \in Places |-> IF p = "source" THEN TheEvent ELSE Absent]
  /\ late = {}
  /\ \E kind \in Kinds :
       call = [ kind |-> kind, step |-> "lookup",
                seen |-> IF server.etags = "none" THEN NoTag ELSE TheEvent,
                stored |-> Absent, guard |-> NoTag, copyTag |-> NoTag,
                still |-> FALSE, outcome |-> "none" ]
  /\ texts = 1
  /\ unseen = {} /\ given = {}
  /\ did = [took |-> FALSE, wrote |-> FALSE, copied |-> FALSE]

Update == Lookup \/ Write \/ Again \/ Rewrite
MoveEvent ==
  Twin \/ Move \/ WhereSource \/ WhereTarget \/ Copy \/ Check \/ UndoRead \/ Undo
Others == \E p \in Places : Edit(p) \/ Remove(p) \/ Arrive(p)

Next == Update \/ MoveEvent \/ Late \/ Others \/ Ended

Spec == Init /\ [][Next]_vars

-----------------------------------------------------------------------------

Held(o) == {o[p].text : p \in {q \in Places : o[q] # Absent}}
OurStep == call' # call \/ late' # late

\* The text the caller asked to have replaced or deleted: the one it had seen when
\* it gave an ETag, and only where the server has none to give, the one the call
\* found.
AskedFor ==
  CASE call.kind = "move" -> {}
    [] call.kind # "move" /\ call.seen # NoTag -> {call.seen.text}
    [] call.kind # "move" /\ call.seen = NoTag ->
         IF call.stored = Absent THEN {} ELSE {call.stored.text}

\* No request of the connector loses what another program wrote (#152, PR #231):
\* a text goes from the calendars only if the caller asked for that, by the ETag of
\* what it had seen where the server gives ETags, if another program replaced or
\* deleted it somewhere already, or, where no strong ETag can guard the request, if
\* it was written since the last answer.
NothingLost ==
  OurStep =>
    \A t \in Held(objs) \ Held(objs') :
      \/ t \in AskedFor
      \/ t \in given
      \/ server.etags # "strong" /\ t \in unseen

\* An update does not bring back an event deleted since the caller saw it (#210.1),
\* except in the moment between the last lookup and a PUT that nothing guards.
NotRecreated ==
  (call.kind = "update" /\ objs.source = Absent /\ objs'.source # Absent) =>
    Absent \in unseen /\ (server.etags = "weak" \/ (server.etags = "none" /\ ~server.star))

\* What other programs wrote, a deletion included, stays.
KeepsTexts == [][NothingLost /\ NotRecreated]_vars

\* A refusal that ends in "Nothing was moved", "changed" or "deleted" is true when
\* it is given, whatever became of requests whose answers were lost; and a move
\* said to be done took the event out of the source and left it somewhere.  Both
\* except where another program changed or removed the event meanwhile.
TrueAnswer ==
  LET touched == call.stored # Absent /\ call.stored.text \in given
  IN  call'.outcome # call.outcome =>
        /\ call'.outcome = "nothing" =>
             ~did'.wrote /\ ~did'.copied /\ (did'.took => touched)
        /\ call'.outcome = "done" =>
             IF call.kind = "update" THEN did'.wrote ELSE did'.took \/ touched
        /\ call'.outcome = "done" /\ call.kind = "move" =>
             call.stored.text \in Held(objs') \/ touched
AnswersAreTrue == [][TrueAnswer]_vars

=============================================================================
