----------------------------- MODULE GuestList -----------------------------
(***************************************************************************)
(* Who is invited to an event (src/ical-attendees.ts), and whom the        *)
(* calendar server may mail about a write.  An event is the VEVENTs of one *)
(* UID: its main one and the overrides of single occurrences, each with an *)
(* ORGANIZER or none and its ATTENDEE lines.  A line is plain, which       *)
(* leaves it to the server, or marked SCHEDULE-AGENT=CLIENT.               *)
(*                                                                         *)
(* Every write answers with may_notify.  With notify_attendees false it is *)
(* not to make the server invite anyone, nor cancel anyone it removes.     *)
(*                                                                         *)
(* The server is not under src/: what it may mail is taken from what       *)
(* src/ical-attendees.ts records of Sabre's scheduling.  It compares the   *)
(* whole object before and after a write.                                  *)
(***************************************************************************)
EXTENDS Integers, Sequences, FiniteSets

CONSTANTS
  MailboxAddress, PrincipalAddress,   \* addresses of the account: its mailbox's and its calendar's
  Guests,               \* other people
  Boss,                 \* one who organizes meetings too
  Nobody,
  MaxVevents            \* bound: the VEVENTs of an event

VARIABLES
  vevents,   \* the stored event, its main VEVENT first where it has one
  principal, \* what the calendar's principal lists: an address or Nobody
  mailbox,   \* the mailbox's sender address, or Nobody
  answer     \* the last write: whom it named, and whom the server may have mailed

gvars == <<vevents, principal, mailbox, answer>>

ASSUME GuestsAssumption ==
  /\ MaxVevents \in Nat \ {0}
  /\ MailboxAddress # PrincipalAddress /\ Nobody \notin Guests \cup {MailboxAddress, PrincipalAddress, Boss}
  /\ Boss \notin Guests \cup {MailboxAddress, PrincipalAddress} /\ {MailboxAddress, PrincipalAddress} \cap Guests = {}

Attendees == Guests \cup {PrincipalAddress}

Line == [who : Attendees, client : BOOLEAN]

Plain(who) == [who |-> who, client |-> FALSE]

-----------------------------------------------------------------------------
(* Reading *)

\* calendarUserAddresses(): the principal's, or else the mailbox's.
own == (IF principal = Nobody THEN {mailbox} ELSE {principal}) \ {Nobody}

Organizers(vs) == {vs[i].organizer : i \in DOMAIN vs} \ {Nobody}

Lines(vs) == UNION {vs[i].lines : i \in DOMAIN vs}

Listed(vs) == {l.who : l \in Lines(vs)}

clientScheduled(l) == l.client

\* attendeesOf() of some VEVENTs, those the server is free to schedule.
Scheduled(vs) == {l.who : l \in {k \in Lines(vs) : ~clientScheduled(k)}} \ own

schedulingObject(vs) == Organizers(vs) # {} /\ Lines(vs) # {}

foreignOrganizer(vs) == Organizers(vs) \ own

schedulable(vs, leaving) == (leaving \ own) \cup Scheduled(vs)

\* The may_notify of a write that leaves the guest list alone.
mayNotifyAbout(vs) ==
  IF ~schedulingObject(vs) THEN {}
  ELSE IF foreignOrganizer(vs) # {} THEN foreignOrganizer(vs)
  ELSE schedulable(vs, {})

-----------------------------------------------------------------------------
(* Changing the guest list *)

\* attendeeCall(), notifyChoice() and distinctAddresses(): nobody is named
\* twice, and notify is said.
Calls ==
  {c \in [add : SUBSET Attendees, remove : SUBSET Attendees, notify : BOOLEAN] :
     c.add \cup c.remove # {} /\ c.add \cap c.remove = {}}

\* The VEVENTs a change is made to: the one it names, and with it the
\* overrides when the whole series is meant.
Targeted(vs, S) == [i \in DOMAIN vs |-> IF i \in S THEN vs[i] ELSE [vs[i] EXCEPT !.lines = {}]]

checkOrganizer(vs) == foreignOrganizer(vs) = {}

checkRemoval(vs, targets, call) ==
  call.notify \/ \A l \in Lines(Targeted(vs, targets)) : l.who \in call.remove => clientScheduled(l)

checkGuestList(vs, strict, targets, call) ==
  /\ call.add \cap Listed(Targeted(vs, {strict})) = {}
  /\ call.remove \subseteq Listed(Targeted(vs, targets))

Checked(vs, strict, targets, call) ==
  /\ own # {}   \* organizerOf()
  /\ checkOrganizer(vs)
  /\ checkRemoval(vs, targets, call)
  /\ checkGuestList(vs, strict, targets, call)

Organized(vs) == Organizers(vs) # {}

\* The one some VEVENT names, or the account.
organizer(vs) == CHOOSE o \in (IF Organized(vs) THEN Organizers(vs) ELSE own) : TRUE

Marking(vs, call) == ~Organized(vs) /\ ~call.notify

\* Faulty: only the VEVENT that is changed is marked.
MarkedHere(vs, strict, call) ==
  [i \in DOMAIN vs |-> IF Marking(vs, call) /\ i = strict
                       THEN [vs[i] EXCEPT !.lines = {[l EXCEPT !.client = TRUE] : l \in @}] ELSE vs[i]]

\* An ORGANIZER written with notify false marks every line of every VEVENT.
Marked(vs, strict, call) ==
  [i \in DOMAIN vs |-> IF Marking(vs, call)
                       THEN [vs[i] EXCEPT !.lines = {[l EXCEPT !.client = TRUE] : l \in @}] ELSE vs[i]]

\* writeGuestList(): the organizer goes on every VEVENT.
writeGuestList(vs, strict, targets, call) ==
  LET marked == Marked(vs, strict, call) IN
    [i \in DOMAIN vs |->
       [marked[i] EXCEPT
          !.organizer = IF @ = Nobody THEN organizer(vs) ELSE @,
          !.lines = IF i \notin targets THEN @
                    ELSE {l \in @ : l.who \notin call.remove} \cup
                         {[who |-> p, client |-> ~call.notify] : p \in call.add \ {l.who : l \in @}}]]

\* Removed with true from a plain line.
cancelled(vs, targets, call) ==
  IF call.notify THEN call.remove \cap {l.who : l \in {k \in Lines(Targeted(vs, targets)) : ~clientScheduled(k)}} ELSE {}

\* Faulty: those a call marks are not named.
NoneMarked(vs, call) == {}

\* Plain until the organizer was written, with false.
markedAway(vs, call) == IF Marking(vs, call) THEN Scheduled(vs) ELSE {}

-----------------------------------------------------------------------------
(* The server *)

Mine(vs) == Organized(vs) /\ Organizers(vs) \subseteq own

\* Whom it may invite, for whom it may cancel, and whom it may send an update
\* (or, to the organizer of another's meeting, a reply).
Invited(before, after) ==
  IF schedulingObject(after) /\ Mine(after)
  THEN Scheduled(after) \ (IF schedulingObject(before) THEN Scheduled(before) ELSE {}) ELSE {}

Cancelled(before, after) ==
  IF Mine(before) \/ Mine(after) THEN Scheduled(before) \ Scheduled(after) ELSE {}

Informed(before, after) ==
  IF ~schedulingObject(before) THEN {}
  ELSE IF Mine(before) THEN Scheduled(before) \cap Scheduled(after)
  ELSE Organizers(before)

-----------------------------------------------------------------------------
(* The calls *)

\* The event is now vs, and the answer names these.
Written(vs, named, call) ==
  /\ vevents' = vs
  /\ answer' = [named |-> named, call |-> call,
                invited |-> Invited(vevents, vs), cancelled |-> Cancelled(vevents, vs),
                informed |-> Informed(vevents, vs)]
  /\ UNCHANGED <<principal, mailbox>>

NoCall == [add |-> {}, remove |-> {}, notify |-> TRUE]

\* changeGuestList() of vs, which may hold a new override already.
Changed(vs, strict, targets, call) ==
  /\ Checked(vs, strict, targets, call)
  /\ LET after == writeGuestList(vs, strict, targets, call)
         leaving == cancelled(vs, targets, call) \cup markedAway(vs, call)
     IN Written(after, schedulable(after, leaving), call)

HasMain == vevents # <<>> /\ vevents[1].main

\* update_event of an event or, with apply_to_series, of a whole series:
\* patchSeriesAttendees().
GuestsOfAll(call) == HasMain /\ Changed(vevents, 1, DOMAIN vevents, call)

\* update_event with a recurrence_id: an override there is, or a new one,
\* which takes the main VEVENT's lines.
GuestsOfOne(i, call) == i \in DOMAIN vevents /\ ~vevents[i].main /\ Changed(vevents, i, {i}, call)

WithCopy == Append(vevents, [vevents[1] EXCEPT !.main = FALSE])

Room == Len(vevents) < MaxVevents

GuestsOfNew(call) == HasMain /\ Room /\ Changed(WithCopy, Len(vevents) + 1, {Len(vevents) + 1}, call)

\* A new title or time: of the event, or of an occurrence.
NewTitle ==
  /\ vevents # <<>>
  /\ \/ Written(vevents, mayNotifyAbout(vevents), NoCall)
     \/ HasMain /\ Room /\ Written(WithCopy, mayNotifyAbout(WithCopy), NoCall)

\* delete_event of an occurrence that has an override: it goes (without one no
\* line changes, as in NewTitle).  The last VEVENT takes
\* the object with it.
CancelOccurrence(i) ==
  /\ i \in DOMAIN vevents /\ ~vevents[i].main
  /\ Written(SubSeq(vevents, 1, i - 1) \o SubSeq(vevents, i + 1, Len(vevents)), mayNotifyAbout(vevents), NoCall)

DeleteEvent == vevents # <<>> /\ Written(<<>>, mayNotifyAbout(vevents), NoCall)

\* create_event: buildIcs().
CreateEvent(add, notify) ==
  /\ vevents = <<>>
  /\ add # {} => own # {}
  /\ LET new == <<[main |-> TRUE, lines |-> {[who |-> p, client |-> ~notify] : p \in add},
                   organizer |-> IF add = {} THEN Nobody ELSE organizer(<<>>)]>>
     IN Written(new, IF add = {} THEN {} ELSE schedulable(new, {}), [add |-> add, remove |-> {}, notify |-> notify])

-----------------------------------------------------------------------------

Vevent(main, organizers) == [main : {main}, organizer : organizers, lines : SUBSET Line]

\* An event as some calendar program stored it: each of its VEVENTs names the
\* same organizer or none.
StoredBy(o) ==
  {<<v>> : v \in Vevent(TRUE, {o})} \cup {<<v>> : v \in Vevent(FALSE, {o})} \cup
  (Vevent(TRUE, {o, Nobody}) \X Vevent(FALSE, {o, Nobody}))

GuestsInit ==
  /\ principal \in {PrincipalAddress, Nobody} /\ mailbox \in {MailboxAddress, Nobody}
  /\ vevents \in UNION {StoredBy(o) : o \in {Nobody, Boss} \cup own}
  /\ answer = [named |-> {}, call |-> NoCall, invited |-> {}, cancelled |-> {}, informed |-> {}]

GuestsNext ==
  \/ \E call \in Calls : GuestsOfAll(call) \/ GuestsOfNew(call)
  \/ \E i \in 1 .. MaxVevents, call \in Calls : GuestsOfOne(i, call)
  \/ NewTitle
  \/ \E i \in 1 .. MaxVevents : CancelOccurrence(i)
  \/ DeleteEvent
  \/ \E add \in SUBSET Attendees, notify \in BOOLEAN : CreateEvent(add, notify)

-----------------------------------------------------------------------------

\* Whoever the server may mail about a write is named in its answer: also
\* those who leave the set it schedules (AttendeeResult.mayNotify,
\* mayNotifyAbout()).
MailedAreNamed == answer.invited \cup answer.cancelled \cup answer.informed \subseteq answer.named

\* A call with notify false makes the server invite nobody, not even someone
\* listed before, and cancel nobody it takes off the event
\* (writeGuestList(), checkRemoval()).
QuietCallsStayQuiet ==
  ~answer.call.notify =>
    answer.invited = {} /\ answer.cancelled \cap answer.call.remove \subseteq Listed(vevents)

GSpec == GuestsInit /\ [][GuestsNext]_gvars

=============================================================================
