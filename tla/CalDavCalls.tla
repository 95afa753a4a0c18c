---------------------------- MODULE CalDavCalls ----------------------------
(***************************************************************************)
(* The calendar tools of one account (src/tools-calendar.ts) as calls that *)
(* run at the same time and share its CalDavClient (src/caldav-client.ts): *)
(* one login, one lookup of the account's own addresses, and for each call *)
(* its requests in turn.  What a request to change an event does is in     *)
(* CalDavWrites; what is made of an object that was read, in Series,       *)
(* GuestList and FreeTime.                                                 *)
(***************************************************************************)
EXTENDS Integers, Sequences

CONSTANTS
  Callers,              \* calls that may run at the same time
  Objects,              \* [in, data, declined]: what the account's calendars hold
  Asked,                \* sequences of the calendars a call names, some twice
  Mailbox, Principal,   \* addresses of the account
  None

VARIABLES
  client,    \* CalDavClient.client and .connecting
  addresses, \* CalDavClient.addresses: none, asked for, or known
  listing,   \* what the principal lists on the server
  sender,    \* the mailbox's address
  calls

cvars == <<client, addresses, listing, sender, calls>>

Listings == {"list_calendars", "list_events"}

Creating == {"create_event"}

Changing == {"update_event", "delete_event", "move_event"}

Searching == {"find_free_slot"}

Tools == Listings \cup Creating \cup Changing \cup Searching

ASSUME CallsAssumption ==
  /\ Mailbox # Principal /\ None \notin {Mailbox, Principal}
  /\ \A o \in Objects : o.data \in {"whole", "partly", "none", "hangs"} /\ o.declined \in {Mailbox, Principal, None}
  /\ \A named \in Asked : named # <<>> /\ named \in Seq({named[i] : i \in DOMAIN named})

\* The requests of a call, after the login.  Where an event has guests, or is to
\* have them, whose meeting it is is asked before anything is written.
Stages(tool, guests) ==
  CASE tool = "list_calendars" -> <<"calendars">>
    [] tool = "list_events" -> <<"calendars", "objects">>
    [] tool \in Creating /\ guests -> <<"calendars", "own", "write">>
    [] tool \in Creating /\ ~guests -> <<"calendars", "write">>
    [] tool \in Changing /\ guests -> <<"calendars", "event", "own", "write">>
    [] tool \in Changing /\ ~guests -> <<"calendars", "event", "write">>
    [] tool \in Searching -> <<"calendars", "ownOrMailbox", "objects">>

\* How often an object has been named is counted: once is right.
NoneRead == [o \in Objects |-> 0]

Idle == [tool |-> None, guests |-> FALSE, named |-> <<>>, at |-> "idle", left |-> <<>>, waits |-> FALSE,
         toRead |-> {}, own |-> {}, known |-> TRUE, read |-> NoneRead, skipped |-> NoneRead]

Asks(c, stages) == calls[c].left # <<>> /\ calls[c].at = "running" /\ Head(calls[c].left) \in stages

Onward(call) == [call EXCEPT !.left = Tail(@), !.waits = FALSE, !.at = IF Len(call.left) = 1 THEN "answered" ELSE @]

Failed(call) == [call EXCEPT !.at = "failed", !.waits = FALSE]

-----------------------------------------------------------------------------
(* The login *)

\* sameCollection(): a calendar named twice is read once, at its first position.
EachOnce(named) == {i \in DOMAIN named : \A j \in 1..(i - 1) : named[j] # named[i]}

\* The first call starts it; another waits for it, or for nothing: a login
\* that failed is kept.
Start(c, tool, named, guests) ==
  LET call == [Idle EXCEPT !.tool = tool, !.guests = guests, !.named = named, !.left = Stages(tool, guests),
                           !.toRead = EachOnce(named), !.at = "login"] IN
    /\ calls[c].at = "idle"
    /\ client' = IF client = "new" THEN "login" ELSE client
    /\ calls' = [calls EXCEPT ![c] = CASE client = "ready" -> [call EXCEPT !.at = "running"]
                                       [] client = "failed" -> Failed(call)
                                       [] OTHER -> call]
    /\ UNCHANGED <<addresses, listing, sender>>

LoggedIn ==
  /\ client = "login"
  /\ client' = "ready"
  /\ calls' = [c \in Callers |-> IF calls[c].at = "login" THEN [calls[c] EXCEPT !.at = "running"] ELSE calls[c]]
  /\ UNCHANGED <<addresses, listing, sender>>

LoginFails ==
  /\ client = "login"
  /\ client' = "failed"
  /\ calls' = [c \in Callers |-> IF calls[c].at = "login" THEN Failed(calls[c]) ELSE calls[c]]
  /\ UNCHANGED <<addresses, listing, sender>>

-----------------------------------------------------------------------------
(* Requests *)

Answered(c) ==
  /\ Asks(c, {"calendars", "event"})
  /\ calls' = [calls EXCEPT ![c] = Onward(@)]
  /\ UNCHANGED <<client, addresses, listing, sender>>

\* An error, a calendar or an event that is not there.
RequestFails(c) ==
  /\ Asks(c, {"calendars", "event", "objects", "write"})
  /\ calls' = [calls EXCEPT ![c] = Failed(@)]
  /\ UNCHANGED <<client, addresses, listing, sender>>

\* create_event needs an address to invite as (organizerOf).
Uninvitable(call) == call.tool \in Creating /\ call.guests /\ call.own = {}

WriteEvent(c) ==
  /\ Asks(c, {"write"})
  /\ calls' = [calls EXCEPT ![c] = IF Uninvitable(@) THEN Failed(@) ELSE Onward(@)]
  /\ UNCHANGED <<client, addresses, listing, sender>>

-----------------------------------------------------------------------------
(* The account's own addresses *)

calendarUserAddresses == IF listing # {} THEN listing ELSE sender

\* Faulty: the mailbox's stand in, and are kept, when the server gives none.
GuessedAfterFailure == [st |-> "known", own |-> sender]

\* A lookup that failed is not kept.
KeptAfterFailure == [st |-> "none", own |-> {}]

ToldAddresses(call, own) == Onward([call EXCEPT !.own = own \cup (IF call.tool \in Searching THEN sender ELSE {})])

\* ownFor() refuses, freeBusyAddresses() makes do with the mailbox's.
RefusedAddresses(call) ==
  IF call.tool \in Searching THEN Onward([call EXCEPT !.own = sender, !.known = FALSE]) ELSE Failed(call)

Waiting == {c \in Callers : calls[c].waits}

\* ownAddresses(): asked for once, however many calls wait.
AskAddresses(c) ==
  /\ Asks(c, {"own", "ownOrMailbox"}) /\ ~calls[c].waits
  /\ IF addresses.st = "known"
     THEN UNCHANGED addresses /\ calls' = [calls EXCEPT ![c] = ToldAddresses(@, addresses.own)]
     ELSE addresses' = [addresses EXCEPT !.st = "asking"] /\ calls' = [calls EXCEPT ![c].waits = TRUE]
  /\ UNCHANGED <<client, listing, sender>>

\* A 207 in which the principal is found.
LookupAnswers ==
  /\ addresses.st = "asking"
  /\ addresses' = [st |-> "known", own |-> calendarUserAddresses]
  /\ calls' = [c \in Callers |-> IF c \in Waiting THEN ToldAddresses(calls[c], calendarUserAddresses) ELSE calls[c]]
  /\ UNCHANGED <<client, listing, sender>>

\* Anything else.
LookupFails ==
  /\ addresses.st = "asking"
  /\ addresses' = KeptAfterFailure
  /\ calls' = [c \in Callers |-> IF c \in Waiting THEN RefusedAddresses(calls[c]) ELSE calls[c]]
  /\ UNCHANGED <<client, listing, sender>>

-----------------------------------------------------------------------------
(* Listings *)

\* Faulty: what no worker could read is left out.
UnsentOnly(o, failing) == o.data = "none"

\* The server sent nothing, or the worker ran out of time or failed.
Unread(o, failing) == o.data \in {"none", "hangs"} \/ o \in failing

\* readEach() of one calendar.  What is read partly is named as well.
Read(call, i, failing) ==
  [call EXCEPT
     !.read = [o \in Objects |-> IF o.in # call.named[i] \/ o.data \in {"none", "hangs"} \/ o \in failing THEN @[o] ELSE @[o] + 1],
     !.skipped = [o \in Objects |-> IF o.in = call.named[i] /\ (Unread(o, failing) \/ o.data = "partly") THEN @[o] + 1 ELSE @[o]],
     !.toRead = @ \ {i}]

ReadCalendar(c, failing) ==
  /\ Asks(c, {"objects"})
  /\ \E i \in calls[c].toRead :
       /\ \A j \in calls[c].toRead : i <= j
       /\ LET read == Read(calls[c], i, failing) IN
            calls' = [calls EXCEPT ![c] = IF read.toRead = {} THEN Onward(read) ELSE read]
  /\ UNCHANGED <<client, addresses, listing, sender>>

\* busyTimes(): what the account declined, under an address it is known by.
Busy(call, o) == call.read[o] > 0 /\ o.declined \notin call.own

\* The warnings of find_free_slot.
Warned(call) == (\E o \in Objects : call.skipped[o] > 0) \/ ~call.known

-----------------------------------------------------------------------------

\* list_events names one calendar.
Names(tool) ==
  CASE tool \in Searching -> Asked
    [] tool = "list_events" -> {<<o.in>> : o \in Objects}
    [] OTHER -> {<<>>}

CallsInit ==
  /\ client = "new" /\ addresses = [st |-> "none", own |-> {}]
  /\ listing \in {{}, {Principal}} /\ sender \in {{}, {Mailbox}}
  /\ calls = [c \in Callers |-> Idle]

CallsNext ==
  \/ \E c \in Callers, tool \in Tools :
       \E named \in Names(tool), guests \in IF tool \in Creating \cup Changing THEN BOOLEAN ELSE {FALSE} :
         Start(c, tool, named, guests)
  \/ LoggedIn \/ LoginFails
  \/ \E c \in Callers : Answered(c) \/ RequestFails(c) \/ WriteEvent(c) \/ AskAddresses(c)
  \/ LookupAnswers \/ LookupFails
  \/ \E c \in Callers, failing \in SUBSET {o \in Objects : o.data \in {"whole", "partly"}} : ReadCalendar(c, failing)

CallsSpec == CallsInit /\ [][CallsNext]_cvars

-----------------------------------------------------------------------------

\* What is written about an event's guests is written as whom the server knows
\* the account: never as the mailbox when the principal lists an address of its
\* own, whatever became of a lookup, this call's or another's (lookUpAddresses(),
\* review of PR #230).
WrittenAsOurselves ==
  \A c \in Callers : calls[c].at = "answered" /\ calls[c].guests => calls[c].own = calendarUserAddresses

\* An answer leaves nothing out in silence: each object of the calendars that
\* were named is in it whole, or in `skipped`, and in neither twice; what the
\* account declined is taken for busy only with a warning (readEach(),
\* freeBusyAddresses(), find_free_slot).
NothingLeftOutInSilence ==
  \A c \in Callers : calls[c].at = "answered" =>
    \A o \in {p \in Objects : \E i \in DOMAIN calls[c].named : calls[c].named[i] = p.in} :
      /\ calls[c].read[o] < 2
      /\ calls[c].skipped[o] = IF o.data = "whole" /\ calls[c].read[o] = 1 THEN 0 ELSE 1
      /\ calls[c].tool \in Searching /\ Busy(calls[c], o) /\ o.declined \in listing \cup sender => Warned(calls[c])

=============================================================================
