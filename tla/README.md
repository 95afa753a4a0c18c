# Models of claude-mail-mcp

TLA+ models of the two services of this repository, TLC runs on small
instances, and TLAPS proofs. Paths below are relative to the repository.

* The **connector** (`src/`): MCP tools over IMAP, SMTP and CalDAV, the accounts
  file, the settings API.
* The **OAuth layer** (`oauth/src/`): dynamic client registration, sign-in with
  PKCE, tokens and refresh rotation, the proxy to `/mcp`, the settings pages and
  the setup wizard.
* `shared/` is compiled into both.

Both are single-threaded Node processes (the connector also has worker threads),
so the atomic steps of the models are the stretches of code between two awaits,
timers or events. Concurrency comes from requests that interleave at awaits,
workers and timers, from two processes sharing files, and from calendar servers
that other programs write to.

## Inventory

| Component | State | Operations | Hard behaviours | Correct when |
|---|---|---|---|---|
| Expansion worker pool (`src/ical-worker-pool.ts`) | queues per request, slots, remembered objects | `runOn`, `runOnEach`, `close`, worker and timer events | deadline, answer and exit in any order; workers that die loading; fairness between requests | every promise settles once; no request starves |
| State file of the OAuth layer (`oauth/src/store.ts`) | memory, file, pending write, write chain | `save`, `flush`, `close`, `open` | bursts, slow or failing writes, crash, forced shutdown | nothing saved is forgotten, the file never goes back |
| Tokens and sessions (`oauth/src/tokens.ts`, `codes.ts`, `clients.ts`, `store.ts`) | registrations, sessions, token epoch, codes | register, consent, redeem, refresh, revoke (one, client, all), prune | signing is awaited between check and record; clocks of whole seconds; eviction | withdrawn tokens refused, reuse detection cuts off nobody honest |
| Event moves and guarded writes (`src/caldav-move.ts`, `caldav-etag.ts`, `caldav-client.ts`) | the events of two calendars on a server | update, delete, move | other writers, answers lost, servers without MOVE | an event is never lost; refusals say what happened |
| CalDAV connection (`src/caldav-client.ts`) | login, the account's own addresses | the calendar tools' requests, shared login and lookup | two calls waiting for one login or lookup, a failed one, objects that cannot be read | guests are written as the address the server knows; a listing says what it leaves out |
| Accounts and client pool (`src/accounts.ts`, `accounts-writer.ts`, `client-pool.ts`) | accounts file, memory, watcher, write chain, clients | reload, create, update, remove, set default, get clients | hand edits racing writes, slow reloads, busy renames | memory and clients follow the file, no edit is lost |
| Settings API and pages (both sides), `settings-assertion.ts`, `notice-flash.ts` | pages and the stamps in them, assertion secret, notices | list, add, edit, delete, make default, test, look up | stale pages, probes of seconds between a submission and its write | a page's write never replaces what it did not show |
| Operator, login throttle, settings session (`oauth/src/operator.ts`, `throttle.ts`, `session.ts`, `login.ts`) | operator record and file, failures per address, cookies | sign in, visit, sign out everywhere, change password | verification and signing are awaited between check and use; writes that fail | a sign-out everywhere holds; the throttle's limit holds |
| Bootstrap and setup wizard (`oauth/src/bootstrap.ts`, `setup-*.ts`) | claim token, operator record, furthest screen, progress file | boot, three screens, finish | two browsers, restart half way, a stored mailbox whose answer was lost | claimed once, by a finished wizard; what it says of a save is established |
| Secrets shared by both processes (`shared/secrets.ts`) | files | create exclusively, read | two processes creating at once | both use one secret |
| Calendar algorithms (`src/ical-*.ts`, `free-slots.ts`) | none | parse, expand, edit, guest lists, busy times, free slots | overrides of overrides, clock changes, whom a server mails by itself | an edit changes what it names; slots are what is free; who may be mailed is said |
| IMAP and SMTP (`src/imap-client.ts`, `smtp-client.ts`, `mail-tls.ts`) | a connection and its generation, mailbox locks | search, fetch, move, flag, send, close | close during connect, calls that share a connection, a copy to Sent that fails | no connection is kept by nobody; commands run in the mailbox that was locked |
| Probes and autoconfig (`src/probe.ts`, `autoconfig.ts`, `lookup-reachability.ts`, `providers.ts`, `timeout.ts`) | none | probe, look up | budgets within budgets, and a caller with a deadline of its own | a lookup keeps its budgets, through every tier, redirect and service record |
| Tools (`src/tools-*.ts`, `tool-*.ts`) | none | argument checks, replies | none of their own | |
| Proxy, metadata, pages, configuration, logging (`oauth/src/proxy.ts`, `metadata.ts`, ... ) | none | stateless answers | none of their own | |

How they meet: the OAuth layer proxies `/mcp` to the connector and writes
mailboxes through the connector's settings API, with an assertion signed by a
shared secret; every account's tools reach their mail and calendar servers
through the clients of the pool, which `accounts.ts` drops whenever it loads or
writes the accounts file; every recurrence expansion of every account goes through
the one worker pool; tokens, codes and sessions are in the OAuth layer's store,
which keeps itself in one file, and the operator's record is in another.

`PROJECT.json` lists every component with its status and every hazard with its
line and the properties aimed at it.

## Modules

| Module | Models | Proofs |
|---|---|---|
| `ExpansionPool` | `src/ical-worker-pool.ts`, whole | `ExpansionPoolProofs` |
| `ExpansionPromise` | what a caller of the pool is promised; `ExpansionPool` implements it | `ExpansionPoolProofs` |
| `StateFile` | `save`, `flush`, `close`, `open` of `oauth/src/store.ts`, the shutdown | `StateFileProofs` |
| `RefreshSessions` | registrations, codes, tokens, sessions, revocations | `RefreshSessionsProofs` |
| `DurableSessions` | `RefreshSessions` kept in `StateFile`, with crashes and restarts | `RefreshSessionsProofs` |
| `CalDavWrites` | update, delete and move of an event, request by request | `CalDavProofs` |
| `OperatorSignIn` | operator record and file, sign-in, cookies, throttle | `OperatorSignInProofs` |
| `AccountsStore` | accounts file, hand edits, watcher, settings forms, clients | `AccountsStoreProofs` |
| `Connections` | the IMAP connection an account's calls share, the SMTP transport of a send, clients dropped by a reload | `ConnectionsProofs` |
| `CalDavCalls` | calendar tools at the same time: login, lookup of own addresses, listings | `CalDavProofs` |
| `Secrets` | how two services come to hold one secret, `shared/secrets.ts` | `SetupProofs` |
| `Setup` | first boot to claim, over `Secrets` | `SetupProofs` |
| `Lookup` | the address lookup under its budgets, `src/autoconfig.ts` | `SetupProofs` |
| `AddMailbox` | from an address to a stored mailbox in both programs, over `Lookup` | `SetupProofs` |
| `GuestList` | the people on an event, and whom a server may mail | `CalDavProofs` |
| `Series` | a recurring event: what it is listed as, writes to one occurrence, moving the series | `ExpansionPoolProofs` |
| `FreeTime` | busy times and free slots | `ExpansionPoolProofs` |

`MC...` is a module for TLC: values of constants, symmetry, fairness. Definitions
whose comment begins with *Faulty* are the code with a bug; each is a mutant of
`PROJECT.json` under which its run must fail, and no specification uses them.

An action is a handler, or the stretch of one between two awaits. Where a value
is read before an await and used after it, it is a field of the request's record.

### ExpansionPool

`pool` is a record of the fields of the class: `waiting`, `order` and `running`
are its groups, `slot` and `held` its workers, `hanging` the objects remembered,
`outcome` every promise handed out, `closed`. All handlers end in `pump()`, so
`Pump` describes the states `pump()` may leave, and each
action is one handler with its pump: `SubmitStep` (one object of a
`runOn`/`runOnEach`), `ReadyStep`, `AnswerStep`, `TimeoutStep`, `ErrorStep`,
`ExitStep`, `ForgetStep` (an hour passed), `CloseStep`. Creating a worker may
throw. Time is left out: a deadline may fire whenever an object is held.
`passed` and `cost` are history, for two of the properties.

### StateFile and DurableSessions

`mem`, `disk`, `due` (the pending timer), `chain` (payloads on `#writeChain`).
`Save`, `Flush`, `Lands`, `Fails`, `Close`, `Exit`, `Crash`, `Open` are the calls
and events. What the state is, is a constant: `Later` orders the states the store
may come to hold. `DurableSessions` extends `RefreshSessions` and instantiates
`StateFile` with the sessions' data as its memory, and with "no withdrawal is taken
back" as its order: a request of `RefreshSessions` that changes
the data is a `Save`, a stop loses codes and tokens being signed.

### RefreshSessions

`data` is what the store keeps (registrations, sessions, `revokedAt`, epoch).
A *grant* is one pair of tokens with what both and the session record say.
`Redeem` and `Refresh` decide to mint and start signing; `Mint` records the
session when both are signed, whatever ran in between. `RevokeSession`,
`RevokeClient`, `RevokeAll`, `Register` (with eviction), `Consent`, `BurnCode`,
`Prune` are the other requests, `Tick` the clock in whole seconds.

### CalDavWrites

One tool call against one event. `objs` is what is at the event's URL, at the URL
of the same name in the target calendar, and at another URL there with the same
UID. Each step is a request and its answer; `late` holds requests whose answer
was lost and that the server may still carry out. `server` is chosen once among
every combination of ETag kind, `If-Match: *`, `MOVE`, guarded `MOVE`, UID
checking, writability and rewriting that the code tells apart. Other programs edit
and remove at any time. `unseen` is what they did since the connector's last
answer: without a strong ETag nothing can guard that window, and the properties
say that only it is exposed. `guardedWrite()` and its retry count as one such
window. What a call may replace or delete is the text its caller had seen
(`call.seen`, `AskedFor`), not the one its own lookup found (`call.stored`): the two differ
when another program writes between a listing and the call, and a guard made from the
second would pass over that edit. The `update` kind also stands for deleting one
occurrence, which is a PUT. The kind of ETag is the same in all answers of a server. `MCCalDavWrites` runs it
beside `CalDavCalls`: the two have no state in common, a behaviour is of one.

### CalDavCalls

One `CalDavClient`: `client` is its login, `addresses` the lookup of the account's own
calendar addresses, `calls` the tool calls, each with the requests it still has to make
(`Stages`). A login that fails is kept, as in the code, and a lookup that fails is not.
`listing` and `sender` are what the server's principal and the mailbox say the account is
called. `ReadCalendar` reads one calendar's objects, of which some cannot be read, by the
server's fault or the worker's.

### OperatorSignIn

`record` and `file` are the operator's record in memory and on disk, `chain` the writes
queued, `landed` those that are on the file and whose callers have not been answered
(`Saved` answers one, whatever was written meanwhile). A call is one request and its
steps are what it awaits: `guard` (cookie verified), `verify` (password), `hash`,
`save`, `sign` (a cookie). `failures` are the failed attempts of one address. `hist`
counts bumps of the session epoch, so that a property can tell two bumps with one number
apart, and keeps the records callers were told are saved (`told`): `AnsweredIsFiled`
holds them against `file`.

### AccountsStore

`file` is what the path holds, named by a *version*; `memory` the accounts
loaded; `due` the debounce timer; `reloads` the `reload()` under way, which overlap: the
timer calls `reload()` whatever runs (`Fire`), and `ReadFile`, `ReadFails` and `Reloaded`
(assign and notify) are its steps. A read fails on a file that does not parse and on any
error but ENOENT; it is logged, memory stays, and nothing is due. `missed` is history, of
that and of a reload that assigned its list after a later one began (`last`) and ended;
`pool` the version each account's clients were built from. A form is a page and
what is submitted from it: `Open`, `Stamped`, `Listed`, `Submit`, then
`applyMutation()` as `Check` (stamp), `Apply` (read and change), `Landed` or
`Busy`/`Retry` or `Fail` (rename). Reading a stamp may fail too. `Back` is the page a refused submission
comes back on. A probe between submission and write changes nothing the model
has, so a page being probed is one not yet submitted. Every change is a new
version, where the code compares size and mtime.

### Connections

A `box` is one `ImapClient` (the account's clients as built from one version of
accounts.json): `client`, `connecting`, `gen` are its fields. A socket is an attempt
(`tls`, `dialing`) and then the connection, with the mailbox selected, its lock and the
queue for it; a call is one tool call. `ensureConnected` is the part up to the first await;
`Dial`, `Connected`, `ConnectedTooLate`, `GiveUp`, `ConnectFails` the parts of
`connect()`; `Dies` the death of a connection, with or without its event; `Reload` is
`resetAll()`. A call that took its clients before a reload goes on with them. A tool that
reads makes one command after another under one lock, as many as it takes.

### Secrets and Setup

An action of `Secrets` is one file operation: the code is synchronous, and the races are
between the two processes. `Setup` adds what is on the volume (`token`, `record`, `noted`,
`used`), what the OAuth process holds (`gate`, `furthest`, `live`) and form submissions,
each one request of any tab: `hash` before the operator record is written, the mailbox save
(`stamp`, `health`, `create`, `again`: the stamp read once more when the answer was lost),
`unlink` and `shut` of the end. The connector side of a save (`Stores`, `Refuses`) goes on
whether or not the wizard still waits. The service restarts at any step; the record may be
lost while it is down, and another program may save accounts.json.

### Lookup and AddMailbox

`Lookup` is one lookup with a clock of its own: an awaited call answers before the slice it
was given is over, or is given up within it. `AddMailbox` is one operator with one screen
(`page`) and one submission in flight (`req`), in either program (`ui`): `Submit...` sends
the boxes of the screen, the hidden ones included, `Answer...` draws the next. A lookup's
answer is heard (`HearLookup`) before its screen is drawn (`AnswerLookup`), since the wizard
asks for the provider list in between; when it cannot have it, the full form is drawn with
what came with the address (`WithoutTheList`). A form's CalDAV URL is resolved after the
form is read (`CheckUrl`), for as long as that takes. `meant` is history: the password last
typed for each service. The test of a mailbox is `probeMail`, `probeCalDav` and
`probeAccount`, without durations: a service that is late, or a test that runs out of time,
is one that was not up. What a lookup finds, and whether a password is accepted, is chosen;
what the wizard cannot hear, it may miss at every call.

### Series, GuestList, FreeTime

`Series` is one stored object, main VEVENT and overrides, some of which reach all that
follows. Reading (`Listing`, `Window`) and the three writes (`applyOccurrencePatch`,
`excludeOccurrence`, `shiftSeries`) are translated one by one, and the properties hold
them against each other: what a write changes in the listing, and what it must not.
`overrides` is a function of the place an override has in the object, which decides between
two revisions of one SEQUENCE (`Current`); what is deleted leaves its place empty.
The reading skips nothing: the shortcut for a long stretch before a window
(`ical-expand.ts:381-390`) passes over what the window leaves out anyway.
Other programs write overrides as well. `GuestList` keeps the ORGANIZER and ATTENDEE lines
of an event's VEVENTs; whom the server may mail (`Invited`, `Cancelled`, `Informed`) is
external, taken from what `src/ical-attendees.ts` records of Sabre's scheduling.

`FreeTime` is one search (`Find`) of a calendar other programs filled (`Put`), in a zone whose
clock changes once, the one asked for or the calendars' own (`zoneFor`), with working hours or
without. Each loop of the code is a recursive function over the positions of the list it
walks: busy times joined (`merge`), the days of the range (`daysWalked`, `searchWindows`), the
gaps in a window (`slotsIn`). Of the calendar only a day around the range is read (`Read`),
since times are compared there as they are written, without their zone; the answer is held
against the whole calendar. It must be the stretches of instants that are within the hours on
the local clock and that no event takes (`Stretches`), a definition without loops. One case
is excepted (`HoursOrdinary`): hours that begin or end within a stretch the clock leaves out or
shows twice, where the code takes the offset before it, or the first pass. Hours are whole, so
it takes a clock that changes by more than one, or not on the hour: where it goes from one to
three, hours from two begin at four.

`MCCalendar` runs the three side by side: a behaviour is of one of them.

## Runs

| Run | Question | Bounds, and why they are enough |
|---|---|---|
| `pool` | Is `ExpansionPromise` implemented; does an endless object cost a bounded time; is no request overtaken twice; does every promise settle? | Two slots, three threads (one terminated thread may still answer while its replacement works), two requests, one of three objects of which two are the same, one of that object alone; one remembered object, so that forgetting happens |
| `file` | Does a quiet shutdown lose nothing, does each state reach the file? | Five states, three writes queued: a write at work, one waiting, one more |
| `sessions` | Do withdrawn tokens stay refused; does only a replay end a session as reused; is no session lost? | Two clients and room for one, so registrations are evicted; three pairs of tokens, what a fork takes; a clock of two seconds with lifetimes of one, so that tokens expire and revocations fall in the same second; the theorems hold for all |
| `durable` | What may a restart cost? | One client, two pairs, one stop at any step, one write queued beside the pending one |
| `writes` | Does no request lose a text its caller had not seen, or bring one back; is every answer true? And among calls at the same time: are guests written as the address the server knows; does a listing say what it leaves out? | One event, three places, all servers, two texts of other programs beside the event's and the update's. Two calls of any tools, five objects in two calendars, a calendar named twice |
| `operator` | Does an answered sign-out hold and is it on the file; does the throttle keep its limit and its `Retry-After`? | Four calls of any kind (two sign-outs, a sign-in, a use), two passwords, two failures allowed, one restart |
| `mailboxes` | Does memory follow the file, unless the newest read failed or was overtaken; do two forms of one version never both write; are edits waited out, not overwritten; does the chain go on? | Two forms, one account, two changes of the file beside the first version (an edit and a write, two writes, two edits), two reloads at once, so that the older may end last, one retry |
| `setup` | Is an instance claimed once and only by a finished wizard; do both services hold one secret; does the wizard say only what it established; does no mailbox take the default from another? | Two submissions of any kind, one restart of the OAuth service, one foreign edit; a volume that is fresh, or left after the first screen |
| `secrets_agree` | *violated*, see Findings | Two boots of each service |
| `add_mailbox` | Does a lookup keep its budgets; is a warning that of the address beside it; is what is stored what was typed? | Three addresses (one without a domain, one with a warning), two passwords, one mail service and CalDAV; budgets in units small enough that a last slice is shorter than a full one |
| `connections` | Is no open connection kept by nobody; is none from before a close handed out; do commands run in the locked mailbox and are locks given back; is a sent mail never answered as an error? | Three calls (one holds a lock, one waits, one comes after the reload), two sockets, two mailboxes, one reload |
| `calendar` | Do writes to an occurrence or a series change what they name, and only that; does a window show what overlaps; are the people the server may mail named, and not mailed when that was asked; are slots what is free? | Three days of four hours, four kinds of rules, two writes (the second meets what the first left), up to two overrides; events of two VEVENTs, one guest; clocks that stay, go forward by one and by two, go back, two events, ranges in the middle of the calendar and at its ends, so that events outside what is read are there; one slot shown, so that answers are shortened |

Deadlock is checked in `file`, `sessions`, `durable`, `operator` and `mailboxes`, whose
specifications say in an action of their own when a behaviour has ended, so that any other
stop is reported, and in `connections` and `add_mailbox`, where something can always be done
next. In the other runs the system really stops: all promises settled and the pool closed, all calls ended, all submissions
made, the bound on writes reached.

Fairness, each as weak as the property allows:

* `pool`: timers fire, a worker that loads becomes ready or exits, objects of a
  call are submitted (one turn of the event loop). No worker need ever answer.
* `file`: the 25 ms timer fires, a write lands or fails.
* `mailboxes`: some mutation at work goes on, which is the one at the head of the chain:
  what it awaits is a file operation or a delay, and ends. A busy rename is tried a bounded
  number of times.

The other runs check safety only and assume none. A crash, a request, an answer of a
server or a hand edit is never assumed to happen.

## What is proved

For every value of the constants that the named assumption of the module allows:

| Theorems | Inductive invariant |
|---|---|
| `ExpansionPoolProofs`: `TypeCorrect`, `NoPromiseLost`, `TurnCountsExact`, `QueueAlwaysServed` | types, bounds on slots and remembered objects, `Placed` and `Counted` (which need each other: a count is right because a task is on one worker), and `Served`, which holds only after `pump()` and is therefore proved of `Pump` from the weaker state a handler leaves |
| `KeepsItsPromise` | no invariant of its own: every handler is a step of `ExpansionPromise` or none, from what a handler and its pump may settle |
| `HangingCostsAreBounded`, `NobodyTakesTwoTurns` | the history variables against the pool: a deadline is paid once per worker that has the object (`cost`), and a request that waits with nothing in a worker is overtaken by each other one at most once (`passed`), which needs the order of `order` |
| `StateFileProofs`: `TypeCorrect`, `NothingForgotten`, `TidyShutdown`, `FileMovesOn` | the chain is ordered by `Later`, between the file and memory; what memory holds beyond the newest payload is due or failed |
| `RefreshSessionsProofs`: `TypeCorrect`, `WithdrawalHolds`, `ReuseIsReplay`, `NoSessionLost`, `DeathIsFinal` | names are fresh, at most one unredeemed token per session that was not forked (`OneLeft`), withdrawals are marked by the token number they reach (`Marks`) |
| `SessionsKeptInFile`, `FileKeepsWithdrawals`, `WithdrawalSurvives`, `CleanRestartsAreFree` | the first is a refinement: every step of requests, writes, crashes and restarts is one of `StateFile` or none, so the theorems of `StateFileProofs` hold of the sessions' file. Then what the file, the chain and memory hold are versions of one history (a withdrawal that reached the file is in all of them), and as long as every stop was clean, what a restart reads is what memory held, so that the invariant of `RefreshSessions` goes on |
| `OperatorSignInProofs`: `TypeCorrect`, `SignOutHolds`, `AnswersAreOnFile`, `ThrottleHolds` | from the file through the chain to the record in memory epochs increase, and callers hear of what is on the file (`Filed`); what is queued or answered was bumped (`Bumped`), and unless a restart lost a bump an epoch names one bump (`Numbered`); for the throttle, attempts under way and live failures together have room (`Room`) |
| `AccountsStoreProofs`: `TypeCorrect`, `OneWrites`, `ClientsCurrent`, `EditsAreKept`, `MemoryFollows` | two parts that hardly meet: the file, memory and clients (`StoreInv`), and the forms with their chain (`FormsInv`: past the queue a mutation is the first of the chain, and the stamp of a form that landed is spent). `MemoryFollows` adds `Caught`, for any number of reloads at once: with nothing due, the one that began last has still to read, has read what the file holds, or has ended and memory is that, but for what `missed` excepts |
| `SetupProofs`: `TypeCorrect`, `SecretsAgree`, `ClaimedForGood`, `DefaultNotTaken`, `WhatIsSaidHolds` | a service that is up holds what its file holds, unless a file was removed (`FileIsHeld`); what the volume, the gate and a submission at its last steps know of the claim (`ClaimInv`); and for each submission which stamp it holds and what the connector has done with it (`SaveInv`) |
| `LookupInBudget`, `WarningsFollow`, `MeantIsStored` | `ScreensInv`: a document is asked for while the budget lasts, with the slice its name was resolved in, so that a lookup overruns by less than one attempt (`LookOK`); a screen, and the submission taken from it, hold every password typed so far, in their boxes or as the one of the cascade (`PageOK`, `RequestOK`); what is to be stored is what was typed, or what the file holds while the stamp is fresh (`FullOK`) |
| `ConnectionsProofs`: `TypeCorrect`, `OneConnectionKept`, `NothingStaleHandedOut`, `CommandsStayInTheirMailbox`, `SentIsNeverAnError` | the generation of a socket against that of its client (`SocketInv`, `BoxInv`), the queue of a lock against the calls that wait in it (`QueuesInv`), and where a call can be at each of its steps (`CallFacts`, `CallPlace`) |
| `CalDavProofs`: `WritesTypeCorrect`, `NothingOfOthersLost`, `AnswersHold` | which requests may still be carried out and behind which guard (`LateInv`, `GuardInv`), what is at the source when the call is at each of its steps (`SourceInv`), what came since the last answer (`UnseenInv`) and what became of the copy (`CopyInv`) |
| `GuestsSeeOurAddress`, `EveryObjectAnswered` | a call goes past its lookup only with the addresses (`OwnInv`, `SearchInv`); of the calendars still ahead of a call and those behind it, each object is in exactly one (`AheadInv`, `ReadInv`) |
| `TheMailedAreNamed`, `QuietMeansQuiet` | the VEVENTs of an event have their type, and one organizer at most (`GuestsInv`); both hold in the state a handler leaves, by what it does with each line |
| `ExpansionPoolProofs`, second part: `NoOtherOccurrenceChanges`, `TheSeriesMovesAsOne`, `WindowsAreComplete` | `Whole`: the types (`Typed`), an override that reaches further is the only revision of an occurrence there is (`RangesBegin`), a rule that ends on a date has times of its own (`Dated`). Without `RangesBegin` the first is false: an override moved on to the next occurrence could pass one that begins between the two, and take over what that one reaches. The listing is then one entry for each time the rule or an override names (`ListedOnce`), and a write is judged one time after another. The part stands in the pool's module because the pool's workers run this expansion |
| `ExpansionPoolProofs`, third part: `SlotsAreTheFreeStretches`, `EveryEventTakesItsTime` | `AnsweredOnce`: an answer is to what was asked, of the events there are now. The rest is what the algorithm computes, for any calendar and any search: the busy times of a finite set of events can be put in order (`InOrderIs`), joining them leaves separate intervals that cover the same instants (`MergeIs`), walking them lists the open stretches that end by the cursor (`PassedIs`, `SlotsInIs`, `FreeSlotsAre`), the walk through the days ends (`DaysWalkedAre`) and its windows are the instants within the hours (`HoursAre`), and an event farther than a day from the range takes nothing of it, on any clock (`ReadIsEnough`) |

A module with proofs first states the lemmas about its data, then one lemma per action,
then the step, then the theorem. Each invariant was model-checked before it was
proved.

`TypeCorrect`, `WritesTypeCorrect`, `NoPromiseLost`, `TurnCountsExact`, `QueueAlwaysServed`,
`NothingForgotten`, `FileMovesOn`, `DeathIsFinal`, `ClientsCurrent`, `SessionsKeptInFile` and
`FileKeepsWithdrawals` state facts that the proofs of the others build on or that no run
repeats: they hold for every instance, which is more than a run would show.

The assumptions are on the constants: sizes, lifetimes and bounds that are positive; an
order of states that is reflexive and transitive; a day, and the length of an event, that is not
nothing; the values that stand for nothing (`None`, `Absent`, `Nobody`, `Blank`) are none of the
others; a call names one calendar at least; an offset is at most a day.

Four places of the models have the form they have for the sake of the proofs: the promise of
the pool is stated in `ExpansionPool` (`Promise`, `PromiseKept`), `CalDavCalls` counts
what is left to read by positions in the list of names, `Series` keeps overrides by place, and
the loops of `FreeTime` are functions of how far they have come.

The induction rules of the library take an operator as a parameter, which no prover at hand
can instantiate. What a loop of `FreeTime` computes is proved without them, from the first
round that would break what every round keeps: the numbers up to the length of the list are
well-founded (`Rounds`), and a recursive function over them exists (`Course`).

Left to TLC: the liveness properties, since they need ENABLED (`EveryTaskSettles`,
`ReachesTheDisk`, `MutationsEnd`).

## Findings

* `secrets_agree`: of two services that boot at once, the one that found no secret file
  asks next whether the file was blank. If the other service creates it in between, the
  first calls it blank, removes it and creates its own (`shared/secrets.ts:212`, `:231`),
  and each goes on with another secret, against the comment at `:234-237`: "both end up
  with the same bytes". The services then refuse each other's assertions until one is
  restarted. `Setup` keeps what holds: they agree unless a file was removed so.

Seen while modelling, and without a run of its own.

Sessions and operator:

* docs/HARDENING.md:356 says that revoking a session stops its access token on the next
  request. A refresh that is being signed records the session again when it is done
  (`tokens.ts:133-192`), and the tokens issued before are accepted again; the same holds
  for a session ended by reuse. After `revokeClient` and `revokeEverything` the session comes
  back too, but its tokens stay refused: that is `WithdrawnRefused`.
* Two refreshes with one token that overlap both succeed, and the token of the first reply,
  never rotated, is called reused when it is presented (`SessionKept` and
  `ReuseNeedsReplay` except forked sessions for it).
* The epoch "invalidates every outstanding session at once" (`session.ts:7-10`); memory is
  ahead of the file (`operator.ts:269`), a restart then loses a bump, and the next one gives
  the same number to older sessions. `SignedOutStaysOut` excepts a lost bump.
* `Retry-After` is too short for attempts made at the same time, which
  `ThrottleKeepsItsWord` excepts. `throttle.sweep()` is never called. A sign-in verified
  against the old password may be signed after a password change.

Accounts and setup:

* The edit page takes the account from memory and the stamp from the file
  (`src/settings-routes.ts:1352`). Until a hand edit is loaded (150 ms, or for as long as it
  does not parse) its save puts the old fields back over the edit, where
  `accounts-writer.ts:22` says the stamp identifies the version the form was rendered from.
* A change of accounts.json between the first load and the watcher's start is not loaded
  until the next one. The timer's reloads are not queued (`accounts.ts:457-458`): when
  reading takes longer than the debounce, the older of two may assign its list last, and
  memory stays stale with nothing due. A read that fails with anything but ENOENT
  (`:234-239`) is only logged (`:458-468`), and nobody reads again. Both are in the model,
  and `QuietMemoryIsCurrent` excepts them (`missed`). An edit of the same size within the
  clock's resolution has the same stamp (`accounts-writer.ts:26`).
* The wizard's routes count on being the only writer of accounts.json while the settings
  pages are not mounted; two tabs of it, or a hand edit, are writers too. A first screen
  submitted in one tab and finished after the other tab's Finish replaces operator.json while
  the process keeps the old record. Two writes of the progress file are not chained
  (`setup-state.ts:120`): the older may land last, and a restart shows an earlier screen.
* A lookup may overrun its budgets by less than one attempt, 3000 ms: a name and the document
  behind it are given one slice each (`autoconfig.ts:409-417`), where `:885-887` allows for
  "the time to unwind" only. The wizard waits exactly that much longer than the budgets
  (`LOOKUP_SLACK_MS`, `setup-routes.ts:1480`) from an earlier moment, the start of its
  request, so that a lookup that takes its longest may not be heard.
* Before a mailbox is tested, an `http:` CalDAV URL is resolved by a DNS lookup that no budget
  bounds (`settings-routes.ts:419-429`, `net-address.ts:21-24`); the test's own limit
  starts after it. An IMAP logout that hangs has no limit of its own and makes a test that
  succeeded fail at the total one.

Calendar and mail:

* `caldav-move.ts:261-269` says that a copy which may have been written is taken back or
  named. `putCopy` reads the target once; a PUT whose answer was lost and which the server
  carries out after that leaves a copy nobody is told of (for a MOVE, `whereItWent`,
  `:148-150`, waits for exactly this).
* `CalDavClient` keeps a rejected `connecting` for ever (`:133-152`), where `ImapClient`
  forgets its own: after one failed login every calendar call of the account fails until
  accounts.json is reloaded. A call that holds dropped clients connects them again after
  `resetAll()`, and nobody closes that connection. A draft that cannot be built fails outside
  `reportingFailures()` and leaves no line in the log.
* The ETag read back after a write may be that of another client's write since
  (`caldav-client.ts:454`).
* An override that moves all that follow to an earlier time: a window that ends between the
  new time and the old one loses them (`ical-expand.ts`, `if (at >= window.end) break`).
  Shifting a series stamps a superseded revision of an override, which may become the current
  one (`ical-series-shift.ts:315-337`). `WindowShowsWhatOverlaps` and `SeriesMovesAsOne`
  except these two.

## Not modelled

`PROJECT.json` names what is left out of each component. In general: the text of pages,
logs, iCalendar objects and messages; network and TLS; cryptography, taken as
opaque values; what a mail server does with a command.

Of the calendar: all-day events, rules other than daily ones, VTIMEZONE text and the rules of
zones (a zone is one change of its offset), caps on the steps and results of an expansion; detaching past
an override that begins at no occurrence, a superseded revision with its RANGE removed, an
RDATE at another clock time that a shift carries over midnight, SCHEDULE-AGENT=SERVER,
a clock that changes twice within days, times narrowed to whole seconds.

Of the services: the proxy, metadata, logging and page rendering keep no state. Which
addresses count as public, which redirect URIs and scopes are allowed, and what of an HTTP
answer is parsed, are pure checks on text, whose models would repeat them.

## Plan

Modelled, in the order of what a failure would cost: the worker pool and its promise, the
state file, sessions, sessions in the file, event writes, operator sign-in, accounts and
settings forms; then connections, setup over the secrets, the mailbox screens over the
lookup, the calendar client's calls, the calendar algorithms.

Proved since: every invariant and action property of the runs, the
refinement of `ExpansionPromise` by the pool, and that of `StateFile` by the
sessions.

Next:

1. More of the model: the assertion between the services, the first load of accounts.json and
   its watcher, the shape checks of the state file.
2. The parts of the settings pages that `AddMailbox` leaves out: the list, its notices, and
   deleting a mailbox that is the default.
