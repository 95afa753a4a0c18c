---------------------------- MODULE AddMailbox ----------------------------
(***************************************************************************)
(* Adding or editing a mailbox: the screens between an address and a       *)
(* stored account, in the two programs that draw them, the setup wizard    *)
(* (oauth/src/setup-routes.ts) and the connector's own settings pages      *)
(* (src/settings-routes.ts).  Both decide the next screen with one cascade *)
(* (shared/settings-api.ts); the connector looks addresses up (Lookup),    *)
(* probes what is to be stored and writes accounts.json under a stamp.     *)
(***************************************************************************)
EXTENDS Lookup

CONSTANTS
  Addresses,     \* what the address box may hold; BlankAddress stands for one without a domain
  BlankAddress,
  Warned,        \* the addresses the connector's table has an `unsupported` notice for
  Mail,          \* the mail services, which every mailbox has
  Calendar,      \* CalDAV, which it may have
  Passwords, Empty,
  Right,         \* the password the servers accept
  None

ASSUME AddMailboxAssumption ==
  /\ BlankAddress \in Addresses /\ Addresses # {BlankAddress} /\ Warned \subseteq Addresses \ {BlankAddress}
  /\ Empty \notin Passwords /\ Right \in Passwords
  /\ Mail # {} /\ Calendar \notin Mail

Services == Mail \cup {Calendar}

NoPasswords == [s \in Services |-> Empty]

Boxes == [Services -> Passwords \cup {Empty}]

SubmissionType ==
  [act     : {"lookup", "provider", "edit", "test", "save", "anyway"},
   at      : {"lookup", "looked", "cascade", "parse", "check", "refuse", "probe", "probed", "write"},
   addr    : Addresses, warnFor : Addresses, warn : Addresses \cup {None},
   shared  : Passwords \cup {Empty}, pass : Boxes, full : Boxes,
   url     : BOOLEAN, fresh : BOOLEAN, edits : BOOLEAN,
   found   : BOOLEAN, ok : SUBSET Services]

AccountType == [addr : Addresses, pass : Boxes, url : BOOLEAN]

ASSUME NoneAssumption == None \notin SubmissionType \cup AccountType

VARIABLES
  ui,      \* which program draws the screens
  page,    \* the screen the operator has
  req,     \* the submission being handled, or None
  acct,    \* the mailbox in accounts.json, or None
  meant    \* history: the password the operator last typed for each service on these screens

screenVars == <<ui, page, req, acct, meant, look>>

Views == {"address", "suggestion", "providers", "manual", "edit", "waiting", "done"}

\* unsupportedNoticeFor(): the notice is named by its address.
Notice(a) == IF a \in Warned THEN a ELSE None

ScreenOf(view, a, warn, shared, pass, url) ==
  [view |-> view, addr |-> a, warn |-> warn, shared |-> shared, pass |-> pass, url |-> url, fresh |-> TRUE]

Fresh(view) == ScreenOf(view, BlankAddress, None, Empty, NoPasswords, FALSE)

Done == Fresh("done")

\* A submission is in flight: its answer replaces the screen.
Waiting == Fresh("waiting")

\* The one password of the cascade fills the boxes that are empty, CalDAV's only
\* beside a URL.
spreadSharedPassword(pass, url, shared) ==
  [s \in Services |-> IF pass[s] = Empty /\ (s \in Mail \/ url) THEN shared ELSE pass[s]]

\* The next screen after a lookup, after a choice of provider, and after `Edit these`.
stepFromLookup(a, shared, found, url, warn) ==
  IF a = BlankAddress THEN ScreenOf("address", a, None, shared, NoPasswords, FALSE)
  ELSE IF found THEN ScreenOf("suggestion", a, warn, shared, NoPasswords, url)
  ELSE ScreenOf("providers", a, warn, shared, NoPasswords, FALSE)

stepFromProvider(a, shared, listed, url, warn) ==
  IF a = BlankAddress THEN ScreenOf("providers", a, None, shared, NoPasswords, FALSE)
  ELSE IF listed THEN ScreenOf("manual", a, warn, Empty, spreadSharedPassword(NoPasswords, url, shared), url)
  ELSE ScreenOf("providers", a, warn, shared, NoPasswords, FALSE)

stepFromEdit(a, shared, url, warn) ==
  ScreenOf("manual", a, IF a = BlankAddress THEN None ELSE warn, Empty, spreadSharedPassword(NoPasswords, url, shared), url)

\* A step as it is drawn: the address screen has no password box and no warning.
Drawn(step) == IF step.view = "address" THEN [step EXCEPT !.shared = Empty] ELSE step

\* Faulty: every password is left out of the form that answers.
StrippedPasswords(warn, to) ==
  [ScreenOf(IF req.edits THEN "edit" ELSE "manual", req.addr, warn, Empty, NoPasswords, req.url) EXCEPT !.fresh = to]

\* The form of a submission, with the passwords that came in with it.
withCarriedPasswords(warn, to) ==
  [ScreenOf(IF req.edits THEN "edit" ELSE "manual", req.addr, warn, Empty, req.pass, req.url) EXCEPT !.fresh = to]

\* The wizard keeps a warning only while the address is the one it came with.
Carried == IF req.warn # None /\ req.warnFor # BlankAddress /\ req.warnFor = req.addr THEN req.warn ELSE None

\* The warning of the next screen: the connector reads its table again, the
\* wizard has only what the form brought back.
Warning == IF ui = "Connector" THEN Notice(req.addr) ELSE Carried

\* A refused draft, drawn by the connector, or by the wizard from its answer,
\* which names the notice too.
Refused(to) == withCarriedPasswords(IF Notice(req.addr) # None THEN Notice(req.addr) ELSE Warning, to)

ScreensInit ==
  /\ ui \in {"Wizard", "Connector"}
  /\ acct \in {None, [addr |-> CHOOSE a \in Addresses \ {BlankAddress} : TRUE,
                      pass |-> [s \in Services |-> IF s \in Mail THEN Right ELSE Empty], url |-> FALSE]}
  /\ ui = "Wizard" => acct = None
  /\ page = Fresh("address") /\ req = None
  /\ meant = NoPasswords /\ look = Idle

\* A link: an empty screen of either program, or the stored mailbox's form, which
\* holds no password.
Open(view) ==
  /\ req = None
  /\ page' = Fresh(view) /\ meant' = NoPasswords
  /\ UNCHANGED <<ui, req, acct, look>>

OpenEdit ==
  /\ ui = "Connector" /\ req = None /\ acct # None
  /\ page' = ScreenOf("edit", acct.addr, Notice(acct.addr), Empty, NoPasswords, acct.url)
  /\ meant' = NoPasswords
  /\ UNCHANGED <<ui, req, acct, look>>

\* What a submission brings: the boxes of the screen, hidden ones included; only
\* the wizard's screens bring the warning back.
Post(act, at, a, shared, pass, url) ==
  /\ page' = Waiting
  /\ req' = [act |-> act, at |-> at, addr |-> a, shared |-> shared, pass |-> pass, url |-> url,
          warn |-> IF ui = "Wizard" THEN page.warn ELSE None, warnFor |-> page.addr, fresh |-> page.fresh, edits |-> page.view = "edit",
          full |-> NoPasswords, found |-> FALSE, ok |-> {}]

Typed(boxes) == meant' = [s \in Services |-> IF boxes[s] # Empty THEN boxes[s] ELSE meant[s]]

SubmitAddress ==
  /\ req = None /\ page.view = "address"
  /\ \E a \in Addresses :
       /\ Post("lookup", "lookup", a, Empty, NoPasswords, FALSE)
       /\ IF ui = "Wizard" /\ a = BlankAddress THEN UNCHANGED look ELSE StartLookup
  /\ UNCHANGED <<ui, acct, meant>>

SubmitProvider ==
  /\ req = None /\ page.view = "providers"
  /\ \E a \in Addresses : Post("provider", "cascade", a, page.shared, NoPasswords, FALSE)
  /\ UNCHANGED <<ui, acct, meant, look>>

\* The suggestion asks for the one password when it carries none, and lets `Edit
\* these` pass without it.
SubmitSuggestion ==
  /\ req = None /\ page.view = "suggestion"
  /\ \E act \in {"save", "edit"}, p \in IF page.shared = Empty THEN Passwords \cup {Empty} ELSE {page.shared} :
       /\ act = "save" => p # Empty
       /\ Post(act, IF act = "edit" THEN "cascade" ELSE "parse", page.addr, p, NoPasswords, page.url)
       /\ Typed(spreadSharedPassword(NoPasswords, page.url, p))
  /\ UNCHANGED <<ui, acct, look>>

\* The full form: any box may have been changed; a new mailbox's password boxes
\* are required.
SubmitForm ==
  /\ req = None /\ page.view \in {"manual", "edit"}
  /\ \E act \in {"test", "save", "anyway"}, a \in Addresses, url \in BOOLEAN,
        typed \in Boxes :
       LET pass == [s \in Services |-> IF typed[s] # Empty THEN typed[s] ELSE page.pass[s]]
       IN /\ page.view = "manual" => \A s \in Mail : pass[s] # Empty
          /\ Post(act, "parse", a, Empty, pass, url)
          /\ Typed(typed)
  /\ UNCHANGED <<ui, acct, look>>

\* The screen that answers.
Answer(screen) == page' = screen /\ req' = None

\* The wizard asks the connector over HTTP and may get no usable answer.
Unheard == ui = "Wizard"

\* The lookup's answer: what was found, and the notice of the address.  The wizard
\* may give up at any time, with neither.
HearLookup ==
  /\ req # None /\ req.at = "lookup"
  /\ \/ /\ LookupEnded \/ look.at = "idle"
        /\ req' = [req EXCEPT !.at = "looked", !.found = look.at = "found", !.url = look.caldav,
                              !.warn = Notice(req.addr), !.warnFor = req.addr]
     \/ Unheard /\ req' = [req EXCEPT !.at = "looked", !.warnFor = req.addr]
  /\ look' = Idle
  /\ UNCHANGED <<ui, page, acct, meant>>

\* Faulty: the form shown without a list is the bare one.
BareForm ==
  ScreenOf("manual", req.addr, None, Empty, spreadSharedPassword(NoPasswords, FALSE, req.shared), FALSE)

\* The wizard asked for the provider list and cannot have it: the full form, with
\* what came with the address.
WithoutTheList ==
  ScreenOf("manual", req.addr, Warning, Empty, spreadSharedPassword(NoPasswords, FALSE, req.shared), FALSE)

\* What follows from it; a miss leads to the list, which the wizard asks for now.
AnswerLookup ==
  /\ req # None /\ req.at = "looked"
  /\ LET step == stepFromLookup(req.addr, req.shared, req.found, req.url, Warning)
     IN \/ Answer(Drawn(step))
        \/ Unheard /\ step.view = "providers" /\ Answer(WithoutTheList)
  /\ UNCHANGED <<ui, acct, meant, look>>

\* A provider chosen: a listed one with or without CalDAV, `Other`, or none.
AnswerProvider ==
  /\ req # None /\ req.at = "cascade" /\ req.act = "provider"
  /\ \/ \E listed, url \in BOOLEAN :
          Answer(Drawn(stepFromProvider(req.addr, req.shared, listed, url, Warning)))
     \/ Unheard /\ Answer(WithoutTheList)
  /\ UNCHANGED <<ui, acct, meant, look>>

AnswerEdit ==
  /\ req # None /\ req.at = "cascade" /\ req.act = "edit"
  /\ Answer(stepFromEdit(req.addr, req.shared, req.url, Warning))
  /\ UNCHANGED <<ui, acct, meant, look>>

\* The form is read, with the stored mailbox as it is now: a blank password is
\* the stored one on an edit and an error on a new mailbox, and other fields may be
\* wrong.  The wizard saves against the stamp it asks for now.
Parse ==
  /\ req # None /\ req.at = "parse"
  /\ \E fine \in BOOLEAN :
       LET pass == spreadSharedPassword(req.pass, req.url, req.shared)
           kept == IF req.edits THEN acct.pass ELSE NoPasswords
           full == [s \in Services |-> IF pass[s] # Empty THEN pass[s] ELSE kept[s]]
           used == IF req.url THEN Services ELSE Mail
       IN req' = [req EXCEPT !.pass = pass, !.shared = Empty,
                             !.full = [s \in Services |-> IF s \in used THEN full[s] ELSE Empty],
                             !.fresh = @ \/ ui = "Wizard",
                             !.at = IF ~fine \/ \E s \in used : full[s] = Empty THEN "refuse" ELSE "check"]
  /\ UNCHANGED <<ui, page, acct, meant, look>>

\* The CalDAV URL the form would keep: one over http is resolved first, for as long
\* as that takes, and refused unless it is local.  `Save anyway` skips the test, not this.
CheckUrl ==
  /\ req # None /\ req.at = "check"
  /\ \E allowed \in BOOLEAN :
       /\ req.url \/ allowed
       /\ req' = [req EXCEPT !.at = IF ~allowed THEN "refuse" ELSE IF req.act = "anyway" THEN "write" ELSE "probe"]
  /\ UNCHANGED <<ui, page, acct, meant, look>>

\* A draft the connector will not take; or the wizard hears nothing of it.
Refuse ==
  /\ req # None
  /\ \/ req.at = "refuse" /\ Answer(Refused(req.fresh))
     \/ /\ Unheard /\ req.at \in {"refuse", "check", "probe", "write"}
        /\ Answer(withCarriedPasswords(Warning, req.fresh))
  /\ UNCHANGED <<ui, acct, meant, look>>

\* Of the services that are up, the ones that take what the draft says.
probeMail(up) == {s \in Mail \cap up : req.full[s] = Right}

probeCalDav(up) == {s \in {Calendar} \cap up : req.url /\ req.full[s] = Right}

\* The connection test: all services at once.  One that is down or late has failed;
\* when the test runs out of time all have.
probeAccount(up) == probeMail(up) \cup probeCalDav(up)

Probe ==
  /\ req # None /\ req.at = "probe"
  /\ \E up \in SUBSET Services : req' = [req EXCEPT !.at = "probed", !.ok = probeAccount(up)]
  /\ UNCHANGED <<ui, page, acct, meant, look>>

\* A test answers with the form it was pressed on.
AnswerTest ==
  /\ req # None /\ req.at = "probed" /\ req.act = "test"
  /\ Answer(withCarriedPasswords(Warning, req.fresh))
  /\ UNCHANGED <<ui, acct, meant, look>>

\* Any mail service that failed refuses the save, CalDAV none.
blockedServices(ok) == Mail \ ok

saveRefusal(ok) == blockedServices(ok) # {}

Gate ==
  /\ req # None /\ req.at = "probed" /\ req.act = "save"
  /\ IF saveRefusal(req.ok) THEN Answer(Refused(req.fresh))
     ELSE req' = [req EXCEPT !.at = "write", !.ok = {}] /\ UNCHANGED page
  /\ UNCHANGED <<ui, acct, meant, look>>

\* The write, which holds only against the file the form was drawn from.
Holds(fresh) == fresh

Write ==
  /\ req # None /\ req.at = "write"
  /\ IF ~Holds(req.fresh) THEN Answer(Refused(TRUE)) /\ UNCHANGED acct
     ELSE IF ~req.edits /\ acct # None THEN Answer(Refused(req.fresh)) /\ UNCHANGED acct
     ELSE /\ acct' = [addr |-> req.addr, pass |-> req.full, url |-> req.url]
          /\ Answer(Done)
  /\ UNCHANGED <<ui, meant, look>>

\* Another tab of the settings pages stores other passwords: the stamp of the form
\* on the screen, or of the submission in flight, is not the file's any more.
OtherSave ==
  /\ ui = "Connector" /\ acct # None /\ (page.view = "edit" \/ (req # None /\ req.edits))
  /\ \E p \in Passwords :
       acct' = [acct EXCEPT !.pass = [s \in Services |-> IF @[s] = Empty THEN Empty ELSE p]]
  /\ acct' # acct
  /\ page' = [page EXCEPT !.fresh = FALSE]
  /\ req' = IF req = None THEN None ELSE [req EXCEPT !.fresh = FALSE]
  /\ UNCHANGED <<ui, meant, look>>

Lookup ==
  /\ LookupStep
  /\ UNCHANGED <<ui, page, req, acct, meant>>

Submitting == SubmitAddress \/ SubmitProvider \/ SubmitSuggestion \/ SubmitForm

Handling ==
  \/ HearLookup \/ AnswerLookup \/ AnswerProvider \/ AnswerEdit
  \/ Parse \/ CheckUrl \/ Refuse \/ Probe \/ AnswerTest \/ Gate \/ Write

ScreensNext ==
  \/ \E v \in {"address", "providers", "manual"} : Open(v)
  \/ OpenEdit \/ Submitting \/ Handling \/ Lookup \/ OtherSave

ScreensSpec == ScreensInit /\ [][ScreensNext]_screenVars

\* A warning on a screen is about the address on that screen, in both programs;
\* the connector's screens show it whenever there is one (the warning was once
\* carried on from an address corrected since, #191).
WarningIsAboutTheScreen ==
  /\ page.warn # None => page.warn = Notice(page.addr)
  /\ (ui = "Connector" /\ page.view # "address") => page.warn = Notice(page.addr)

\* What the wizard was told about an address stays on every screen that address
\* survives on, refused saves, tests and an unreachable connector included (#186).
WarningStays ==
  (/\ req # None /\ req' = None
   /\ req.warn # None /\ req.addr = req.warnFor
   /\ page'.view \notin {"address", "done"})
  => page'.warn = req.warn

\* Every answer draws a screen whose warning is that of the address on it, and
\* keeps the one the operator was given.
WarningFollowsTheAddress == [][WarningIsAboutTheScreen' /\ WarningStays]_screenVars

\* What a save stores is, for each service, the password the operator last typed
\* on these screens, whatever answers lay between, and on an edit the stored one
\* where none was typed (a box emptied by an answer once stored the old one, #184).
StoredIsMeant ==
  [][(acct' # acct /\ req # None /\ req' = None)
     => \A s \in Services :
          acct'.pass[s] = IF s = Calendar /\ ~acct'.url THEN Empty
                          ELSE IF meant[s] # Empty THEN meant[s] ELSE acct.pass[s]]_screenVars
=============================================================================
