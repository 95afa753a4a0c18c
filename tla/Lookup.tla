------------------------------ MODULE Lookup ------------------------------
(***************************************************************************)
(* The connector's address lookup (src/src/autoconfig.ts): published       *)
(* configurations asked for one after another under the discovery budget,  *)
(* then DNS service records; once servers are known, the ones with a rival *)
(* are connected to, all at once, while the CalDAV URL is looked for.      *)
(* Time is the lookup's own clock: an awaited call answers at any time     *)
(* before the slice it was given is over, or is given up at any time in it.*)
(***************************************************************************)
EXTENDS Integers, Sequences

CONSTANTS
  Discovery,      \* CONNECTOR_AUTOCONFIG_DISCOVERY_MS
  PerAttempt,     \* AUTOCONFIG_PER_ATTEMPT_TIMEOUT_MS
  Reach,          \* CONNECTOR_AUTOCONFIG_REACH_MS
  MaxRedirects,   \* MAX_REDIRECTS
  MaxReach,       \* MAX_REACH_CANDIDATES
  MaxServers      \* bound: servers a document lists, the provider table's included

ASSUME LookupAssumption ==
  /\ {Discovery, PerAttempt, Reach, MaxServers, MaxReach} \subseteq Nat \ {0}
  /\ MaxRedirects \in Nat

VARIABLE look   \* the lookup in progress

Records == <<"imaps", "submissions", "submission">>

Idle == [at |-> "idle", tier |-> 0, n |-> 0, clock |-> 0, slice |-> 0, smtp |-> FALSE,
         pick |-> 0, end |-> 0, caldav |-> FALSE]

\* Faulty: an attempt is not cut to what is left of the budget.
WholeSlice(t) == IF t >= Discovery THEN 0 ELSE PerAttempt

\* What an attempt may take: its own limit, and what the phase has left; 0 is none.
Slice(t) ==
  IF t >= Discovery THEN 0 ELSE IF Discovery - t < PerAttempt THEN Discovery - t ELSE PerAttempt

\* A call given `s` fails within s, the deadline included, or answers before it.
Waits(s) == 0 .. s

Answers(s) == 0 .. s - 1

StartLookup == look' = [Idle EXCEPT !.at = "resolve", !.tier = 1]

Ends(result, t) == look' = [look EXCEPT !.at = result, !.clock = t]

\* A tier that failed ends only itself: the next document, then the records.
NextTier(t) ==
  look' = [look EXCEPT !.at = IF look.tier = 3 THEN "srv" ELSE "resolve",
                       !.tier = @ + 1, !.n = IF look.tier = 3 THEN 1 ELSE 0, !.clock = t, !.slice = 0]

\* The best server that was not found closed, of the first MaxReach; without a
\* rival, or with all of them closed, the first.
Choose(verdicts) ==
  LET tried == {i \in DOMAIN verdicts : i <= MaxReach /\ verdicts[i] # "closed"}
  IN IF Len(verdicts) < 2 \/ tried = {} THEN 1 ELSE CHOOSE i \in tried : \A j \in tried : i <= j

\* Servers are known at t: the rivals are checked within Reach of t, together.
Found(t) ==
  \E k \in 1 .. MaxServers : \E verdicts \in [1 .. k -> {"open", "closed", "unknown"}], d \in Waits(Reach) :
    look' = [look EXCEPT !.at = "caldav_resolve", !.n = 0, !.slice = 0, !.clock = t, !.pick = Choose(verdicts),
                         !.end = IF k < 2 THEN t ELSE t + d]

\* ResolveName a URL's name; only public addresses are asked.
ResolveName ==
  /\ look.at = "resolve"
  /\ LET s == Slice(look.clock)
     IN \/ \E d \in Waits(s) : NextTier(look.clock + d)
        \/ \E d \in Answers(s) : look' = [look EXCEPT !.at = "get", !.clock = @ + d, !.slice = s]

\* The document: given the slice the name was given.  It redirects at most once,
\* and what is not a readable configuration is no answer.
Get ==
  /\ look.at = "get"
  /\ \/ \E d \in Waits(look.slice) : NextTier(look.clock + d)
     \/ \E d \in Answers(look.slice) : Found(look.clock + d)
     \/ /\ look.n < MaxRedirects
        /\ \E d \in Answers(look.slice) :
             look' = [look EXCEPT !.at = "resolve", !.n = @ + 1, !.clock = @ + d, !.slice = 0]

\* The service records: no IMAP server or no SMTP server is no answer.
Srv ==
  /\ look.at = "srv"
  /\ \E d \in Waits(Slice(look.clock)), there \in BOOLEAN :
       LET t == look.clock + d
           known == there /\ d \in Answers(Slice(look.clock))
           smtp == look.smtp \/ (look.n > 1 /\ known)
       IN IF (look.n = 1 /\ ~known) \/ (look.n = 3 /\ ~smtp) THEN Ends("nothing", t)
          ELSE IF look.n = 3 THEN Found(t)
          ELSE look' = [look EXCEPT !.n = @ + 1, !.clock = t, !.smtp = smtp]

\* Everything is known when both branches are.
Finish(caldav, t) ==
  look' = [look EXCEPT !.at = "found", !.caldav = caldav, !.slice = 0, !.clock = IF t < look.end THEN look.end ELSE t]

\* The CalDAV URL, beside the reachability phase and on the discovery budget:
\* the well-known URL, the target it redirects to, then a service record.
CalDavResolve ==
  /\ look.at = "caldav_resolve"
  /\ LET s == Slice(look.clock)
     IN \/ \E d \in Waits(s) : look' = [look EXCEPT !.clock = @ + d, !.slice = 0, !.at = "caldav_srv"]
        \/ \E d \in Answers(s) : look' = [look EXCEPT !.clock = @ + d, !.slice = s, !.at = "caldav_get"]

CalDavGet ==
  /\ look.at = "caldav_get"
  /\ \/ \E d \in Answers(look.slice) : Finish(TRUE, look.clock + d)
     \/ \E d \in Answers(look.slice) : look' = [look EXCEPT !.clock = @ + d, !.slice = 0, !.at = "caldav_target"]
     \/ \E d \in Waits(look.slice) : look' = [look EXCEPT !.clock = @ + d, !.slice = 0, !.at = "caldav_srv"]

CalDavTarget ==
  /\ look.at = "caldav_target"
  /\ \/ \E d \in Answers(Slice(look.clock)) : Finish(TRUE, look.clock + d)
     \/ \E d \in Waits(Slice(look.clock)) : look' = [look EXCEPT !.clock = @ + d, !.at = "caldav_srv"]

CalDavSrv ==
  /\ look.at = "caldav_srv"
  /\ \E d \in Waits(Slice(look.clock)), there \in BOOLEAN :
       Finish(there /\ d \in Answers(Slice(look.clock)), look.clock + d)

LookupStep == ResolveName \/ Get \/ Srv \/ CalDavResolve \/ CalDavGet \/ CalDavTarget \/ CalDavSrv

LookupEnded == look.at \in {"found", "nothing"}

\* Through every tier, redirect and service record, and with the CalDAV URL looked
\* for beside the rivals, a lookup overruns its discovery budget by less than one
\* attempt, and its rivals take no more than Reach after that: no attempt begins
\* when the budget is spent, and a document is not given more than what was left
\* when its name was asked for (getGuarded, lookupMailboxSettings).
LookupKeepsItsBudgets ==
  look.clock < Discovery + PerAttempt + (IF look.at = "found" THEN Reach ELSE 0)
=============================================================================
