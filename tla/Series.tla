------------------------------- MODULE Series -------------------------------
(***************************************************************************)
(* A recurring event as it is stored, how list_events reads it             *)
(* (src/ical-expand.ts, src/ical-series.ts), and the three ways a call     *)
(* changes it: one occurrence changed or deleted                           *)
(* (src/ical-occurrence-edit.ts) and the whole series moved to another     *)
(* time (src/ical-series-shift.ts).  Another calendar program writes to it *)
(* as well: it adds overrides, of which some reach every later occurrence  *)
(* (RANGE=THISANDFUTURE).                                                  *)
(*                                                                         *)
(* Times are numbers on the clock of the series' one zone; a day has Day   *)
(* of them.  The rule repeats daily.                                       *)
(***************************************************************************)
EXTENDS Integers, FiniteSets

CONSTANTS
  Day,        \* the length of a day
  Days,       \* bound: days a rule is walked for
  Lengths,    \* of an event
  Moves,      \* by how much calls and other programs move a time
  Ours, Theirs, Original,   \* who wrote a title
  ForeignTimes,   \* occurrences other programs write overrides for
  ForeignLengths, \* and their lengths
  MaxWrites,  \* bound: writes to the object
  None

ASSUME SeriesAssumption ==
  /\ Day \in Nat \ {0} /\ Days \in Nat \ {0} /\ MaxWrites \in Nat
  /\ Lengths \subseteq Nat \ {0} /\ Moves \subseteq Int
  /\ ForeignTimes \subseteq Int /\ ForeignLengths \subseteq Nat

Titles == {Ours, Theirs, Original}

RuleType == [kind : {"count", "until", "date", "none"}, end : Int, own : BOOLEAN]

MasterType ==
  [start : Int, len : Nat, title : Titles, seq : Nat, rule : RuleType,
   rdate : SUBSET Int, exdate : SUBSET Int]

ASSUME MasterAssumption == None \notin MasterType

VARIABLES
  obj,       \* the stored object: its main VEVENT and its overrides, by where they stand in it
  writes     \* how often it has been written

svars == <<obj, writes>>

dayOf(t) == t \div Day

MaxOf(S) == CHOOSE x \in S : \A y \in S : y <= x

MinOf(S) == CHOOSE x \in S : \A y \in S : x <= y

-----------------------------------------------------------------------------
(* Reading *)

\* The times of the rule: to a COUNT, to an UNTIL that is a time or a date, or
\* (without a rule) DTSTART alone.
RuleTimes(m) ==
  {m.start + i * Day : i \in
     {j \in 0 .. Days - 1 :
        LET t == m.start + j * Day IN
          CASE m.rule.kind = "count" -> j < m.rule.end
            [] m.rule.kind = "until" -> t <= m.rule.end
            [] m.rule.kind = "date" -> dayOf(t) <= m.rule.end
            [] OTHER -> j = 0}}

\* recurrenceWalk(): DTSTART, the rule and the RDATEs, without the EXDATEs.
Walk(m) == ({m.start} \cup RuleTimes(m) \cup m.rdate) \ m.exdate

Overrides(o) == DOMAIN o.overrides

\* keyOf() of a RECURRENCE-ID: its instant.
Revisions(o, t) == {i \in Overrides(o) : o.overrides[i].rid = t}

\* currentOverrides(): the highest SEQUENCE, then the later in the object.
Current(o) ==
  {i \in Overrides(o) : \A j \in Revisions(o, o.overrides[i].rid) :
     \/ o.overrides[j].seq < o.overrides[i].seq
     \/ o.overrides[j].seq = o.overrides[i].seq /\ j <= i}

Overridden(o, t) == Revisions(o, t) # {}

currentOf(o, t) == CHOOSE i \in Current(o) : o.overrides[i].rid = t

\* An override that is added stands behind all others.
Behind(o) == 1 + MaxOf({0} \cup Overrides(o))

Added(o, v) ==
  [o EXCEPT !.overrides =
     [i \in Overrides(o) \cup {Behind(o)} |-> IF i \in Overrides(o) THEN o.overrides[i] ELSE v]]

modifiesFuture(o) == {i \in Overrides(o) : o.overrides[i].range}

\* governingRange(), and ical.js: the latest that begins at or before t.
Governed(o, t) == \E i \in modifiesFuture(o) : o.overrides[i].rid <= t

governingRange(o, t) ==
  LET before == {i \in modifiesFuture(o) : o.overrides[i].rid <= t}
      latest == MaxOf({o.overrides[i].rid : i \in before})
  IN MaxOf({i \in before : o.overrides[i].rid = latest})

Shown(rid, v) == [rid |-> rid, start |-> v.start, len |-> v.len, title |-> v.title]

\* rangeShifted(): where the override v puts a later occurrence.
rangeShifted(v, t) == [v EXCEPT !.start = t + (v.start - v.rid)]

\* How an occurrence of the walk is listed.
Occurrence(o, t) ==
  Shown(t, IF Overridden(o, t) THEN o.overrides[currentOf(o, t)]
           ELSE IF Governed(o, t) THEN rangeShifted(o.overrides[governingRange(o, t)], t)
           ELSE [o.master EXCEPT !.start = t])

Starts(o) == IF o.master = None THEN {} ELSE Walk(o.master)

\* Faulty: an override that replaces no occurrence of the walk is dropped.
ListedOnlyWalked(o, walked) == {Occurrence(o, t) : t \in walked}

\* occurrencesIn(): the walk as far as it goes, then the overrides that replace
\* no occurrence it met.
ListedWalking(o, walked) ==
  {Occurrence(o, t) : t \in walked} \cup
  {Shown(o.overrides[i].rid, o.overrides[i]) : i \in {j \in Current(o) : o.overrides[j].rid \notin walked}}

\* Everything list_events can show of the object.
Listing(o) == ListedWalking(o, Starts(o))

\* An event without a length has to start in the window.
inWindow(e, from, to) ==
  IF e.len > 0 THEN e.start < to /\ e.start + e.len > from ELSE from <= e.start /\ e.start < to

\* And in a window: the walk ends where the window does.
Window(o, from, to) ==
  {e \in ListedWalking(o, {t \in Starts(o) : t < to}) : inWindow(e, from, to)}

Rids(o) == {e.rid : e \in Listing(o)}

-----------------------------------------------------------------------------
(* findOccurrence(): what a write is told of the occurrence it changes *)

\* The one after it, as the walk met it; an override the walk never meets has
\* no known next one.
Following(o, t) == {s \in Starts(o) : s > t}

next(o, t) ==
  CASE t \notin Starts(o) -> "unknown"
    [] Following(o, t) = {} -> "none"
    [] Overridden(o, MinOf(Following(o, t))) -> "overridden"
    [] OTHER -> "plain"

\* Another occurrence the walk met, or an override of another one.
others(o, t) == Starts(o) \ {t} # {} \/ \E i \in Current(o) : o.overrides[i].rid # t

-----------------------------------------------------------------------------
(* Writing one occurrence *)

Patch == [title : {None, Ours}, move : Moves \cup {None}, len : Lengths \cup {None}] \
           {[title |-> None, move |-> None, len |-> None]}

stampRevision(v) == [v EXCEPT !.seq = @ + 1]

\* patchText() and patchTimes(): a new start alone keeps the length.
Patched(v, p) ==
  [v EXCEPT !.title = IF p.title = None THEN @ ELSE p.title,
            !.start = IF p.move = None THEN @ ELSE @ + p.move,
            !.len = IF p.len = None THEN @ ELSE p.len]

\* A new override, from the master's VEVENT.
overrideFrom(o, t) ==
  [rid |-> t, range |-> FALSE, start |-> t, len |-> o.master.len, title |-> o.master.title, seq |-> o.master.seq]

\* A new override, from the THISANDFUTURE one that reaches the occurrence.
overrideFromRange(o, t) ==
  [rangeShifted(o.overrides[governingRange(o, t)], t) EXCEPT !.rid = t, !.range = FALSE]

Detachable(o, t) == next(o, t) \in {"none", "plain"}

\* detachRangeAnchor(): the occurrence a THISANDFUTURE override begins at is
\* taken out of it.  The override moves on to the next occurrence.
detachRangeAnchor(o, t) ==
  LET i == currentOf(o, t)
      v == o.overrides[i]
      plain == [v EXCEPT !.range = FALSE]
      n == MinOf(Following(o, t))
  IN IF next(o, t) = "none"
     THEN [o EXCEPT !.overrides[i] = plain]
     ELSE Added([o EXCEPT !.overrides[i] = stampRevision([rangeShifted(v, n) EXCEPT !.rid = n])], plain)

BeginsRange(o, t) == Overridden(o, t) /\ o.overrides[currentOf(o, t)].range /\ o.master # None

\* The object with an override of its own for the occurrence.
WithOverride(o, t) ==
  IF BeginsRange(o, t) THEN detachRangeAnchor(o, t)
  ELSE IF Overridden(o, t) THEN o
  ELSE Added(o, IF Governed(o, t) THEN overrideFromRange(o, t) ELSE overrideFrom(o, t))

\* Both writes of one occurrence name one that list_events showed, and one
\* where a THISANDFUTURE override begins only when that can move on.
Writable(o, t) == t \in Rids(o) /\ (BeginsRange(o, t) => Detachable(o, t))

\* update_event with a recurrence_id.
applyOccurrencePatch(o, t, p) ==
  LET w == WithOverride(o, t) IN
    [w EXCEPT !.overrides[currentOf(w, t)] = stampRevision(Patched(@, p))]

Excluded(m, t) == IF m = None THEN None ELSE stampRevision([m EXCEPT !.exdate = @ \cup {t}])

\* Faulty: a superseded revision of its override stays.
WithoutTheCurrent(o, t) ==
  [master |-> Excluded(o.master, t),
   overrides |-> [i \in Overrides(o) \ (Revisions(o, t) \cap Current(o)) |-> o.overrides[i]]]

\* delete_event with a recurrence_id: every revision of its override goes, and
\* the master gets an EXDATE.
Without(o, t) ==
  [master |-> Excluded(o.master, t),
   overrides |-> [i \in Overrides(o) \ Revisions(o, t) |-> o.overrides[i]]]

excludeOccurrence(o, t) == Without(IF BeginsRange(o, t) THEN detachRangeAnchor(o, t) ELSE o, t)

seriesEmpty(o, t) == ~others(o, t)

-----------------------------------------------------------------------------
(* Moving the series *)

\* Faulty: the UNTIL stays.
shiftNoUntil(rule, delta) == rule

\* shiftUntil(): an UNTIL that is a time moves along.
shiftUntil(rule, delta) == IF rule.kind = "until" THEN [rule EXCEPT !.end = @ + delta] ELSE rule

shiftProperty(times, delta) == {t + delta : t \in times}

\* Still at its occurrence's time with the series' length: it moves along.
unrescheduled(v, oldLen) == v.start = v.rid /\ v.len = oldLen

Lengthened(v, len) == IF len = None THEN v ELSE [v EXCEPT !.len = len]

\* An override that is moved or given a length is a new revision.
shiftOverride(v, oldLen, delta, len) ==
  LET along == unrescheduled(v, oldLen)
      named == [v EXCEPT !.rid = @ + delta]
      moved == IF along THEN Lengthened([named EXCEPT !.start = @ + delta], len) ELSE named
  IN IF delta # 0 \/ (along /\ len # None) THEN stampRevision(moved) ELSE v

\* The new time is told by one occurrence, the anchor: delta is on its clock,
\* and may not lead to another day.
SameDay(anchor, delta) == dayOf(anchor + delta) = dayOf(anchor)

Shiftable(o, anchor, delta) ==
  /\ o.master # None /\ anchor \in Rids(o) \cup {o.master.start}
  /\ SameDay(anchor, delta)
  /\ o.master.rule.own => delta = 0

\* shiftMaster(): no length is the one each has.  A title is the master's.
shiftSeries(o, delta, len, title) ==
  [master |-> stampRevision(Lengthened(
     [o.master EXCEPT !.start = @ + delta, !.title = IF title = None THEN @ ELSE title,
                      !.exdate = shiftProperty(@, delta), !.rdate = shiftProperty(@, delta),
                      !.rule = shiftUntil(@, delta)], len)),
   overrides |-> [i \in Overrides(o) |-> shiftOverride(o.overrides[i], o.master.len, delta, len)]]

-----------------------------------------------------------------------------
(* The calls, and the other program *)

Exists(o) == o.master # None \/ Overrides(o) # {}

putEdit(o) ==
  /\ writes < MaxWrites /\ Exists(obj)
  /\ obj' = o
  /\ writes' = writes + 1

UpdateOccurrence(t, p) == Writable(obj, t) /\ putEdit(applyOccurrencePatch(obj, t, p))

DeleteOccurrence(t) == Writable(obj, t) /\ putEdit(excludeOccurrence(obj, t))

UpdateSeries(anchor, delta, len, title) ==
  /\ delta # 0 \/ len # None
  /\ Shiftable(obj, anchor, delta)
  /\ putEdit(shiftSeries(obj, delta, len, title))

\* A second revision of an override stands beside the first, and neither
\* reaches further; one that does begins at an occurrence there is.
Foreign(v) ==
  /\ \A i \in Revisions(obj, v.rid) : ~v.range /\ ~obj.overrides[i].range
  /\ Cardinality(Revisions(obj, v.rid)) < 2
  /\ v.range => v.rid \in Starts(obj)
  /\ v.seq = 1 \/ Overridden(obj, v.rid)
  /\ putEdit(Added(obj, v))

\* An override the other program writes keeps the time, or moves, or lengthens.
ForeignOverride(t, range, move, len, seq) ==
  [rid |-> t, range |-> range, start |-> t + move, len |-> len, title |-> Theirs, seq |-> seq]

-----------------------------------------------------------------------------

Master(kind, end, own, rdate, len) ==
  [start |-> 1, len |-> len, title |-> Original, seq |-> 0, rule |-> [kind |-> kind, end |-> end, own |-> own],
   rdate |-> rdate, exdate |-> {}]

\* A rule with a COUNT, with an UNTIL, with a date and times of its own, dates
\* alone; an event whose length is nothing.
Masters ==
  {Master("count", 3, FALSE, {}, 1), Master("until", 1 + Day, FALSE, {2 + Day}, 1),
   Master("date", 1, TRUE, {2 + Day}, 1), Master("none", 0, FALSE, {2 + Day}, 0)}

\* An invitation to one occurrence of a series that is elsewhere.
Invitation == [master |-> None, overrides |-> [i \in {1} |-> ForeignOverride(1, FALSE, 0, 1, 0)]]

NoOverrides == [i \in {} |-> None]

SeriesInit ==
  /\ writes = 0
  /\ obj \in {[master |-> m, overrides |-> NoOverrides] : m \in Masters} \cup {Invitation}

Times == 1 .. 3 + Days * Day

SeriesNext ==
  \/ \E t \in Times, p \in Patch : UpdateOccurrence(t, p)
  \/ \E t \in Times : DeleteOccurrence(t)
  \/ \E t \in Times, delta \in Moves \cup {0}, len \in Lengths \cup {None}, title \in {None, Ours} :
       UpdateSeries(t, delta, len, title)
  \/ \E t \in ForeignTimes, range \in BOOLEAN, move \in 0 .. MaxOf(Moves), len \in ForeignLengths, seq \in 0 .. 1 :
       Foreign(ForeignOverride(t, range, move, len, seq))

-----------------------------------------------------------------------------

\* A change of one occurrence changes that one in the listing, as it was asked,
\* and no other: whether it has an override, is reached by one of an earlier
\* occurrence, or is where such an override begins (applyOccurrencePatch()).
ChangesOnlyTheNamed ==
  \A t \in Rids(obj) : Writable(obj, t) => \A p \in Patch :
    Listing(applyOccurrencePatch(obj, t, p)) = {IF e.rid = t THEN Patched(e, p) ELSE e : e \in Listing(obj)}

\* A deletion takes that one out, and no other; and it is called the last one
\* exactly when nothing is left (excludeOccurrence()).
RemovesOnlyTheNamed ==
  \A t \in Rids(obj) : Writable(obj, t) =>
    LET left == Listing(excludeOccurrence(obj, t)) IN
      /\ left = {e \in Listing(obj) : e.rid # t}
      /\ seriesEmpty(obj, t) <=> left = {}

\* A write to one occurrence leaves all others as they were.
OnlyTheNamedOccurrence == ChangesOnlyTheNamed /\ RemovesOnlyTheNamed

FromMaster(o, t) == ~Overridden(o, t) /\ ~Governed(o, t)

\* Where the series' move takes an occurrence that was listed: one at the
\* series' time and length takes the new ones, one with its own keeps it.
MovedAlong(o, e, delta, len, title) ==
  LET titled == IF title # None /\ FromMaster(o, e.rid) THEN [e EXCEPT !.title = title] ELSE e
      named == [titled EXCEPT !.rid = @ + delta]
  IN IF e.start = e.rid /\ e.len = o.master.len THEN Lengthened([named EXCEPT !.start = @ + delta], len) ELSE named

\* A series that is moved has the same occurrences, none lost, doubled or
\* brought back (shiftSeries()).  Where an override has two revisions this is
\* not so: see the README.
SeriesMovesAsOne ==
  (\A i, j \in Overrides(obj) : obj.overrides[i].rid = obj.overrides[j].rid => i = j) =>
    \A delta \in Moves \cup {0} : (\E t \in Times : Shiftable(obj, t, delta)) =>
      \A len \in Lengths \cup {None}, title \in {None, Ours} :
        Listing(shiftSeries(obj, delta, len, title)) = {MovedAlong(obj, e, delta, len, title) : e \in Listing(obj)}

\* What a window shows is what of the listing overlaps it: the walk may stop
\* at its end (occurrencesIn()).  Where a change to all that follows moves them
\* to an earlier time this is not so: see the README.
WindowShowsWhatOverlaps ==
  (\A i \in modifiesFuture(obj) : obj.overrides[i].start >= obj.overrides[i].rid) =>
    LET all == Listing(obj) IN
      \A to \in Times : \A from \in 1 .. to - 1 : Window(obj, from, to) = {e \in all : inWindow(e, from, to)}

SSpec == SeriesInit /\ [][SeriesNext]_svars

=============================================================================
