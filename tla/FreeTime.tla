------------------------------ MODULE FreeTime ------------------------------
(***************************************************************************)
(* find_free_slot: which events take time (src/ical-busy.ts), what is left *)
(* of the working hours (src/free-slots.ts), and the clock of the zone the *)
(* hours are on (src/ical-zones-intl.ts), which is put forward or back     *)
(* once.                                                                   *)
(*                                                                         *)
(* Instants are numbers, one for each second a calendar can tell apart; a  *)
(* day has DayLength of them.                                              *)
(***************************************************************************)
EXTENDS Integers, Sequences, FiniteSets

CONSTANTS
  DayLength,
  Horizon,       \* bound: instants are looked at as far as here
  Zones,         \* [at, from, to]: the offset is from before the instant at, and to afterwards
  Utc,           \* the zone whose offset is always 0
  NoZone,        \* a calendar that reports none
  Events,        \* what other programs put into a calendar
  MaxEvents,     \* bound
  Reports,       \* what the account's calendars say their zones are
  Queries,       \* [from, to, zone, hours, opens, closes, length]; hours: whether to keep to them
  NoQuery,
  MaxSlots,      \* MAX_FREE_SLOTS
  Unasked        \* no answer

VARIABLES
  events,        \* the account's events
  reported,      \* the zone of each of its calendars
  asked,         \* what find_free_slot was asked, or NoQuery
  found          \* and its answer: the slots, and whether there were more

fvars == <<events, reported, asked, found>>

\* How far to either side of a clock time its offsets are looked for.
SearchReach == DayLength + DayLength \div 2

\* No clock is a whole day away.
ZoneType == [at : Int, from : -DayLength .. DayLength, to : -DayLength .. DayLength]

EventType == [from : Int, to : Int, floating : BOOLEAN, counts : BOOLEAN, replies : SUBSET BOOLEAN]

QueryType ==
  [from : Int, to : Int, zone : Zones \cup {NoZone},
   hours : BOOLEAN, opens : 0 .. DayLength, closes : 0 .. DayLength, length : Nat \ {0}]

ASSUME FreeTimeAssumption ==
  /\ DayLength \in Nat \ {0} /\ Horizon \in Nat /\ MaxEvents \in Nat /\ MaxSlots \in Nat
  /\ Zones \subseteq ZoneType /\ Utc \in Zones /\ NoZone \notin Zones
  /\ Events \subseteq EventType
  /\ Queries \subseteq QueryType /\ NoQuery \notin Queries
  /\ Reports \subseteq Seq(Zones \cup {NoZone})

Least(a, b) == IF a < b THEN a ELSE b

Most(a, b) == IF a > b THEN a ELSE b

-----------------------------------------------------------------------------
(* Clocks *)

utcOffset(z, t) == IF t < z.at THEN z.from ELSE z.to

wallAt(t, z) == t + utcOffset(z, t)

\* wallToInstantBy(): the earliest instant that shows it; for a time the clock
\* leaves out, the offset from before.
instantAt(wall, z) ==
  LET before == utcOffset(z, wall - SearchReach)
      after == utcOffset(z, wall + SearchReach)
      offsets == {before, after, utcOffset(z, wall - before), utcOffset(z, wall - after)}
      valid == {t \in {wall - o : o \in offsets} : wallAt(t, z) = wall}
  IN IF valid # {} THEN CHOOSE t \in valid : \A u \in valid : t <= u ELSE wall - before

\* workingZone(): the calendars' own when all of them say the same.
workingZone(zones) ==
  IF zones # <<>> /\ zones[1] # NoZone /\ \A i \in DOMAIN zones : zones[i] = zones[1] THEN zones[1] ELSE Utc

-----------------------------------------------------------------------------
(* Busy time *)

\* blocksTime(): not one that is shown as free, cancelled, or declined by
\* every address of the account that it lists.
blocksTime(e) == e.counts /\ ~(e.replies # {} /\ e.replies = {FALSE})

placed(e, t, z) == IF e.floating THEN instantAt(t, z) ELSE t

\* Faulty: an event the clock leaves no time for takes none.
Collapsed(e, z) == [start |-> placed(e, e.from, z), end |-> placed(e, e.to, z)]

\* An event the clock leaves no time for keeps its length.
Busy(e, z) ==
  LET start == placed(e, e.from, z)
      end == placed(e, e.to, z)
  IN [start |-> start, end |-> IF end > start \/ e.from = e.to THEN end ELSE start + (e.to - e.from)]

\* busyTimes(): one that ends before it starts is left out, and said to be.
busyTimes(evs, z) == {Busy(e, z) : e \in {d \in evs : blocksTime(d) /\ d.from <= d.to}}

-----------------------------------------------------------------------------
(* Intervals in order *)

\* busy.sort(): by their starts.
inOrder(set) ==
  CHOOSE s \in [1 .. Cardinality(set) -> set] :
    /\ \A b \in set : \E i \in DOMAIN s : s[i] = b
    /\ \A i, j \in DOMAIN s : i < j => s[i].start <= s[j].start

\* Faulty: an interval within another ends the joint one early.
JoinedEarly(merged, b) ==
  LET n == Len(merged) IN
    IF b.end <= b.start THEN merged
    ELSE IF n > 0 /\ b.start <= merged[n].end THEN [merged EXCEPT ![n] = [start |-> @.start, end |-> b.end]]
    ELSE Append(merged, b)

\* An empty one is dropped, one that overlaps or touches the last is joined.
Joined(merged, b) ==
  LET n == Len(merged) IN
    IF b.end <= b.start THEN merged
    ELSE IF n > 0 /\ b.start <= merged[n].end
         THEN [merged EXCEPT ![n] = [start |-> @.start, end |-> Most(@.end, b.end)]]
    ELSE Append(merged, b)

merge(s) ==
  LET upTo[i \in 0 .. Len(s)] == IF i = 0 THEN <<>> ELSE Joined(upTo[i - 1], s[i])
  IN upTo[Len(s)]

mergeBusy(busy) == merge(inOrder(busy))

-----------------------------------------------------------------------------
(* Slots *)

dayAt(t, z) == wallAt(t, z) \div DayLength

\* One day's hours, cut to the range.
opensAt(q, z, day) == instantAt(day * DayLength + q.opens, z)

windowOf(q, z, day) ==
  [start |-> Most(opensAt(q, z, day), q.from),
   end |-> Least(instantAt(day * DayLength + q.closes, z), q.to)]

\* The days are walked to the first that opens when the range is over.
daysWalked(q, z) ==
  LET first == dayAt(q.from, z)
  IN CHOOSE n \in 0 .. q.to - q.from + 3 :
       opensAt(q, z, first + n) >= q.to /\ \A k \in 0 .. n - 1 : opensAt(q, z, first + k) < q.to

\* searchWindows(): the range, or the working hours of each day on its own
\* clock, two that touch as one.
searchWindows(q, z) ==
  IF ~q.hours THEN <<[start |-> q.from, end |-> q.to]>>
  ELSE merge([i \in 1 .. daysWalked(q, z) |-> windowOf(q, z, dayAt(q.from, z) + i - 1)])

\* A gap is a slot when it is long enough.
Gap(free, from, to, length) == IF to - from >= length THEN Append(free, [start |-> from, end |-> to]) ELSE free

\* One interval of busy time, met by the walk through a window.
Passed(walk, b, window, length) ==
  IF b.end <= walk.cursor \/ b.start >= window.end \/ walk.cursor >= window.end THEN walk
  ELSE [cursor |-> Most(walk.cursor, b.end), free |-> Gap(walk.free, walk.cursor, b.start, length)]

\* The gaps of one window, walked from its start, behind those before it.
slotsIn(free, window, busy, length) ==
  LET walk[i \in 0 .. Len(busy)] ==
        IF i = 0 THEN [cursor |-> window.start, free |-> free]
        ELSE Passed(walk[i - 1], busy[i], window, length)
      done == walk[Len(busy)]
  IN Gap(done.free, done.cursor, window.end, length)

\* freeSlots(): all of them; its limit is the caller's.
freeSlots(busy, q, z) ==
  LET merged == mergeBusy(busy)
      windows == searchWindows(q, z)
      upTo[i \in 0 .. Len(windows)] ==
        IF i = 0 THEN <<>> ELSE slotsIn(upTo[i - 1], windows[i], merged, q.length)
  IN upTo[Len(windows)]

-----------------------------------------------------------------------------

Put(e) ==
  /\ asked = NoQuery /\ Cardinality(events) < MaxEvents
  /\ events' = events \cup {e}
  /\ UNCHANGED <<reported, asked, found>>

\* A search with hours in the wrong order, or no range, is refused.
freeSlotSearch(q) == (q.hours => q.opens < q.closes) /\ q.from < q.to

\* The zone asked for, or the calendars' own.
zoneFor(q) == IF q.zone # NoZone THEN q.zone ELSE workingZone(reported)

\* What is read of an account: as the times are written, without their zone, so
\* from a day before the range to a day after it (inWindow()).
Read(evs, q) ==
  {e \in evs :
     IF e.from < e.to THEN e.from < q.to + DayLength /\ e.to > q.from - DayLength
     ELSE q.from - DayLength <= e.from /\ e.from < q.to + DayLength}

\* The earliest are shown, and that there were more.
Shorten(slots) ==
  [slots |-> SubSeq(slots, 1, Least(MaxSlots, Len(slots))), truncated |-> Len(slots) > MaxSlots]

answerTo(q) ==
  LET z == zoneFor(q) IN Shorten(freeSlots(busyTimes(Read(events, q), z), q, z))

\* find_free_slot, asked once.
Find(q) ==
  /\ asked = NoQuery /\ freeSlotSearch(q)
  /\ asked' = q
  /\ found' = answerTo(q)
  /\ UNCHANGED <<events, reported>>

FreeTimeInit ==
  /\ events = {} /\ reported \in Reports
  /\ asked = NoQuery /\ found = Unasked

FreeTimeNext ==
  \/ \E e \in Events : Put(e)
  \/ \E q \in Queries : Find(q)

-----------------------------------------------------------------------------

Covers(b, t) == b.start <= t /\ t < b.end

\* A clock time that lies in no stretch the clock leaves out or shows twice.
Ordinary(wall, z) ==
  ~(wall > z.at + Least(z.from, z.to) /\ wall < z.at + Most(z.from, z.to))

\* The hours begin and end at such times, on every day between two instants of
\* the range and the one after.
HoursOrdinary(q, z) ==
  q.hours =>
    \A s, t \in q.from .. q.to - 1 : \A day \in dayAt(s, z) .. dayAt(t, z) + 1 :
      Ordinary(day * DayLength + q.opens, z) /\ Ordinary(day * DayLength + q.closes, z)

\* An instant of the range that is within the hours on the local clock and that
\* no event takes.
IsFree(q, z, busy, t) ==
  /\ q.from <= t /\ t < q.to
  /\ q.hours => wallAt(t, z) % DayLength \in q.opens .. q.closes - 1
  /\ \A b \in busy : ~Covers(b, t)

\* The stretches of such instants that are long enough, each as long as it goes
\* on.
Stretches(q, z, busy) ==
  {g \in [start : q.from .. q.to, end : q.from .. q.to] :
     /\ g.end - g.start >= q.length
     /\ \A t \in g.start .. g.end - 1 : IsFree(q, z, busy, t)
     /\ ~IsFree(q, z, busy, g.start - 1) /\ ~IsFree(q, z, busy, g.end)}

\* The slots are those stretches of the account's whole calendar, each whole, in
\* order, and the earliest of them when there are too many, which the answer then
\* says: also on the days the clock changes, and though only a day around the
\* range is read (findFreeSlots()).
SlotsAreWhatIsFree ==
  asked # NoQuery /\ HoursOrdinary(asked, zoneFor(asked)) =>
    LET z == zoneFor(asked)
        all == Stretches(asked, z, busyTimes(events, z))
        shown == {found.slots[i] : i \in DOMAIN found.slots}
    IN /\ shown \subseteq all
       /\ \A i, j \in DOMAIN found.slots : i < j => found.slots[i].end < found.slots[j].start
       /\ \A g \in all \ shown : \A s \in shown : s.end < g.start
       /\ found.truncated <=> all \ shown # {}
       /\ found.truncated => Len(found.slots) = MaxSlots

\* On every clock, an event that takes time and has a length takes some, also at a
\* time the clock leaves out.  One that floats between ordinary clock times takes
\* all the instants that show its times and no others, if there are any
\* (busyTimes()).
EventsTakeTheirTime ==
  \A z \in Zones : \A e \in events : blocksTime(e) /\ e.from < e.to =>
    \E b \in busyTimes(events, z) :
      /\ b.start < b.end
      /\ ~e.floating => b.start = e.from /\ b.end = e.to
      /\ e.floating /\ Ordinary(e.from, z) /\ Ordinary(e.to, z) =>
           LET shows == {t \in -Horizon .. Horizon : wallAt(t, z) \in e.from .. e.to - 1}
           IN shows # {} => \A t \in -Horizon .. Horizon : Covers(b, t) <=> t \in shows

FSpec == FreeTimeInit /\ [][FreeTimeNext]_fvars

=============================================================================
