---------------------------- MODULE MCCalendar ----------------------------
(***************************************************************************)
(* The calendar algorithms for TLC.  They have no state in common, so a    *)
(* behaviour is of one of the three.                                       *)
(***************************************************************************)
EXTENDS Series, GuestList, FreeTime

SomeMoves == {-1, 1}

\* A clock that stays, one put forward, one put back, one put forward by more.
Steady == [at |-> 0, from |-> 0, to |-> 0]
Forward == [at |-> 5, from |-> 1, to |-> 2]
Back == [at |-> 5, from |-> 2, to |-> 1]
Skipping == [at |-> 5, from |-> 0, to |-> 2]
SomeZones == {Steady, Forward, Back, Skipping}

\* Two calendars that agree, one alone, two that disagree.
SomeReports == {<<Forward, Forward>>, <<Back>>, <<Forward, Back>>, <<Skipping>>}

SomeEvents ==
  {[from |-> f, to |-> f + n, floating |-> k, counts |-> TRUE, replies |-> {}] :
     f \in 3 .. 7, n \in {1, 3}, k \in BOOLEAN} \cup
  {[from |-> 4, to |-> 6, floating |-> FALSE, counts |-> c, replies |-> r] :
     c \in BOOLEAN, r \in {{}, {FALSE}, BOOLEAN}} \cup
  {[from |-> 6, to |-> t, floating |-> k, counts |-> TRUE, replies |-> {}] : t \in {4, 6}, k \in BOOLEAN}

Searches(ranges, zones, hours) ==
  {[from |-> r[1], to |-> r[2], zone |-> z, hours |-> h # <<>>,
    opens |-> IF h # <<>> THEN h[1] ELSE 0, closes |-> IF h # <<>> THEN h[2] ELSE 0, length |-> l] :
     r \in ranges, z \in zones, h \in hours, l \in {1, 2}}

\* On the calendars' own clock within some hours, and on one that is asked for,
\* also so early or late that only part of the calendar is read, and with none.
SomeQueries ==
  Searches({<<0, 12>>, <<2, 9>>}, {NoZone}, {<<0, 4>>, <<1, 3>>, <<2, 4>>, <<3, 3>>}) \cup
  Searches({<<0, 6>>, <<10, 13>>}, {Back, Skipping}, {<<>>, <<2, 4>>})

NoSeries == obj = [master |-> None, overrides |-> NoOverrides] /\ writes = 0

NoEvent ==
  /\ vevents = <<>> /\ principal = Nobody /\ mailbox = Nobody
  /\ answer = [named |-> {}, call |-> NoCall, invited |-> {}, cancelled |-> {}, informed |-> {}]

NoCalendar == events = {} /\ reported = <<>> /\ asked = NoQuery /\ found = Unasked

VARIABLE part

Init ==
  \/ part = "series" /\ SeriesInit /\ NoEvent /\ NoCalendar
  \/ part = "guests" /\ GuestsInit /\ NoSeries /\ NoCalendar
  \/ part = "free" /\ FreeTimeInit /\ NoSeries /\ NoEvent

Next ==
  /\ \/ part = "series" /\ SeriesNext /\ UNCHANGED <<gvars, fvars>>
     \/ part = "guests" /\ GuestsNext /\ UNCHANGED <<svars, fvars>>
     \/ part = "free" /\ FreeTimeNext /\ UNCHANGED <<svars, gvars>>
  /\ UNCHANGED part

Spec == Init /\ [][Next]_<<svars, gvars, fvars, part>>
=============================================================================
