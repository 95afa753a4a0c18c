--------------------------- MODULE MCCalDavWrites ---------------------------
(***************************************************************************)
(* The calendar client for TLC: what becomes of one change on the server,  *)
(* and what calls at the same time share.  A behaviour is of one of them.  *)
(***************************************************************************)
EXTENDS CalDavWrites, CalDavCalls

SomeObjects ==
  {[in |-> "work", data |-> d, declined |-> None] : d \in {"whole", "partly", "hangs"}} \cup
  {[in |-> "home", data |-> "none", declined |-> None]} \cup
  {[in |-> "home", data |-> "whole", declined |-> a] : a \in {Principal, Mailbox}}

SomeAsked == {<<"home">>, <<"home", "work", "home">>}

NoWrite == server = None /\ objs = None /\ late = {} /\ call = [kind |-> "none", outcome |-> "none"] /\ texts = 0 /\ unseen = {} /\ given = {} /\ did = None

NoCalls == client = "new" /\ addresses = None /\ listing = {} /\ sender = {} /\ calls = [c \in Callers |-> Idle]

VARIABLE part

TheInit ==
  \/ part = "write" /\ Init /\ NoCalls
  \/ part = "calls" /\ CallsInit /\ NoWrite

TheNext ==
  /\ \/ part = "write" /\ Next /\ UNCHANGED cvars
     \/ part = "calls" /\ CallsNext /\ UNCHANGED vars
  /\ UNCHANGED part

TheSpec == TheInit /\ [][TheNext]_<<vars, cvars, part>>
=============================================================================
