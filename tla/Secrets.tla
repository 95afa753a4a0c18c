------------------------------ MODULE Secrets ------------------------------
(***************************************************************************)
(* How the two services come to hold one shared secret (shared/secrets.ts, *)
(* resolveSecret and createExclusively): each reads the file at boot and,  *)
(* if there is nothing in it, creates it.  The code is synchronous, so an  *)
(* action is one file operation of one process.                            *)
(*                                                                         *)
(* A boot generates a secret that no other boot generates: <<p, n>> in its *)
(* n-th boot.  Inline is the value of the environment variable, the same   *)
(* for every process that has it.                                          *)
(***************************************************************************)
EXTENDS Integers

CONSTANTS
  Procs,                 \* the services
  Given, Inline,         \* what the operator put into the file, into the environment
  Absent, Blank,         \* no file, a file with nothing in it
  MaxBoots               \* bound: boots of each process, [Procs -> Nat]

ASSUME SecretsAssumption ==
  /\ MaxBoots \in [Procs -> Nat]
  /\ Given # Inline /\ Absent # Blank
  /\ \A v \in {Given, Inline, Absent, Blank} : v \notin Procs \X Nat
  /\ {Given, Inline} \cap {Absent, Blank} = {}

VARIABLES
  secret,   \* what NAME_FILE holds
  procs,    \* the resolveSecret() of each process
  emptied   \* history: a file with a secret in it was removed as blank

secretsVars == <<secret, procs, emptied>>

Values == (UNION {{p} \X (1..MaxBoots[p]) : p \in Procs}) \cup {Given, Inline}

Nothing == {Absent, Blank}

ProcType ==
  [step : {"off", "read", "look", "clear", "link", "adopt", "up", "failed"},
   held : Values \cup {Absent}, inline : BOOLEAN, boots : Nat]

On(p, s) == procs[p].step = s

Go(p, s) == procs' = [procs EXCEPT ![p].step = s]

Hold(p, v) == procs' = [procs EXCEPT ![p].step = "up", ![p].held = v]

BootSecret(p) ==
  /\ On(p, "off")
  /\ procs[p].boots < MaxBoots[p]
  /\ procs' = [procs EXCEPT ![p].step = "read", ![p].boots = @ + 1]
  /\ UNCHANGED <<secret, emptied>>

\* readIfPresent(): a file that holds something always wins.
Read(p) ==
  /\ On(p, "read")
  /\ IF secret \in Nothing THEN Go(p, "look") ELSE Hold(p, secret)
  /\ UNCHANGED <<secret, emptied>>

\* existsSync(): the file that was absent or blank a moment ago is called blank
\* if it is there now.
Look(p) ==
  /\ On(p, "look")
  /\ Go(p, IF secret = Absent THEN "link" ELSE "clear")
  /\ UNCHANGED <<secret, emptied>>

\* removeBlankFile(): whatever is there is removed, and a file that is gone is fine.
Clear(p) ==
  /\ On(p, "clear")
  /\ secret' = Absent
  /\ emptied' = (emptied \/ secret \notin Nothing)
  /\ Go(p, "link")

NewSecret(p) == IF procs[p].inline THEN Inline ELSE <<p, procs[p].boots>>

\* Faulty: the file is written in place, over what another process linked.
LinkOver(p) ==
  /\ On(p, "link")
  /\ secret' = NewSecret(p)
  /\ Hold(p, NewSecret(p))
  /\ UNCHANGED emptied

\* linkSync() of a file written in full: it fails where there is one.
Link(p) ==
  /\ On(p, "link")
  /\ IF secret = Absent
       THEN secret' = NewSecret(p) /\ Hold(p, NewSecret(p))
       ELSE UNCHANGED secret /\ Go(p, "adopt")
  /\ UNCHANGED emptied

\* EEXIST: the winner's secret is read, and an empty or absent one is fatal.
Adopt(p) ==
  /\ On(p, "adopt")
  /\ IF secret \in Nothing THEN Go(p, "failed") ELSE Hold(p, secret)
  /\ UNCHANGED <<secret, emptied>>

\* A file that cannot be read, removed or created is fatal.
Fail(p) ==
  /\ procs[p].step \in {"read", "clear", "link", "adopt"}
  /\ Go(p, "failed")
  /\ UNCHANGED <<secret, emptied>>

\* The process ends, at any point, and what it held is lost.
StopProc(p) ==
  /\ procs[p].step # "off"
  /\ procs' = [procs EXCEPT ![p].step = "off", ![p].held = Absent]
  /\ UNCHANGED <<secret, emptied>>

Resolve(p) ==
  BootSecret(p) \/ Read(p) \/ Look(p) \/ Clear(p) \/ Link(p) \/ Adopt(p) \/ Fail(p)

SecretsInit ==
  /\ secret \in {Absent, Blank, Given}
  /\ procs \in [Procs -> [step : {"off"}, held : {Absent}, inline : BOOLEAN, boots : {0}]]
  /\ emptied = FALSE

SecretsNext == \E p \in Procs : Resolve(p) \/ StopProc(p)

SecretsSpec == SecretsInit /\ [][SecretsNext]_secretsVars

-----------------------------------------------------------------------------
SecretsTypeOK ==
  /\ secret \in Values \cup Nothing
  /\ procs \in [Procs -> ProcType]
  /\ emptied \in BOOLEAN

Agree == \A p, q \in Procs : On(p, "up") /\ On(q, "up") => procs[p].held = procs[q].held

\* Whoever boots first, with or without a value of its own, and whatever stops in
\* between, two services that are up hold one secret: unless one of them found
\* nothing in the file, then found the other's secret there, and removed it.
AgreeUnlessEmptied == emptied \/ Agree

\* Two processes that start together end up with the same bytes (the comment on
\* "raced" in resolveSecret).
BothHoldOne == Agree
=============================================================================
