---------------------------- MODULE AccountsStore ----------------------------
(***************************************************************************)
(* accounts.json: the file, the accounts in memory, the watcher that loads *)
(* it again, the settings forms that write it and the clients built from   *)
(* it (src/accounts.ts, accounts-writer.ts, client-pool.ts and the mailbox *)
(* routes of settings-routes.ts).                                          *)
(*                                                                         *)
(* What the file held is named by a version: every change of it, by hand   *)
(* or by a form, is the next one.  Of its contents the ids are kept.  A    *)
(* form is one page and what is submitted from it; its steps are the       *)
(* stretches between two awaits.  The order of the accounts and which is   *)
(* the default are left out.                                               *)
(***************************************************************************)
EXTENDS Integers, Sequences

CONSTANTS
  Ids,         \* account ids
  Forms,       \* pages opened
  Reloads,     \* slots of the reloads under way at once
  MaxTries,    \* RENAME_RETRY_DELAYS_MS.length
  MaxVersions  \* bound: changes of the file

ASSUME StoreAssumption == Ids # {} /\ MaxTries \in Nat /\ MaxVersions \in Nat \ {0}

VARIABLES
  file,     \* what the path holds
  count,    \* versions so far
  memory,   \* accounts, byId
  pool,     \* the version an account's clients were built from; 0: not built
  due,      \* the watcher's debounce timer is pending
  reloads,  \* reload() calls under way
  missed,   \* history: the read that began last failed, or an overtaken one was loaded after it
  forms,
  chain     \* writeChain: the mutations queued, the one at work first

loads == <<reloads, missed>>
vars == <<file, count, memory, pool, due, loads, forms, chain>>

Versions == 0..MaxVersions
Files == [kind : {"ok", "broken", "absent"}, version : Versions, ids : SUBSET Ids]
Lists == [version : Versions, ids : SUBSET Ids]
Nothing == [kind |-> "absent", version |-> 0, ids |-> {}]

Listing(f) == [version |-> f.version, ids |-> f.ids]

ReloadType ==
  [ step : {"idle", "reading", "read"},
    had  : BOOLEAN,   \* there were accounts when it began
    got  : Files,
    last : BOOLEAN ]  \* history: none began after it

\* new, edit, delete and default forms.
Ops == {"create", "update", "remove", "setDefault"}
Waiting == {"listing", "stamping"}
Mutating == {"queued", "read", "write", "wait"}

FormType ==
  [ step   : {"idle", "list", "form", "done"} \cup Waiting \cup Mutating,
    op     : Ops,
    id     : Ids,
    stamp  : Versions,
    raced  : SUBSET Versions,  \* changes since the stamp was last compared
    next   : SUBSET Ids,       \* what it is writing
    tries  : 0..MaxTries,
    landed : BOOLEAN ]

Fresh == [ step |-> "idle", op |-> "create", id |-> CHOOSE id \in Ids : TRUE, stamp |-> 0,
           raced |-> {}, next |-> {}, tries |-> 0, landed |-> FALSE ]

Unread == [step |-> "idle", had |-> FALSE, got |-> Nothing, last |-> FALSE]

-----------------------------------------------------------------------------
(* The file and what follows a change of it.                               *)

\* readStamp(): "absent" for every absent file.
Stamp == file.version

\* Faulty: an event while a reload runs is taken for its own.
WatchIdly == due' = (due \/ \A l \in Reloads : reloads[l].step = "idle")

\* The directory's watcher sees a change of the file and starts the timer anew.
Watch == due' = TRUE

Put(ids) ==
  /\ file' = [kind |-> "ok", version |-> count + 1, ids |-> ids]
  /\ count' = count + 1
  /\ Watch

\* onChange: resetAll() drops every client.
Drop == pool' = [id \in Ids |-> 0]

\* The file changes after a form's stamp was compared and before its rename.
Raced(v) ==
  forms' = [f \in Forms |->
    IF forms[f].step \in {"read", "write"}
    THEN [forms[f] EXCEPT !.raced = @ \cup {v}] ELSE forms[f]]

\* Somebody saves the file, well formed or not.
Edit ==
  /\ count < MaxVersions
  /\ \E kind \in {"ok", "broken"}, ids \in SUBSET Ids :
       /\ kind = "broken" => ids = {}
       /\ file' = [kind |-> kind, version |-> count + 1, ids |-> ids]
  /\ count' = count + 1
  /\ Raced(count + 1)
  /\ Watch
  /\ UNCHANGED <<memory, pool, loads, chain>>

\* Somebody removes the file.
Unlink ==
  /\ file.kind # "absent" /\ count < MaxVersions
  /\ file' = Nothing
  /\ count' = count + 1
  /\ Raced(0)
  /\ Watch
  /\ UNCHANGED <<memory, pool, loads, chain>>

-----------------------------------------------------------------------------
(* Loading.                                                                *)

\* The reload that begins next; which of the free slots has it says nothing.
Free == CHOOSE l \in Reloads : reloads[l].step = "idle"

\* The debounce timer fires: reload() remembers what was loaded and reads, whatever
\* reload still runs.
Fire(l) ==
  /\ due /\ reloads[l].step = "idle" /\ l = Free
  /\ due' = FALSE
  /\ reloads' = [k \in Reloads |->
       IF k = l THEN [Unread EXCEPT !.step = "reading", !.had = memory.ids # {}, !.last = TRUE]
       ELSE [reloads[k] EXCEPT !.last = FALSE]]
  /\ missed' = FALSE
  /\ UNCHANGED <<file, count, memory, pool, forms, chain>>

ReadFile(l) ==
  /\ reloads[l].step = "reading" /\ file.kind # "broken"
  /\ reloads' = [reloads EXCEPT ![l].step = "read", ![l].got = file]
  /\ UNCHANGED <<file, count, memory, pool, due, missed, forms, chain>>

\* What was read does not parse, or the read fails with anything but ENOENT: it is logged,
\* memory stays, and nobody reads again.
ReadFails(l) ==
  /\ reloads[l].step = "reading"
  /\ reloads' = [reloads EXCEPT ![l] = Unread]
  /\ missed' = (missed \/ reloads[l].last)
  /\ UNCHANGED <<file, count, memory, pool, due, forms, chain>>

Notify(kind, had) == IF kind = "ok" \/ had THEN Drop ELSE UNCHANGED pool

\* What was read is loaded, also by a reload that others overtook.
Reloaded(l) ==
  LET got == reloads[l].got
  IN  /\ reloads[l].step = "read"
      /\ reloads' = [reloads EXCEPT ![l] = Unread]
      /\ memory' = Listing(got)
      /\ Notify(got.kind, reloads[l].had)
      /\ missed' = (missed \/ (memory' # memory /\ \A k \in Reloads : ~reloads[k].last))
      /\ UNCHANGED <<file, count, due, forms, chain>>

\* A tool call takes an account's clients.
Use(id) ==
  /\ id \in memory.ids /\ pool[id] = 0
  /\ pool' = [pool EXCEPT ![id] = memory.version]
  /\ UNCHANGED <<file, count, memory, due, loads, forms, chain>>

-----------------------------------------------------------------------------
(* Pages.                                                                  *)

At(f, step) == forms[f].step = step
To(f, form) == forms' = [forms EXCEPT ![f] = form]
Finish(f) == To(f, [Fresh EXCEPT !.step = "done"])

\* The edit page takes the account from memory and then awaits the stamp; the page of
\* a new mailbox shows none; the list awaits the stamp first.
Open(f) ==
  /\ At(f, "idle")
  /\ \/ To(f, [forms[f] EXCEPT !.step = "stamping", !.op = "create"])
     \/ \E id \in memory.ids :
          To(f, [forms[f] EXCEPT !.step = "stamping", !.op = "update", !.id = id])
     \/ To(f, [forms[f] EXCEPT !.step = "listing"])
  /\ UNCHANGED <<file, count, memory, pool, due, loads, chain>>

\* The stamp is read, or it cannot be and the page is an error.
Stamped(f) ==
  /\ \/ /\ At(f, "stamping")
        /\ To(f, [forms[f] EXCEPT !.step = "form", !.stamp = Stamp])
     \/ /\ At(f, "listing")
        /\ To(f, [forms[f] EXCEPT !.step = "list", !.stamp = Stamp])
     \/ forms[f].step \in Waiting /\ Finish(f)
  /\ UNCHANGED <<file, count, memory, pool, due, loads, chain>>

\* The list is rendered, and one of its buttons is what will be pressed.
Listed(f) ==
  /\ At(f, "list")
  /\ \/ \E op \in {"remove", "setDefault"}, id \in memory.ids :
          To(f, [forms[f] EXCEPT !.step = "form", !.op = op, !.id = id])
     \/ memory.ids = {} /\ Finish(f)
  /\ UNCHANGED <<file, count, memory, pool, due, loads, chain>>

\* mutate(): behind the mutations already queued.
Queue(f, id) ==
  /\ To(f, [forms[f] EXCEPT !.step = "queued", !.id = id])
  /\ chain' = Append(chain, f)

\* A form is submitted.  A button writes at once.  An account is probed first, which holds
\* nothing but the request: a page whose probe is under way, or has failed, stands as it was.
Submit(f) ==
  /\ At(f, "form")
  /\ \/ /\ forms[f].op = "create"
        /\ \E id \in Ids : Queue(f, id)
     \/ forms[f].op # "create" /\ Queue(f, forms[f].id)
     \/ /\ forms[f].op = "update" /\ forms[f].id \notin memory.ids
        /\ Finish(f)
        /\ UNCHANGED chain
  /\ UNCHANGED <<file, count, memory, pool, due, loads>>

-----------------------------------------------------------------------------
(* applyMutation().                                                        *)

Turn(f) == chain # <<>> /\ Head(chain) = f

Settle == chain' = Tail(chain)

\* A submission refused comes back on its page: with a new stamp if the file changed, with
\* the old one if the change was refused.  A button's page is the list again.
Back(f, stale) ==
  LET page == [Fresh EXCEPT !.op = forms[f].op, !.id = forms[f].id]
  IN  /\ \/ /\ forms[f].op \in {"create", "update"}
            /\ To(f, IF stale THEN [page EXCEPT !.step = "stamping"]
                     ELSE [page EXCEPT !.step = "form", !.stamp = forms[f].stamp])
         \/ /\ forms[f].op \in {"remove", "setDefault"}
            /\ To(f, [Fresh EXCEPT !.step = "listing"])
      /\ Settle

Stale(f) == Back(f, TRUE)

\* An error that is not about the form ends it.
Fault(f) == Finish(f) /\ Settle

\* Faulty: the stamp is compared while the mutations before it still run.
CheckAtOnce(f) ==
  /\ At(f, "queued")
  /\ \/ /\ Stamp = forms[f].stamp
        /\ To(f, [forms[f] EXCEPT !.step = "read", !.raced = {}, !.tries = 0])
        /\ UNCHANGED chain
     \/ Turn(f) /\ Stamp # forms[f].stamp /\ Stale(f)
     \/ Turn(f) /\ Fault(f)
  /\ UNCHANGED <<file, count, memory, pool, due, loads>>

\* The stamp is read and compared; the path may not be readable.
Check(f) ==
  /\ Turn(f) /\ At(f, "queued")
  /\ \/ /\ Stamp = forms[f].stamp
        /\ To(f, [forms[f] EXCEPT !.step = "read", !.raced = {}, !.tries = 0])
        /\ UNCHANGED chain
     \/ Stamp # forms[f].stamp /\ Stale(f)
     \/ Fault(f)
  /\ UNCHANGED <<file, count, memory, pool, due, loads>>

\* What the changes refuse, and what they make of the accounts.
Allowed(op, id, ids) == (op = "create") <=> id \notin ids
Change(op, id, ids) ==
  CASE op = "create" -> ids \cup {id}
    [] op = "remove" -> ids \ {id}
    [] OTHER -> ids

\* The file is read and changed, or not: a file that does not parse is a fault for a button
\* and a refusal for a form.  A read that fails is a fault for both.
Apply(f) ==
  LET allowed == Allowed(forms[f].op, forms[f].id, file.ids)
  IN  /\ Turn(f) /\ At(f, "read")
      /\ \/ /\ file.kind # "broken" /\ allowed
            /\ To(f, [forms[f] EXCEPT !.step = "write",
                                      !.next = Change(forms[f].op, forms[f].id, file.ids)])
            /\ UNCHANGED chain
         \/ file.kind # "broken" /\ ~allowed /\ Back(f, FALSE)
         \/ /\ file.kind = "broken"
            /\ IF forms[f].op \in {"create", "update"} THEN Back(f, FALSE) ELSE Fault(f)
         \/ Fault(f)
      /\ UNCHANGED <<file, count, memory, pool, due, loads>>

\* The new file is renamed into place, and memory follows.
Landed(f) ==
  /\ Turn(f) /\ At(f, "write") /\ count < MaxVersions
  /\ Put(forms[f].next)
  /\ memory' = [version |-> count + 1, ids |-> forms[f].next]
  /\ Drop
  /\ To(f, [Fresh EXCEPT !.step = "done", !.stamp = forms[f].stamp, !.landed = TRUE])
  /\ Settle
  /\ UNCHANGED loads

\* Somebody holds the file open.
Busy(f) ==
  /\ Turn(f) /\ At(f, "write") /\ forms[f].tries < MaxTries
  /\ To(f, [forms[f] EXCEPT !.step = "wait", !.tries = @ + 1, !.raced = {}])
  /\ UNCHANGED <<file, count, memory, pool, due, loads, chain>>

\* Faulty: the wait is not followed by a look at the file.
RetryBlind(f) ==
  /\ Turn(f) /\ At(f, "wait")
  /\ To(f, [forms[f] EXCEPT !.step = "write"]) /\ UNCHANGED chain
  /\ UNCHANGED <<file, count, memory, pool, due, loads>>

Retry(f) ==
  /\ Turn(f) /\ At(f, "wait")
  /\ \/ /\ Stamp = forms[f].stamp
        /\ To(f, [forms[f] EXCEPT !.step = "write", !.raced = {}])
        /\ UNCHANGED chain
     \/ Stamp # forms[f].stamp /\ Stale(f)
     \/ Fault(f)
  /\ UNCHANGED <<file, count, memory, pool, due, loads>>

\* Faulty: a failure poisons the chain.
FailStuck(f) ==
  /\ Turn(f) /\ At(f, "write")
  /\ Finish(f)
  /\ UNCHANGED <<file, count, memory, pool, due, loads, chain>>

\* The disk refuses, or the file was busy once too often.
Fail(f) ==
  /\ Turn(f) /\ At(f, "write")
  /\ Fault(f)
  /\ UNCHANGED <<file, count, memory, pool, due, loads>>

-----------------------------------------------------------------------------

Init ==
  /\ \E ids \in SUBSET Ids : file \in {Nothing, [kind |-> "ok", version |-> 1, ids |-> ids]}
  /\ count = 1
  /\ memory = Listing(file)
  /\ pool = [id \in Ids |-> 0]
  /\ due = FALSE
  /\ reloads = [l \in Reloads |-> Unread]
  /\ missed = FALSE
  /\ forms = [f \in Forms |-> Fresh]
  /\ chain = <<>>

Load(l) == ReadFile(l) \/ ReadFails(l) \/ Reloaded(l)
Page(f) == Stamped(f) \/ Listed(f)
Mutate(f) == Check(f) \/ Apply(f) \/ Landed(f) \/ Busy(f) \/ Retry(f) \/ Fail(f)

\* Every page is done with and nothing is to load.
Quiet ==
  /\ ~due /\ \A l \in Reloads : reloads[l].step = "idle"
  /\ \A f \in Forms : At(f, "done")
  /\ UNCHANGED vars

Next ==
  \/ Edit \/ Unlink
  \/ \E l \in Reloads : Fire(l) \/ Load(l)
  \/ \E id \in Ids : Use(id)
  \/ \E f \in Forms : Open(f) \/ Submit(f) \/ Page(f) \/ Mutate(f)
  \/ Quiet

Spec == Init /\ [][Next]_vars

-----------------------------------------------------------------------------

\* The chain holds the mutations under way, each once.
TypeOK ==
  /\ file \in Files /\ memory \in Lists
  /\ count \in Versions /\ file.version <= count /\ memory.version <= count
  /\ pool \in [Ids -> Versions]
  /\ due \in BOOLEAN
  /\ reloads \in [Reloads -> ReloadType] /\ missed \in BOOLEAN
  /\ forms \in [Forms -> FormType]
  /\ chain \in Seq(Forms)
  /\ \A f \in Forms : forms[f].step \in Mutating <=> \E i \in 1..Len(chain) : chain[i] = f
  /\ \A i, j \in 1..Len(chain) : chain[i] = chain[j] => i = j

\* With no reload due or running, memory is what a readable file holds
\* (accounts.ts: the watcher, reload() and applyMutation()): whatever forms wrote and
\* hands edited while a reload was reading, no older list stays.  Two things the code
\* does not promise are excepted (missed): nobody tries again after a read that failed with
\* anything but ENOENT (accounts.ts:239, 458), and the timer's reloads are not queued
\* (accounts.ts:458), so that one overtaken by the next can load its older list last.
Idle == ~due /\ \A l \in Reloads : reloads[l].step = "idle"
QuietMemoryIsCurrent ==
  Idle /\ file.kind # "broken" /\ ~missed => memory = Listing(file)

\* A form never replaces a change of the file made before its stamp was last
\* compared, nor one made while a busy file was waited out (accounts-writer.ts:46).
EditsSurvive ==
  [][\A f \in Forms : ~forms[f].landed /\ forms'[f].landed =>
       file.version \in {forms[f].stamp} \cup forms[f].raced]_vars

\* Of the forms rendered from one version of the file at most one is written
\* (accounts.ts: writeChain), unless the file was absent.
OneWritePerVersion ==
  \A f, g \in Forms :
    forms[f].landed /\ forms[g].landed /\ forms[f].stamp = forms[g].stamp =>
      f = g \/ forms[f].stamp = 0

\* Clients in use were built from the accounts in memory (client-pool.ts).
PoolIsCurrent == \A id \in memory.ids : pool[id] \in {0, memory.version}

\* Mutations are answered one after the other, whatever became of those before: the
\* chain is empty again or goes on (accounts.ts: "a failure must not poison later writes").
MutationsEnd == <>[](chain # <<>>) => []<><<chain' # chain>>_vars
=============================================================================
