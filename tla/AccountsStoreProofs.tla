------------------------ MODULE AccountsStoreProofs ------------------------
(***************************************************************************)
(* Theorems about AccountsStore, for any accounts, forms, reloads and      *)
(* retries.                                                                *)
(*                                                                         *)
(* The invariant has two parts that hardly meet: what the file, memory and *)
(* the clients say of each other (StoreInv), and what the forms and the    *)
(* chain do (FormsInv).  The first is changed by edits, reloads and writes,*)
(* the second by the steps of a form, of which there are four kinds.       *)
(***************************************************************************)
EXTENDS AccountsStore, SequenceTheorems, TLAPS

\* A file that is not there lists nobody.
Emptied(f) == f.kind = "absent" => f.ids = {} /\ f.version = 0

\* What a reload has read was there, and can be parsed.
Sound(f) == Emptied(f) /\ f.version <= count /\ f.kind # "broken"

StoreType ==
  /\ file \in Files /\ memory \in Lists
  /\ count \in Versions /\ file.version <= count /\ memory.version <= count
  /\ pool \in [Ids -> Versions]
  /\ due \in BOOLEAN
  /\ reloads \in [Reloads -> ReloadType] /\ missed \in BOOLEAN
  /\ Emptied(file)
  /\ \A l \in Reloads : Sound(reloads[l].got)

StoreInv == StoreType /\ PoolIsCurrent

InChain(c, f) == \E i \in 1..Len(c) : c[i] = f
Distinct(c) == \A i, j \in 1..Len(c) : c[i] = c[j] => i = j

ChainInv ==
  /\ forms \in [Forms -> FormType] /\ chain \in Seq(Forms)
  /\ \A f \in Forms : forms[f].step \in Mutating <=> InChain(chain, f)
  /\ Distinct(chain)

\* Past the queue, a mutation is the first of the chain.
AtWork(f) == forms[f].step \in {"read", "write", "wait"}
WorksAlone == \A f \in Forms : AtWork(f) => Turn(f)

\* What a form at work would replace, it compared or was warned of.
Compared ==
  \A f \in Forms : forms[f].step \in {"read", "write"} =>
    file.version \in {forms[f].stamp} \cup forms[f].raced

\* The version a form was written from is gone, and nobody else is at work on it.
Spent(v) ==
  /\ v # 0 => file.version # v
  /\ \A g \in Forms : AtWork(g) => v = 0 \/ forms[g].stamp # v

FormsInv ==
  /\ ChainInv /\ WorksAlone /\ Compared
  /\ count \in Versions /\ file.version \in Versions /\ file.version <= count
  /\ \A f \in Forms : forms[f].stamp <= count
  /\ \A f \in Forms : forms[f].landed => At(f, "done") /\ Spent(forms[f].stamp)
  /\ OneWritePerVersion

Inv == StoreInv /\ FormsInv

-----------------------------------------------------------------------------
(* The chain.                                                              *)

LEMMA Appended ==
  ASSUME NEW S, NEW c \in Seq(S), NEW f \in S, Distinct(c), ~InChain(c, f)
  PROVE  /\ Append(c, f) \in Seq(S)
         /\ \A g : InChain(Append(c, f), g) <=> InChain(c, g) \/ g = f
         /\ Distinct(Append(c, f))
         /\ c # <<>> => Append(c, f) # <<>> /\ Head(Append(c, f)) = Head(c)
<1> DEFINE d == Append(c, f)
<1>1. /\ d \in Seq(S) /\ Len(d) = Len(c) + 1 /\ Len(c) \in Nat
      /\ \A i \in 1..Len(c) : d[i] = c[i]
      /\ d[Len(c) + 1] = f
  BY AppendProperties, LenProperties
<1>2. \A i \in 1..Len(d) : i \in 1..Len(c) \/ i = Len(c) + 1
  BY <1>1
<1>3. 1..Len(c) \subseteq 1..Len(d) /\ Len(c) + 1 \in 1..Len(d)
  BY <1>1
<1> HIDE DEF d
<1>4. \A g : InChain(d, g) <=> InChain(c, g) \/ g = f
  BY <1>1, <1>2, <1>3 DEF InChain
<1>5. Distinct(d)
  BY <1>1, <1>2 DEF Distinct, InChain
<1>6. c # <<>> => d # <<>> /\ Head(d) = Head(c)
  <2> SUFFICES ASSUME c # <<>> PROVE d # <<>> /\ Head(d) = Head(c)
    OBVIOUS
  <2>1. Len(c) # 0
    BY EmptySeq
  <2>2. 1 \in 1..Len(c) /\ Len(d) # 0 /\ d # <<>>
    BY <1>1, <2>1, EmptySeq
  <2>3. Head(c) = c[1] /\ Head(d) = d[1]
    BY <1>1, <2>2, HeadTailProperties
  <2> QED BY <1>1, <2>2, <2>3
<1> QED BY <1>1, <1>4, <1>5, <1>6 DEF d

LEMMA Popped ==
  ASSUME NEW S, NEW c \in Seq(S), c # <<>>, Distinct(c)
  PROVE  /\ Tail(c) \in Seq(S)
         /\ \A g : InChain(Tail(c), g) <=> InChain(c, g) /\ g # Head(c)
         /\ Distinct(Tail(c))
         /\ InChain(c, Head(c))
<1> DEFINE d == Tail(c)
<1>1. Len(c) \in Nat /\ Len(c) # 0
  BY EmptySeq, LenProperties
<1>2. /\ d \in Seq(S) /\ Len(d) = Len(c) - 1 /\ Head(c) = c[1]
      /\ \A i \in 1..Len(d) : d[i] = c[i + 1]
  BY <1>1, HeadTailProperties
<1>3. /\ 1 \in 1..Len(c)
      /\ \A i \in 1..Len(d) : i + 1 \in 1..Len(c) /\ i + 1 # 1
      /\ \A i \in 1..Len(c) : i # 1 => i - 1 \in 1..Len(d) /\ (i - 1) + 1 = i
  BY <1>1, <1>2
<1> HIDE DEF d
<1>4. ASSUME NEW g PROVE InChain(d, g) <=> InChain(c, g) /\ g # Head(c)
  <2>1. ASSUME InChain(d, g) PROVE InChain(c, g) /\ g # Head(c)
    <3>1. PICK i \in 1..Len(d) : d[i] = g
      BY <2>1 DEF InChain
    <3>2. c[i + 1] = g /\ c[1] # g
      BY <1>2, <1>3, <3>1 DEF Distinct
    <3> QED BY <1>2, <1>3, <3>2 DEF InChain
  <2>2. ASSUME InChain(c, g), g # Head(c) PROVE InChain(d, g)
    <3>1. PICK i \in 1..Len(c) : c[i] = g
      BY <2>2 DEF InChain
    <3>2. i # 1 /\ d[i - 1] = g
      BY <1>2, <1>3, <2>2, <3>1
    <3> QED BY <1>3, <3>2 DEF InChain
  <2> QED BY <2>1, <2>2
<1>5. Distinct(d)
  <2> SUFFICES ASSUME NEW i \in 1..Len(d), NEW j \in 1..Len(d), d[i] = d[j] PROVE i = j
    BY DEF Distinct
  <2>1. i + 1 = j + 1
    BY <1>2, <1>3 DEF Distinct
  <2> QED BY <2>1
<1>6. InChain(c, Head(c))
  BY <1>2, <1>3 DEF InChain
<1> QED BY <1>2, <1>4, <1>5, <1>6 DEF d

-----------------------------------------------------------------------------
(* The four kinds of steps of a form.                                      *)

\* What every step of a form has in common.
OneForm(f, new) ==
  /\ f \in Forms /\ new \in FormType /\ To(f, new)
  /\ ~new.landed /\ ~forms[f].landed /\ new.stamp <= count
  /\ UNCHANGED <<file, count>>

LEMMA OneFormParts ==
  ASSUME FormsInv, NEW f, NEW new, OneForm(f, new)
  PROVE  /\ forms' \in [Forms -> FormType] /\ forms'[f] = new
         /\ \A g \in Forms : g # f => forms'[g] = forms[g]
         /\ \A g \in Forms : forms'[g].stamp <= count'
         /\ count' \in Versions /\ file'.version \in Versions /\ file'.version <= count'
         /\ OneWritePerVersion'
BY DEF FormsInv, ChainInv, OneForm, To, OneWritePerVersion

\* A form that does not become the one at work keeps the rest of the invariant.
LEMMA OneFormKeeps ==
  ASSUME FormsInv, NEW f, NEW new, OneForm(f, new), ChainInv', WorksAlone',
         new.step \in {"read", "write"} => file.version \in {new.stamp} \cup new.raced,
         new.step \in {"read", "write", "wait"} =>
           \/ AtWork(f) /\ forms[f].stamp = new.stamp
           \/ file.version = new.stamp
  PROVE  FormsInv'
<1>1. /\ forms' \in [Forms -> FormType] /\ forms'[f] = new
      /\ \A g \in Forms : g # f => forms'[g] = forms[g]
      /\ \A g \in Forms : forms'[g].stamp <= count'
      /\ count' \in Versions /\ file'.version \in Versions /\ file'.version <= count'
      /\ OneWritePerVersion'
  BY OneFormParts
<1>2. f \in Forms /\ file' = file /\ count' = count
  BY DEF OneForm
<1>3. Compared'
  BY <1>1, <1>2 DEF FormsInv, Compared
<1>4. ASSUME NEW g \in Forms, forms'[g].landed
      PROVE  forms'[g].step = "done" /\ Spent(forms[g].stamp)' /\ forms'[g].stamp = forms[g].stamp
  <2>1. g # f /\ forms'[g] = forms[g]
    BY <1>1, <1>4 DEF OneForm
  <2>2. forms[g].landed /\ At(g, "done") /\ Spent(forms[g].stamp)
    BY <1>4, <2>1 DEF FormsInv
  <2>3. ASSUME NEW h \in Forms, AtWork(h)'
        PROVE  forms[g].stamp = 0 \/ forms'[h].stamp # forms[g].stamp
    <3>1. CASE h = f
      BY <1>1, <2>2, <2>3, <3>1 DEF AtWork, Spent
    <3>2. CASE h # f
      BY <1>1, <2>2, <2>3, <3>2 DEF AtWork, Spent
    <3> QED BY <3>1, <3>2
  <2> QED BY <1>2, <2>1, <2>2, <2>3 DEF Spent, At
<1> QED
  BY <1>1, <1>3, <1>4 DEF FormsInv, At

\* A page is opened, stamped, shown or given up.
LEMMA PageKeeps ==
  ASSUME FormsInv, NEW f, NEW new, OneForm(f, new),
         forms[f].step \notin Mutating, new.step \notin Mutating, UNCHANGED chain
  PROVE  FormsInv'
<1>1. /\ forms' \in [Forms -> FormType] /\ forms'[f] = new /\ f \in Forms
      /\ \A g \in Forms : g # f => forms'[g] = forms[g]
  BY OneFormParts DEF OneForm
<1>2. ChainInv'
  BY <1>1 DEF FormsInv, ChainInv, InChain, Distinct
<1>3. WorksAlone'
  BY <1>1 DEF FormsInv, WorksAlone, AtWork, Turn, Mutating
<1>4. new.step \notin {"read", "write", "wait"}
  BY DEF Mutating
<1> QED BY <1>2, <1>3, <1>4, OneFormKeeps

\* A form joins the chain.
LEMMA QueueKeeps ==
  ASSUME FormsInv, NEW f, NEW new, OneForm(f, new),
         forms[f].step \notin Mutating, new.step = "queued", chain' = Append(chain, f)
  PROVE  FormsInv'
<1>1. /\ forms' \in [Forms -> FormType] /\ forms'[f] = new /\ f \in Forms
      /\ \A g \in Forms : g # f => forms'[g] = forms[g]
  BY OneFormParts DEF OneForm
<1>2. chain \in Seq(Forms) /\ Distinct(chain) /\ ~InChain(chain, f)
  BY <1>1 DEF FormsInv, ChainInv
<1>3. /\ chain' \in Seq(Forms) /\ Distinct(chain')
      /\ \A g : InChain(chain', g) <=> InChain(chain, g) \/ g = f
      /\ chain # <<>> => chain' # <<>> /\ Head(chain') = Head(chain)
  BY <1>1, <1>2, Appended
<1>4. ChainInv'
  BY <1>1, <1>3 DEF FormsInv, ChainInv, Mutating
<1>5. WorksAlone'
  BY <1>1, <1>3 DEF FormsInv, WorksAlone, AtWork, Turn
<1>6. new.step \notin {"read", "write", "wait"}
  OBVIOUS
<1> QED BY <1>4, <1>5, <1>6, OneFormKeeps

\* The mutation at work goes on.
LEMMA WorkKeeps ==
  ASSUME FormsInv, NEW f, NEW new, OneForm(f, new), UNCHANGED chain,
         Turn(f), forms[f].step \in Mutating, new.step \in {"read", "write", "wait"},
         new.step \in {"read", "write"} => file.version \in {new.stamp} \cup new.raced,
         \/ AtWork(f) /\ forms[f].stamp = new.stamp
         \/ file.version = new.stamp
  PROVE  FormsInv'
<1>1. /\ forms' \in [Forms -> FormType] /\ forms'[f] = new /\ f \in Forms
      /\ \A g \in Forms : g # f => forms'[g] = forms[g]
  BY OneFormParts DEF OneForm
<1>2. ChainInv'
  BY <1>1 DEF FormsInv, ChainInv, InChain, Distinct, Mutating
<1>3. WorksAlone'
  BY <1>1 DEF FormsInv, WorksAlone, AtWork, Turn
<1> QED BY <1>2, <1>3, OneFormKeeps

\* The mutation at work leaves the chain.
LEMMA Leaves ==
  ASSUME FormsInv, NEW f \in Forms, NEW new \in FormType, To(f, new), Settle,
         Turn(f), new.step \notin Mutating
  PROVE  ChainInv' /\ WorksAlone' /\ \A g \in Forms : ~AtWork(g)'
<1>1. /\ forms' \in [Forms -> FormType] /\ forms'[f] = new
      /\ \A g \in Forms : g # f => forms'[g] = forms[g]
  BY DEF FormsInv, ChainInv, To
<1>2. chain \in Seq(Forms) /\ Distinct(chain) /\ chain # <<>> /\ Head(chain) = f
  BY DEF FormsInv, ChainInv, Turn
<1>3. /\ chain' \in Seq(Forms) /\ Distinct(chain')
      /\ \A g : InChain(chain', g) <=> InChain(chain, g) /\ g # f
  BY <1>2, Popped DEF Settle
<1>4. ChainInv'
  BY <1>1, <1>3 DEF FormsInv, ChainInv
<1>5. \A g \in Forms : ~AtWork(g)'
  BY <1>1, <1>2 DEF FormsInv, WorksAlone, AtWork, Turn, Mutating
<1> QED BY <1>4, <1>5 DEF WorksAlone

LEMMA LeaveKeeps ==
  ASSUME FormsInv, NEW f, NEW new, OneForm(f, new), Settle,
         Turn(f), new.step \notin Mutating
  PROVE  FormsInv'
<1>1. ChainInv' /\ WorksAlone'
  BY Leaves DEF OneForm
<1>2. new.step \notin {"read", "write", "wait"}
  BY DEF Mutating
<1> QED BY <1>1, <1>2, OneFormKeeps

-----------------------------------------------------------------------------
(* The steps of the forms.                                                 *)

LEMMA FormFields ==
  ASSUME FormsInv, NEW f \in Forms
  PROVE  /\ forms[f] \in FormType /\ Fresh \in FormType
         /\ file.version \in Versions /\ file.version <= count /\ 0 \in Versions /\ 0 <= count
         /\ forms[f].stamp <= count
         /\ At(f, "done") \/ ~forms[f].landed
         /\ ~Fresh.landed /\ Fresh.stamp = 0
<1>1. 0 \in Versions /\ \A v \in Versions : 0 <= v
  BY StoreAssumption DEF Versions
<1>2. (CHOOSE id \in Ids : TRUE) \in Ids
  BY StoreAssumption
<1>3. Fresh \in FormType
  BY <1>1, <1>2, StoreAssumption DEF Fresh, FormType, Ops
<1> QED
  BY <1>1, <1>3 DEF FormsInv, ChainInv, Fresh

LEMMA OpenKeeps ==
  ASSUME FormsInv, memory \in Lists, NEW f \in Forms, Open(f)
  PROVE  FormsInv'
<1>1. forms[f] \in FormType /\ forms[f].stamp <= count /\ ~forms[f].landed /\ At(f, "idle")
  BY FormFields DEF Open, At
<1>2. PICK new \in FormType : OneForm(f, new) /\ new.step \in Waiting
  <2>1. CASE To(f, [forms[f] EXCEPT !.step = "stamping", !.op = "create"])
    <3>1. [forms[f] EXCEPT !.step = "stamping", !.op = "create"] \in FormType
      BY <1>1 DEF FormType, Ops, Waiting
    <3> QED BY <1>1, <2>1, <3>1 DEF OneForm, Open, FormType, Waiting
  <2>2. ASSUME NEW id \in memory.ids,
               To(f, [forms[f] EXCEPT !.step = "stamping", !.op = "update", !.id = id])
        PROVE  \E new \in FormType : OneForm(f, new) /\ new.step \in Waiting
    <3>1. id \in Ids
      BY DEF Lists
    <3>2. [forms[f] EXCEPT !.step = "stamping", !.op = "update", !.id = id] \in FormType
      BY <1>1, <3>1 DEF FormType, Ops, Waiting
    <3> QED BY <1>1, <2>2, <3>2 DEF OneForm, Open, FormType, Waiting
  <2>3. CASE To(f, [forms[f] EXCEPT !.step = "listing"])
    <3>1. [forms[f] EXCEPT !.step = "listing"] \in FormType
      BY <1>1 DEF FormType, Waiting
    <3> QED BY <1>1, <2>3, <3>1 DEF OneForm, Open, FormType, Waiting
  <2> QED BY <2>1, <2>2, <2>3 DEF Open
<1> QED BY <1>1, <1>2, PageKeeps DEF Open, At, Waiting, Mutating

LEMMA FinishKeeps ==
  ASSUME FormsInv, NEW f \in Forms, ~forms[f].landed, forms[f].step \notin Mutating,
         Finish(f), UNCHANGED <<file, count, chain>>
  PROVE  FormsInv'
<1>1. [Fresh EXCEPT !.step = "done"] \in FormType
  BY FormFields DEF FormType
<1>2. OneForm(f, [Fresh EXCEPT !.step = "done"])
  BY <1>1, FormFields DEF OneForm, Finish, Fresh
<1> QED BY <1>2, PageKeeps DEF Mutating, Fresh

LEMMA StampedKeeps ==
  ASSUME FormsInv, NEW f \in Forms, Stamped(f)
  PROVE  FormsInv'
<1>1. /\ forms[f] \in FormType /\ forms[f].step \in Waiting
      /\ file.version \in Versions /\ file.version <= count /\ 0 \in Versions
      /\ UNCHANGED <<file, count, chain>>
  BY FormFields DEF Stamped, At, Waiting
<1>2. ~forms[f].landed /\ forms[f].step \notin Mutating
  BY <1>1, FormFields DEF At, Waiting, Mutating
<1>3. ASSUME NEW step \in {"form", "list"},
             To(f, [forms[f] EXCEPT !.step = step, !.stamp = Stamp])
      PROVE  FormsInv'
  <2> DEFINE new == [forms[f] EXCEPT !.step = step, !.stamp = Stamp]
  <2>1. new \in FormType /\ new.step \notin Mutating /\ new.stamp = file.version /\ ~new.landed
    BY <1>1, <1>2 DEF FormType, Stamp, Mutating
  <2>2. OneForm(f, new)
    BY <1>1, <1>2, <1>3, <2>1 DEF OneForm
  <2> HIDE DEF new
  <2> QED BY <1>1, <1>2, <2>1, <2>2, PageKeeps
<1>4. CASE Finish(f)
  BY <1>1, <1>2, <1>4, FinishKeeps
<1> QED BY <1>3, <1>4 DEF Stamped

LEMMA ListedKeeps ==
  ASSUME FormsInv, memory \in Lists, NEW f \in Forms, Listed(f)
  PROVE  FormsInv'
<1>1. /\ forms[f] \in FormType /\ forms[f].step \notin Mutating /\ ~forms[f].landed
      /\ forms[f].stamp <= count /\ UNCHANGED <<file, count, chain>>
  BY FormFields DEF Listed, At, Mutating
<1>2. ASSUME NEW op \in {"remove", "setDefault"}, NEW id \in memory.ids,
             To(f, [forms[f] EXCEPT !.step = "form", !.op = op, !.id = id])
      PROVE  FormsInv'
  <2>1. [forms[f] EXCEPT !.step = "form", !.op = op, !.id = id] \in FormType
    BY <1>1 DEF FormType, Ops, Lists
  <2>2. OneForm(f, [forms[f] EXCEPT !.step = "form", !.op = op, !.id = id])
    BY <1>1, <1>2, <2>1 DEF OneForm, FormType
  <2>3. [forms[f] EXCEPT !.step = "form", !.op = op, !.id = id].step \notin Mutating
    BY <1>1 DEF FormType, Mutating
  <2> QED BY <1>1, <2>2, <2>3, PageKeeps
<1>3. CASE Finish(f)
  BY <1>1, <1>3, FinishKeeps
<1> QED BY <1>2, <1>3 DEF Listed

LEMMA SubmitKeeps ==
  ASSUME FormsInv, NEW f \in Forms, Submit(f)
  PROVE  FormsInv'
<1>1. /\ forms[f] \in FormType /\ forms[f].step \notin Mutating /\ ~forms[f].landed
      /\ forms[f].stamp <= count /\ UNCHANGED <<file, count>>
  BY FormFields DEF Submit, At, Mutating
<1>2. ASSUME NEW id \in Ids, Queue(f, id) PROVE FormsInv'
  <2>1. [forms[f] EXCEPT !.step = "queued", !.id = id] \in FormType
    BY <1>1 DEF FormType, Mutating
  <2>2. OneForm(f, [forms[f] EXCEPT !.step = "queued", !.id = id])
    BY <1>1, <1>2, <2>1 DEF OneForm, FormType, Queue
  <2>3. [forms[f] EXCEPT !.step = "queued", !.id = id].step = "queued"
    BY <1>1 DEF FormType
  <2> QED BY <1>1, <1>2, <2>2, <2>3, QueueKeeps DEF Queue
<1>3. CASE Finish(f) /\ UNCHANGED chain
  BY <1>1, <1>3, FinishKeeps
<1>4. forms[f].id \in Ids
  BY <1>1 DEF FormType
<1> QED BY <1>2, <1>3, <1>4 DEF Submit

\* A refused submission goes back to its page, or a fault ends it.
LEMMA RefusedKeeps ==
  ASSUME FormsInv, NEW f \in Forms, Turn(f), forms[f].step \in Mutating,
         UNCHANGED <<file, count>>, Fault(f) \/ Back(f, TRUE) \/ Back(f, FALSE)
  PROVE  FormsInv'
<1>1. /\ forms[f] \in FormType /\ Fresh \in FormType /\ forms[f].stamp <= count
      /\ ~forms[f].landed /\ ~Fresh.landed /\ Fresh.stamp = 0 /\ 0 <= count
  BY FormFields DEF At, Mutating
<1> DEFINE page == [Fresh EXCEPT !.op = forms[f].op, !.id = forms[f].id]
<1>2. page \in FormType /\ ~page.landed /\ page.stamp = 0
  BY <1>1 DEF FormType
<1> HIDE DEF page
<1>3. PICK new : To(f, new) /\ Settle /\
             new \in {[Fresh EXCEPT !.step = "done"], [Fresh EXCEPT !.step = "listing"],
                      [page EXCEPT !.step = "stamping"],
                      [page EXCEPT !.step = "form", !.stamp = forms[f].stamp]}
  BY DEF Fault, Finish, Back, page
<1>4. new \in FormType /\ ~new.landed /\ new.step \notin Mutating /\ new.stamp <= count
  <2>1. CASE new = [Fresh EXCEPT !.step = "done"]
    BY <1>1, <2>1 DEF FormType, Mutating
  <2>2. CASE new = [Fresh EXCEPT !.step = "listing"]
    BY <1>1, <2>2 DEF FormType, Mutating, Waiting
  <2>3. CASE new = [page EXCEPT !.step = "stamping"]
    BY <1>1, <1>2, <2>3 DEF FormType, Mutating, Waiting
  <2>4. CASE new = [page EXCEPT !.step = "form", !.stamp = forms[f].stamp]
    BY <1>1, <1>2, <2>4 DEF FormType, Mutating
  <2> QED BY <1>3, <2>1, <2>2, <2>3, <2>4
<1>5. OneForm(f, new)
  BY <1>1, <1>3, <1>4 DEF OneForm
<1> QED BY <1>3, <1>4, <1>5, LeaveKeeps

\* The stamp agrees: at work, and what it would replace is what it was rendered from.
LEMMA AgreedKeeps ==
  ASSUME FormsInv, NEW f \in Forms, Turn(f), forms[f].step \in Mutating,
         Stamp = forms[f].stamp, UNCHANGED <<file, count, chain>>,
         \/ To(f, [forms[f] EXCEPT !.step = "read", !.raced = {}, !.tries = 0])
         \/ To(f, [forms[f] EXCEPT !.step = "write", !.raced = {}])
  PROVE  FormsInv'
<1>1. forms[f] \in FormType /\ forms[f].stamp <= count /\ ~forms[f].landed
  BY FormFields DEF At, Mutating
<1>2. PICK new : To(f, new) /\
             new \in {[forms[f] EXCEPT !.step = "read", !.raced = {}, !.tries = 0],
                      [forms[f] EXCEPT !.step = "write", !.raced = {}]}
  OBVIOUS
<1>3. /\ new \in FormType /\ ~new.landed /\ new.step \in {"read", "write"}
      /\ new.stamp = forms[f].stamp
  <2>1. 0 \in 0..MaxTries
    BY StoreAssumption
  <2> QED BY <1>1, <1>2, <2>1, ZenonT(60) DEF FormType, Mutating
<1>4. OneForm(f, new)
  BY <1>1, <1>2, <1>3 DEF OneForm
<1> QED BY <1>3, <1>4, WorkKeeps DEF Stamp

LEMMA CheckKeeps ==
  ASSUME FormsInv, NEW f \in Forms, Check(f)
  PROVE  FormsInv'
<1>1. Turn(f) /\ forms[f].step \in Mutating /\ UNCHANGED <<file, count>>
  BY DEF Check, At, Mutating
<1> QED BY <1>1, AgreedKeeps, RefusedKeeps DEF Check, Stale

LEMMA RetryKeeps ==
  ASSUME FormsInv, NEW f \in Forms, Retry(f)
  PROVE  FormsInv'
<1>1. Turn(f) /\ forms[f].step \in Mutating /\ UNCHANGED <<file, count>>
  BY DEF Retry, At, Mutating
<1> QED BY <1>1, AgreedKeeps, RefusedKeeps DEF Retry, Stale

LEMMA ApplyKeeps ==
  ASSUME FormsInv, file \in Files, NEW f \in Forms, Apply(f)
  PROVE  FormsInv'
<1>1. /\ Turn(f) /\ forms[f].step = "read" /\ forms[f].step \in Mutating /\ AtWork(f)
      /\ UNCHANGED <<file, count>>
  BY DEF Apply, At, Mutating, AtWork
<1>2. forms[f] \in FormType /\ forms[f].stamp <= count /\ ~forms[f].landed
  BY <1>1, FormFields DEF At
<1> DEFINE next == Change(forms[f].op, forms[f].id, file.ids)
           new == [forms[f] EXCEPT !.step = "write", !.next = next]
<1>3. CASE To(f, new) /\ UNCHANGED chain
  <2>1. next \in SUBSET Ids
    BY <1>2 DEF Change, FormType, Files
  <2> HIDE DEF next
  <2>2. new \in FormType /\ ~new.landed /\ new.step = "write" /\ new.stamp = forms[f].stamp
        /\ new.raced = forms[f].raced
    BY <1>2, <2>1 DEF FormType, Mutating
  <2> HIDE DEF new
  <2>3. OneForm(f, new)
    BY <1>1, <1>2, <1>3, <2>2 DEF OneForm
  <2>4. file.version \in {new.stamp} \cup new.raced
    BY <1>1, <2>2 DEF FormsInv, Compared
  <2> QED BY <1>1, <1>3, <2>2, <2>3, <2>4, WorkKeeps
<1>4. CASE Back(f, FALSE) \/ Fault(f)
  BY <1>1, <1>4, RefusedKeeps
<1> QED BY <1>3, <1>4 DEF Apply

LEMMA BusyKeeps ==
  ASSUME FormsInv, NEW f \in Forms, Busy(f)
  PROVE  FormsInv'
<1>1. /\ Turn(f) /\ forms[f].step = "write" /\ forms[f].step \in Mutating /\ AtWork(f)
      /\ forms[f].tries < MaxTries /\ UNCHANGED <<file, count, chain>>
  BY DEF Busy, At, Mutating, AtWork
<1>2. forms[f] \in FormType /\ forms[f].stamp <= count /\ ~forms[f].landed
  BY <1>1, FormFields DEF At
<1>3. forms[f].tries + 1 \in 0..MaxTries
  BY <1>1, <1>2, StoreAssumption DEF FormType
<1> DEFINE new == [forms[f] EXCEPT !.step = "wait", !.tries = @ + 1, !.raced = {}]
<1>4. new \in FormType /\ ~new.landed /\ new.step = "wait" /\ new.stamp = forms[f].stamp
  BY <1>2, <1>3 DEF FormType, Mutating
<1>5. To(f, new)
  BY DEF Busy
<1> HIDE DEF new
<1>6. OneForm(f, new)
  BY <1>1, <1>2, <1>4, <1>5 DEF OneForm
<1> QED BY <1>1, <1>4, <1>6, WorkKeeps

LEMMA FailKeeps ==
  ASSUME FormsInv, NEW f \in Forms, Fail(f)
  PROVE  FormsInv'
<1>1. Turn(f) /\ forms[f].step \in Mutating /\ UNCHANGED <<file, count>>
  BY DEF Fail, At, Mutating
<1> QED BY <1>1, RefusedKeeps DEF Fail

-----------------------------------------------------------------------------
(* The file changes.                                                       *)

\* A version never seen before, or none: nobody's stamp is spent by it again.
NewVersion == file'.version = 0 \/ file'.version = count + 1

LEMMA ByHand ==
  ASSUME FormsInv, count < MaxVersions, count' = count + 1, NewVersion,
         Raced(file'.version), UNCHANGED chain
  PROVE  FormsInv'
<1> DEFINE v == file'.version
<1>1. /\ count \in Nat /\ count' \in Versions /\ v \in Versions /\ v <= count' /\ count <= count'
      /\ \A s \in Versions : s <= count => s <= count' /\ (s # 0 => v # s)
  BY StoreAssumption DEF FormsInv, Versions, NewVersion
<1> HIDE DEF v
<1>2. ASSUME NEW f \in Forms
      PROVE  /\ forms'[f] \in FormType
             /\ forms'[f].step = forms[f].step /\ forms'[f].stamp = forms[f].stamp
             /\ forms'[f].landed = forms[f].landed
             /\ forms[f].step \in {"read", "write"} => v \in forms'[f].raced
  <2>1. forms[f] \in FormType
    BY DEF FormsInv, ChainInv
  <2>2. CASE forms[f].step \in {"read", "write"}
    <3>1. forms'[f] = [forms[f] EXCEPT !.raced = @ \cup {v}]
      BY <2>2 DEF Raced, v
    <3> QED BY <1>1, <2>1, <3>1 DEF FormType
  <2>3. CASE forms[f].step \notin {"read", "write"}
    <3>1. forms'[f] = forms[f]
      BY <2>3 DEF Raced
    <3> QED BY <2>1, <2>3, <3>1
  <2> QED BY <2>2, <2>3
<1>3. forms' \in [Forms -> FormType]
  <2>1. forms' = [f \in Forms |-> forms'[f]]
    BY DEF Raced
  <2> QED BY <1>2, <2>1
<1>4. ChainInv'
  BY <1>2, <1>3 DEF FormsInv, ChainInv, InChain, Distinct
<1>5. WorksAlone' /\ \A f \in Forms : AtWork(f)' <=> AtWork(f)
  BY <1>2 DEF FormsInv, WorksAlone, AtWork, Turn
<1>6. Compared'
  BY <1>2 DEF Compared, v
<1>7. \A f \in Forms : forms[f].stamp \in Versions /\ forms[f].stamp <= count
  BY DEF FormsInv, ChainInv, FormType
<1>8. ASSUME NEW f \in Forms, forms'[f].landed
      PROVE  forms'[f].step = "done" /\ Spent(forms[f].stamp)' /\ forms'[f].stamp = forms[f].stamp
  BY <1>1, <1>2, <1>5, <1>7, <1>8 DEF FormsInv, Spent, At, v
<1>9. OneWritePerVersion'
  BY <1>2 DEF FormsInv, OneWritePerVersion
<1>10. \A f \in Forms : forms'[f].stamp <= count'
  BY <1>1, <1>2, <1>7
<1> QED
  BY <1>1, <1>2, <1>4, <1>5, <1>6, <1>8, <1>9, <1>10 DEF FormsInv, At, v

LEMMA LandedKeeps ==
  ASSUME FormsInv, NEW f \in Forms, Landed(f)
  PROVE  FormsInv'
<1> DEFINE new == [Fresh EXCEPT !.step = "done", !.stamp = forms[f].stamp, !.landed = TRUE]
<1>1. /\ Turn(f) /\ forms[f].step = "write" /\ AtWork(f) /\ To(f, new) /\ Settle
      /\ count < MaxVersions /\ count' = count + 1 /\ file'.version = count + 1
  BY DEF Landed, At, AtWork, Put
<1>2. /\ forms[f] \in FormType /\ Fresh \in FormType /\ forms[f].stamp <= count
      /\ ~forms[f].landed
  BY <1>1, FormFields DEF At
<1>3. /\ new \in FormType /\ new.step = "done" /\ new.stamp = forms[f].stamp /\ new.landed
      /\ new.step \notin Mutating
  BY <1>2 DEF FormType, Mutating
<1> HIDE DEF new
<1>4. ChainInv' /\ WorksAlone' /\ \A g \in Forms : ~AtWork(g)'
  BY <1>1, <1>3, Leaves
<1>5. forms'[f] = new /\ \A g \in Forms : g # f => forms'[g] = forms[g]
  BY <1>1 DEF FormsInv, ChainInv, To
<1>6. /\ count' \in Versions /\ file'.version \in Versions /\ file'.version <= count'
      /\ \A s \in Versions : s <= count => s <= count' /\ file'.version # s
  BY <1>1, StoreAssumption DEF FormsInv, Versions
<1>7. \A g \in Forms : forms'[g].stamp \in Versions /\ forms'[g].stamp <= count
  BY <1>2, <1>3, <1>5 DEF FormsInv, ChainInv, FormType
<1>8. Compared'
  BY <1>4 DEF Compared, AtWork
<1>9. \A g \in Forms : forms'[g].landed => forms'[g].step = "done" /\ Spent(forms[g].stamp)'
  BY <1>3, <1>4, <1>5, <1>6, <1>7 DEF FormsInv, Spent, At
<1>10. \A g \in Forms : g # f /\ forms[g].landed =>
         forms[g].stamp = 0 \/ forms[f].stamp # forms[g].stamp
  BY <1>1 DEF FormsInv, Spent
<1>11. OneWritePerVersion'
  BY <1>3, <1>5, <1>10 DEF FormsInv, OneWritePerVersion
<1>12. \A g \in Forms : forms'[g].stamp = forms[g].stamp
  BY <1>3, <1>5
<1> QED
  BY <1>4, <1>6, <1>7, <1>8, <1>9, <1>11, <1>12 DEF FormsInv, At

-----------------------------------------------------------------------------
(* The file, memory and the clients.                                       *)

LEMMA EditedStore ==
  ASSUME StoreInv, Edit \/ Unlink
  PROVE  StoreInv'
<1>1. /\ count < MaxVersions /\ count' = count + 1 /\ due' = TRUE
      /\ UNCHANGED <<memory, pool, loads>>
  BY DEF Edit, Unlink, Watch
<1>2. /\ count \in Nat /\ count' \in Versions /\ count <= count' /\ 0 \in Versions /\ 0 <= count'
      /\ \A v \in Versions : v <= count => v <= count'
  BY <1>1, StoreAssumption DEF StoreInv, StoreType, Versions
<1>3. file' \in Files /\ file'.version <= count' /\ Emptied(file')
  <2>1. CASE Edit
    <3>1. PICK kind \in {"ok", "broken"}, ids \in SUBSET Ids :
            file' = [kind |-> kind, version |-> count + 1, ids |-> ids]
      BY <2>1 DEF Edit
    <3> QED BY <1>1, <1>2, <3>1 DEF Files, Emptied
  <2>2. CASE Unlink
    BY <1>2, <2>2 DEF Unlink, Nothing, Files, Emptied
  <2> QED BY <2>1, <2>2
<1>4. \A l \in Reloads : Sound(reloads[l].got)'
  <2>1. \A l \in Reloads : reloads[l].got.version \in Versions
    BY DEF StoreInv, StoreType, ReloadType, Files
  <2> QED BY <1>1, <1>2, <2>1 DEF StoreInv, StoreType, Sound, loads
<1>5. memory.version \in Versions
  BY DEF StoreInv, StoreType, Lists
<1> QED
  BY <1>1, <1>2, <1>3, <1>4, <1>5 DEF StoreInv, StoreType, PoolIsCurrent, loads

LEMMA FiredStore ==
  ASSUME StoreInv, NEW l \in Reloads, Fire(l)
  PROVE  StoreInv'
<1>1. due' = FALSE /\ missed' = FALSE /\ UNCHANGED <<file, count, memory, pool>>
  BY DEF Fire
<1>2. ASSUME NEW k \in Reloads
      PROVE  reloads'[k] \in ReloadType /\ Sound(reloads[k].got)'
  <2>1. reloads[k] \in ReloadType /\ Sound(reloads[k].got)
    BY DEF StoreInv, StoreType
  <2>2. CASE k = l
    <3>1. reloads'[k] = [Unread EXCEPT !.step = "reading", !.had = memory.ids # {}, !.last = TRUE]
      BY <2>2 DEF Fire
    <3>2. reloads'[k] \in ReloadType /\ reloads'[k].got = Nothing
      <4>1. Unread \in ReloadType /\ Unread.got = Nothing
        BY StoreAssumption DEF Unread, ReloadType, Nothing, Files, Versions
      <4> QED BY <3>1, <4>1 DEF ReloadType
    <3>3. 0 <= count
      BY StoreAssumption DEF StoreInv, StoreType, Versions
    <3> QED BY <1>1, <3>2, <3>3 DEF Nothing, Emptied, Sound
  <2>3. CASE k # l
    <3>1. reloads'[k] = [reloads[k] EXCEPT !.last = FALSE]
      BY <2>3 DEF Fire
    <3>2. reloads'[k] \in ReloadType /\ reloads'[k].got = reloads[k].got
      BY <2>1, <3>1 DEF ReloadType
    <3> QED BY <1>1, <2>1, <3>2 DEF Sound, Emptied
  <2> QED BY <2>2, <2>3
<1>3. reloads' \in [Reloads -> ReloadType]
  <2>1. reloads' = [k \in Reloads |-> reloads'[k]]
    BY DEF Fire
  <2> QED BY <1>2, <2>1
<1> QED
  BY <1>1, <1>2, <1>3 DEF StoreInv, StoreType, PoolIsCurrent

LEMMA ReadStore ==
  ASSUME StoreInv, NEW l \in Reloads, ReadFile(l)
  PROVE  StoreInv'
<1>1. /\ reloads[l] \in ReloadType /\ file \in Files
      /\ reloads' = [reloads EXCEPT ![l] = [reloads[l] EXCEPT !.step = "read", !.got = file]]
      /\ UNCHANGED <<file, count, memory, pool, due, missed>> /\ Sound(file)
  BY DEF ReadFile, Sound, StoreInv, StoreType
<1>2. /\ [reloads[l] EXCEPT !.step = "read", !.got = file] \in ReloadType
      /\ [reloads[l] EXCEPT !.step = "read", !.got = file].got = file
  BY <1>1 DEF ReloadType
<1>3. \A k \in Reloads : Sound(reloads[k].got)'
  BY <1>1, <1>2 DEF StoreInv, StoreType, Sound, Emptied
<1> QED
  BY <1>1, <1>2, <1>3 DEF StoreInv, StoreType, PoolIsCurrent

\* A reload is over.
LEMMA OverStore ==
  ASSUME StoreInv, NEW l \in Reloads, reloads' = [reloads EXCEPT ![l] = Unread],
         UNCHANGED count
  PROVE  /\ reloads' \in [Reloads -> ReloadType]
         /\ \A k \in Reloads : Sound(reloads[k].got)'
<1>1. Unread \in ReloadType /\ Sound(Unread.got)
  BY StoreAssumption
     DEF Unread, Nothing, ReloadType, Files, Versions, Emptied, Sound, StoreInv, StoreType
<1> QED
  BY <1>1 DEF StoreInv, StoreType, Sound, Emptied

LEMMA FailedStore ==
  ASSUME StoreInv, NEW l \in Reloads, ReadFails(l)
  PROVE  StoreInv'
<1>1. /\ reloads' \in [Reloads -> ReloadType]
      /\ \A k \in Reloads : Sound(reloads[k].got)'
  BY OverStore DEF ReadFails
<1>2. missed' \in BOOLEAN
  BY DEF ReadFails
<1> QED
  BY <1>1, <1>2 DEF ReadFails, StoreInv, StoreType, PoolIsCurrent

LEMMA Dropped ==
  ASSUME StoreInv, Drop
  PROVE  pool' \in [Ids -> Versions] /\ \A id \in Ids : pool'[id] = 0
BY StoreAssumption DEF Drop, Versions

LEMMA ReloadedStore ==
  ASSUME StoreInv, NEW l \in Reloads, Reloaded(l)
  PROVE  StoreInv'
<1> DEFINE got == reloads[l].got
<1>1. /\ got \in Files /\ Emptied(got) /\ got.version <= count /\ got.kind # "broken"
      /\ UNCHANGED <<file, count, due>> /\ missed' \in BOOLEAN
  BY DEF StoreInv, StoreType, ReloadType, Reloaded, Sound
<1>2. /\ reloads' \in [Reloads -> ReloadType]
      /\ \A k \in Reloads : Sound(reloads[k].got)'
  BY OverStore DEF Reloaded
<1>3. memory' = Listing(got) /\ Notify(got.kind, reloads[l].had)
  BY DEF Reloaded
<1> HIDE DEF got
<1>4. memory' \in Lists /\ memory'.version <= count'
  BY <1>1, <1>3 DEF Lists, Files, Listing
<1>5. pool' \in [Ids -> Versions] /\ PoolIsCurrent'
  <2>1. CASE Drop
    <3>1. memory'.ids \subseteq Ids
      BY <1>4 DEF Lists
    <3> QED BY <2>1, <3>1, Dropped DEF PoolIsCurrent
  <2>2. CASE got.kind # "ok" /\ UNCHANGED pool
    <3>1. memory'.ids = {}
      BY <1>1, <1>3, <2>2 DEF Files, Emptied, Listing
    <3> QED BY <2>2, <3>1 DEF StoreInv, StoreType, PoolIsCurrent
  <2> QED BY <1>3, <2>1, <2>2 DEF Notify
<1> QED
  BY <1>1, <1>2, <1>4, <1>5 DEF StoreInv, StoreType

LEMMA UsedStore ==
  ASSUME StoreInv, NEW id \in Ids, Use(id)
  PROVE  StoreInv'
BY DEF StoreInv, StoreType, Use, PoolIsCurrent, Lists, loads, Sound, Emptied

LEMMA LandedStore ==
  ASSUME StoreInv, FormsInv, NEW f \in Forms, Landed(f)
  PROVE  StoreInv'
<1>1. forms[f].next \in SUBSET Ids
  BY DEF FormsInv, ChainInv, FormType
<1>2. /\ count < MaxVersions /\ count' = count + 1 /\ due' = TRUE /\ UNCHANGED loads
      /\ file' = [kind |-> "ok", version |-> count + 1, ids |-> forms[f].next]
      /\ memory' = [version |-> count + 1, ids |-> forms[f].next]
  BY DEF Landed, Put, Watch
<1>3. /\ count' \in Versions
      /\ \A v \in Versions : v <= count => v <= count'
  BY <1>2, StoreAssumption DEF StoreInv, StoreType, Versions
<1>4. file' \in Files /\ memory' \in Lists /\ Emptied(file')
      /\ file'.version <= count' /\ memory'.version <= count'
  BY <1>1, <1>2, <1>3 DEF Files, Lists, Emptied, Versions
<1>5. pool' \in [Ids -> Versions] /\ PoolIsCurrent'
  BY <1>1, <1>2, Dropped DEF Landed, PoolIsCurrent
<1>6. \A l \in Reloads : Sound(reloads[l].got)'
  <2>1. \A l \in Reloads : reloads[l].got.version \in Versions
    BY DEF StoreInv, StoreType, ReloadType, Files
  <2> QED BY <1>2, <1>3, <2>1 DEF StoreInv, StoreType, Sound, loads
<1> QED
  BY <1>2, <1>3, <1>4, <1>5, <1>6 DEF StoreInv, StoreType, loads

-----------------------------------------------------------------------------
(* The invariant.                                                          *)

\* What the steps of a page and of a mutation that has not landed leave alone.
StoreStands == UNCHANGED <<file, count, memory, pool, due, loads>>

LEMMA Standing ==
  ASSUME StoreInv, StoreStands
  PROVE  StoreInv'
BY DEF StoreInv, StoreType, PoolIsCurrent, StoreStands, loads, Sound, Emptied

LEMMA FormsStanding ==
  ASSUME FormsInv, UNCHANGED <<file, count, forms, chain>>
  PROVE  FormsInv'
BY DEF FormsInv, ChainInv, InChain, Distinct, WorksAlone, AtWork, Turn, Compared, Spent,
       OneWritePerVersion, At

LEMMA InitInv == Init => Inv
<1> SUFFICES ASSUME Init PROVE Inv
  OBVIOUS
<1>1. /\ 0 \in Versions /\ 1 \in Versions /\ 0 <= 1 /\ 0 \in 0..MaxTries
  BY StoreAssumption DEF Versions
<1>2. file \in Files /\ Emptied(file) /\ file.version \in {0, 1}
  BY <1>1 DEF Init, Nothing, Files, Emptied
<1>3. Unread \in ReloadType /\ Emptied(Unread.got) /\ Unread.got.version = 0
      /\ Unread.got.kind = "absent"
  BY <1>1 DEF Unread, Nothing, ReloadType, Files, Emptied
<1>4. StoreInv
  <2>1. /\ count = 1 /\ memory = [version |-> file.version, ids |-> file.ids]
        /\ pool = [id \in Ids |-> 0] /\ due = FALSE
        /\ reloads = [l \in Reloads |-> Unread] /\ missed = FALSE
    BY DEF Init, Listing
  <2>2. file.ids \in SUBSET Ids /\ file.version \in Versions /\ file.version <= 1
    BY <1>1, <1>2 DEF Files
  <2>3. memory \in Lists /\ memory.version <= 1
    BY <2>1, <2>2 DEF Lists
  <2>4. \A l \in Reloads : Sound(reloads[l].got)
    BY <1>1, <1>3, <2>1 DEF Sound
  <2>5. pool \in [Ids -> Versions] /\ PoolIsCurrent
    BY <1>1, <2>1, <2>3 DEF PoolIsCurrent, Lists
  <2> QED
    BY <1>1, <1>2, <1>3, <2>1, <2>2, <2>3, <2>4, <2>5 DEF StoreInv, StoreType
<1>5. (CHOOSE id \in Ids : TRUE) \in Ids
  BY StoreAssumption
<1>6. /\ Fresh \in FormType /\ Fresh.step = "idle" /\ ~Fresh.landed /\ Fresh.stamp = 0
  BY <1>1, <1>5 DEF Fresh, FormType, Ops
<1>7. chain = <<>> /\ chain \in Seq(Forms) /\ 1..Len(chain) = {}
  BY DEF Init
<1>8. ChainInv
  BY <1>6, <1>7 DEF Init, ChainInv, InChain, Distinct, Mutating
<1>9. FormsInv
  BY <1>1, <1>2, <1>6, <1>8 DEF Init, FormsInv, WorksAlone, AtWork, Compared, OneWritePerVersion
<1> QED BY <1>4, <1>9 DEF Inv

LEMMA StepInv == Inv /\ [Next]_vars => Inv'
<1> SUFFICES ASSUME Inv, [Next]_vars PROVE Inv'
  OBVIOUS
<1> USE DEF Inv
<1>1. CASE Edit \/ Unlink
  <2>1. FormsInv'
    <3>1. /\ count < MaxVersions /\ count' = count + 1 /\ UNCHANGED chain
          /\ NewVersion /\ Raced(file'.version)
      BY <1>1 DEF Edit, Unlink, Nothing, NewVersion
    <3> QED BY <3>1, ByHand
  <2> QED BY <1>1, <2>1, EditedStore
<1>2. ASSUME NEW l \in Reloads, Fire(l) \/ Load(l) PROVE Inv'
  <2>1. FormsInv'
    BY <1>2, FormsStanding DEF Fire, Load, ReadFile, ReadFails, Reloaded
  <2> QED BY <1>2, <2>1, FiredStore, ReadStore, FailedStore, ReloadedStore DEF Load
<1>3. ASSUME NEW id \in Ids, Use(id) PROVE Inv'
  <2>1. FormsInv'
    BY <1>3, FormsStanding DEF Use
  <2> QED BY <1>3, <2>1, UsedStore
<1>4. ASSUME NEW f \in Forms, Landed(f) PROVE Inv'
  BY <1>4, LandedKeeps, LandedStore
<1>5. ASSUME NEW f \in Forms,
             Open(f) \/ Submit(f) \/ Page(f) \/ Check(f) \/ Apply(f) \/ Busy(f) \/ Retry(f) \/ Fail(f)
      PROVE  Inv'
  <2>1. StoreInv'
    <3>1. StoreStands
      BY <1>5 DEF StoreStands, Open, Submit, Page, Stamped, Listed, Check, Apply, Busy, Retry, Fail
    <3> QED BY <3>1, Standing
  <2>2. memory \in Lists /\ file \in Files
    BY DEF StoreInv, StoreType
  <2>3. FormsInv'
    BY <1>5, <2>2, OpenKeeps, SubmitKeeps, StampedKeeps, ListedKeeps, CheckKeeps, ApplyKeeps,
       BusyKeeps, RetryKeeps, FailKeeps DEF Page
  <2> QED BY <2>1, <2>3
<1>6. CASE UNCHANGED vars
  BY <1>6, Standing, FormsStanding DEF vars, StoreStands, loads
<1> QED
  BY <1>1, <1>2, <1>3, <1>4, <1>5, <1>6 DEF Next, Mutate, Quiet

LEMMA Always == Spec => []Inv
BY InitInv, StepInv, PTL DEF Spec

-----------------------------------------------------------------------------
(* Theorems.                                                               *)

\* Types; the chain holds the mutations under way, each once (accounts.ts, writeChain).
THEOREM TypeCorrect == Spec => []TypeOK
<1>1. Inv => TypeOK
  BY DEF Inv, StoreInv, StoreType, FormsInv, ChainInv, InChain, Distinct, TypeOK
<1> QED BY <1>1, Always, PTL

\* Of the forms rendered from one version at most one is written (accounts.ts, mutate).
THEOREM OneWrites == Spec => []OneWritePerVersion
<1>1. Inv => OneWritePerVersion
  BY DEF Inv, FormsInv
<1> QED BY <1>1, Always, PTL

\* Clients in use were built from the accounts in memory (client-pool.ts, resetAll).
THEOREM ClientsCurrent == Spec => []PoolIsCurrent
<1>1. Inv => PoolIsCurrent
  BY DEF Inv, StoreInv
<1> QED BY <1>1, Always, PTL

\* Only a rename that lands makes a form's write land.
LEMMA OnlyLanding ==
  ASSUME FormsInv, Next, NEW f \in Forms, ~forms[f].landed, forms'[f].landed
  PROVE  Landed(f)
<1>1. forms \in [Forms -> FormType]
  BY DEF FormsInv, ChainInv
<1>2. ASSUME NEW g \in Forms, NEW new, To(g, new), new.landed => forms[g].landed PROVE FALSE
  BY <1>1, <1>2 DEF To
<1>4. ~UNCHANGED forms
  OBVIOUS
<1>5. ~(Edit \/ Unlink)
  BY <1>1 DEF Edit, Unlink, Raced, FormType
<1>6. ASSUME NEW g \in Forms, Open(g) \/ Submit(g) \/ Stamped(g) \/ Busy(g) PROVE FALSE
  <2>1. forms[g] \in FormType
    BY <1>1
  <2>2. CASE Open(g)
    BY <1>2, <2>1, <2>2 DEF Open, FormType
  <2>3. CASE Submit(g)
    BY <1>2, <2>1, <2>3 DEF Submit, Queue, Finish, Fresh, FormType
  <2>4. CASE Stamped(g)
    BY <1>2, <2>1, <2>4 DEF Stamped, Finish, Fresh, FormType
  <2>5. CASE Busy(g)
    BY <1>2, <2>1, <2>5 DEF Busy, FormType
  <2> QED BY <1>6, <2>2, <2>3, <2>4, <2>5
<1>7. ASSUME NEW g \in Forms, Fault(g) \/ Back(g, TRUE) \/ Back(g, FALSE) PROVE FALSE
  BY <1>2, <1>7 DEF Fault, Finish, Back, Fresh
<1>8. ASSUME NEW g \in Forms, Listed(g) \/ Check(g) \/ Apply(g) \/ Retry(g) \/ Fail(g) PROVE FALSE
  <2>1. forms[g] \in FormType
    BY <1>1
  <2>2. CASE Listed(g)
    BY <1>2, <2>1, <2>2 DEF Listed, Finish, Fresh, FormType
  <2>3. CASE Check(g)
    BY <1>2, <1>7, <2>1, <2>3 DEF Check, Stale, FormType
  <2>4. CASE Apply(g)
    BY <1>2, <1>7, <2>1, <2>4 DEF Apply, FormType
  <2>5. CASE Retry(g)
    BY <1>2, <1>7, <2>1, <2>5 DEF Retry, Stale, FormType
  <2>6. CASE Fail(g)
    BY <1>7, <2>6 DEF Fail
  <2> QED BY <1>8, <2>2, <2>3, <2>4, <2>5, <2>6
<1>9. ASSUME NEW g \in Forms, Landed(g) PROVE g = f
  <2>1. ~forms'[f].landed \/ g = f
    BY <1>1, <1>9 DEF Landed, To
  <2> QED BY <2>1
<1>10. ASSUME NEW l \in Reloads, Fire(l) \/ Load(l) PROVE FALSE
  BY <1>4, <1>10 DEF Fire, Load, ReadFile, ReadFails, Reloaded
<1>11. ASSUME NEW id \in Ids, Use(id) PROVE FALSE
  BY <1>4, <1>11 DEF Use
<1>12. ~Quiet
  BY <1>4 DEF Quiet, vars
<1> QED
  BY <1>5, <1>6, <1>8, <1>9, <1>10, <1>11, <1>12 DEF Next, Page, Mutate

\* No retry of a busy rename replaces a hand edit saved while it waited
\* (accounts-writer.ts, stillCurrent).
THEOREM EditsAreKept == Spec => EditsSurvive
<1>1. Inv /\ [Next]_vars =>
        [\A f \in Forms : ~forms[f].landed /\ forms'[f].landed =>
           file.version \in {forms[f].stamp} \cup forms[f].raced]_vars
  <2> SUFFICES ASSUME Inv, Next, NEW f \in Forms, ~forms[f].landed, forms'[f].landed
               PROVE  file.version \in {forms[f].stamp} \cup forms[f].raced
    OBVIOUS
  <2>1. forms[f].step = "write"
    BY OnlyLanding DEF Inv, Landed, At
  <2> QED BY <2>1 DEF Inv, FormsInv, Compared
<1> QED BY <1>1, Always, PTL DEF Spec, EditsSurvive

-----------------------------------------------------------------------------
(* Memory follows the file.                                                *)

\* With nothing due, the reload that began last reads what the file holds, or has read it,
\* or has ended and memory is that, but for the two exceptions.
Caught ==
  /\ \A l \in Reloads : reloads[l].last => reloads[l].step # "idle"
  /\ \A l, k \in Reloads : reloads[l].last /\ reloads[k].last => l = k
  /\ \A l \in Reloads : ~due /\ reloads[l].last /\ reloads[l].step = "read" =>
       reloads[l].got = file
  /\ ~due /\ (\A l \in Reloads : ~reloads[l].last) =>
       missed \/ file.kind = "broken" \/ memory = Listing(file)

LEMMA StepCaught == Inv /\ Caught /\ [Next]_vars => Caught'
<1> SUFFICES ASSUME Inv, Caught, [Next]_vars PROVE Caught'
  OBVIOUS
<1>1. reloads \in [Reloads -> ReloadType] /\ due \in BOOLEAN /\ missed \in BOOLEAN
  BY DEF Inv, StoreInv, StoreType
<1>2. CASE due' /\ UNCHANGED loads
  BY <1>2 DEF Caught, loads
<1>3. ASSUME NEW l \in Reloads, Fire(l) PROVE Caught'
  <2>1. ~due' /\ reloads'[l].step = "reading" /\ reloads'[l].last
    BY <1>1, <1>3 DEF Fire, Unread
  <2>2. \A k \in Reloads : k # l => ~reloads'[k].last
    BY <1>1, <1>3 DEF Fire, ReloadType
  <2> QED BY <2>1, <2>2 DEF Caught
<1>4. ASSUME NEW l \in Reloads, ReadFile(l) PROVE Caught'
  <2>1. /\ reloads'[l].step = "read" /\ reloads'[l].got = file
        /\ reloads'[l].last = reloads[l].last
        /\ \A k \in Reloads : k # l => reloads'[k] = reloads[k]
    BY <1>1, <1>4 DEF ReadFile, ReloadType
  <2> QED BY <1>4, <2>1 DEF Caught, ReadFile
<1>5. ASSUME NEW l \in Reloads, reloads' = [reloads EXCEPT ![l] = Unread], UNCHANGED <<file, due>>,
             ~due /\ (\A k \in Reloads : k # l => ~reloads[k].last) =>
               missed' \/ file.kind = "broken" \/ memory' = Listing(file)
      PROVE  Caught'
  <2>1. ~reloads'[l].last /\ \A k \in Reloads : k # l => reloads'[k] = reloads[k]
    BY <1>1, <1>5 DEF Unread
  <2> QED BY <1>5, <2>1 DEF Caught
<1>6. ASSUME NEW l \in Reloads, ReadFails(l) PROVE Caught'
  <2>1. ~due /\ (\A k \in Reloads : k # l => ~reloads[k].last) =>
          missed' \/ file.kind = "broken" \/ memory' = Listing(file)
    BY <1>1, <1>6 DEF ReadFails, Caught
  <2> QED BY <1>5, <1>6, <2>1 DEF ReadFails
<1>7. ASSUME NEW l \in Reloads, Reloaded(l) PROVE Caught'
  <2>1. ~due /\ (\A k \in Reloads : k # l => ~reloads[k].last) =>
          missed' \/ file.kind = "broken" \/ memory' = Listing(file)
    <3> SUFFICES ASSUME ~due, \A k \in Reloads : k # l => ~reloads[k].last, ~missed'
                 PROVE  file.kind = "broken" \/ memory' = Listing(file)
      OBVIOUS
    <3>1. CASE reloads[l].last
      BY <1>7, <3>1 DEF Reloaded, Caught
    <3>2. CASE ~reloads[l].last
      <4>1. \A k \in Reloads : ~reloads[k].last
        BY <3>2
      <4>2. ~missed /\ memory' = memory
        BY <1>1, <1>7, <4>1 DEF Reloaded
      <4> QED BY <4>1, <4>2 DEF Caught
    <3> QED BY <3>1, <3>2
  <2> QED BY <1>5, <1>7, <2>1 DEF Reloaded
<1>8. CASE UNCHANGED <<file, memory, due, loads>>
  BY <1>8 DEF Caught, loads
<1>9. ASSUME NEW f \in Forms, Landed(f) PROVE due' /\ UNCHANGED loads
  BY <1>9 DEF Landed, Put, Watch
<1>10. ASSUME Edit \/ Unlink PROVE due' /\ UNCHANGED loads
  BY <1>10 DEF Edit, Unlink, Watch
<1>11. ASSUME NEW f \in Forms,
              Open(f) \/ Submit(f) \/ Page(f) \/ Check(f) \/ Apply(f) \/ Busy(f) \/ Retry(f) \/ Fail(f)
       PROVE  UNCHANGED <<file, memory, due, loads>>
  BY <1>11 DEF Open, Submit, Page, Stamped, Listed, Check, Apply, Busy, Retry, Fail
<1>12. ASSUME NEW id \in Ids, Use(id) PROVE UNCHANGED <<file, memory, due, loads>>
  BY <1>12 DEF Use
<1>13. UNCHANGED vars => UNCHANGED <<file, memory, due, loads>>
  BY DEF vars
<1> QED
  BY <1>2, <1>3, <1>4, <1>6, <1>7, <1>8, <1>9, <1>10, <1>11, <1>12, <1>13
     DEF Next, Load, Mutate, Quiet

\* With no reload due or running, memory is what a readable file holds, but after a read
\* that failed or a reload that was overtaken (accounts.ts, the watcher, reload and
\* applyMutation).
THEOREM MemoryFollows == Spec => []QuietMemoryIsCurrent
<1>1. Init => Caught
  BY DEF Init, Caught, Unread
<1>2. Caught => QuietMemoryIsCurrent
  BY DEF Caught, QuietMemoryIsCurrent, Idle
<1> QED BY <1>1, <1>2, StepCaught, Always, PTL DEF Spec
=============================================================================
