-------------------------- MODULE StateFileProofs --------------------------
(***************************************************************************)
(* StateFile for every set of states and every order they come in: its     *)
(* types, that no save is forgotten, that a tidy shutdown loses nothing,   *)
(* and that the file never goes back to an older state.                    *)
(***************************************************************************)
EXTENDS StateFile, SequenceTheorems, TLAPS

\* The file, the writes queued and memory hold states in the order the store
\* came to hold them.
Ordered ==
  /\ <<disk, mem>> \in Later
  /\ \A i \in 1..Len(chain) :
       /\ <<disk, chain[i]>> \in Later
       /\ <<chain[i], mem>> \in Later
       /\ \A j \in i..Len(chain) : <<chain[i], chain[j]>> \in Later

\* With nothing due, the last write queued is of what memory holds; with none
\* queued either, the file holds it unless the last write failed.
Current ==
  ~due => IF chain = <<>> THEN failed \/ disk = mem ELSE chain[Len(chain)] = mem

Inv ==
  /\ TypeOK
  /\ Running => Ordered /\ Current
  /\ phase = "closing" /\ tidy => ~due /\ awaited = Len(chain)
  /\ phase = "off" => chain = <<>> /\ ~due /\ awaited = 0
  /\ CloseKeepsAll

-----------------------------------------------------------------------------
LEMMA InitInv == Init => Inv
<1> SUFFICES ASSUME Init PROVE Inv
  OBVIOUS
<1>1. <<>> \in Seq(States) /\ Len(<<>>) = 0
  OBVIOUS
<1>2. TypeOK
  <2>1. awaited \in 0..Len(chain)
    BY <1>1 DEF Init
  <2> QED
    BY <1>1, <2>1, FileAssumption DEF Init, TypeOK
<1>3. Ordered /\ Current
  BY <1>1, FileAssumption DEF Init, Ordered, Current
<1> QED
  BY <1>2, <1>3 DEF Init, Inv, Running, CloseKeepsAll

LEMMA SaveInv ==
  ASSUME Inv, NEW d \in States, <<mem, d>> \in Later, Save(d)
  PROVE  Inv'
<1>1. TypeOK'
  BY DEF Inv, TypeOK, Save
<1>2. Ordered'
  <2>1. disk \in States /\ mem \in States /\ \A i \in 1..Len(chain) : chain[i] \in States
    BY DEF Inv, TypeOK
  <2>2. Ordered /\ mem' = d /\ UNCHANGED <<disk, chain>>
    BY DEF Inv, Save
  <2>3. \A e \in States : <<e, mem>> \in Later => <<e, d>> \in Later
    BY <2>1, FileAssumption
  <2> QED
    BY <2>1, <2>2, <2>3 DEF Ordered
<1> QED
  BY <1>1, <1>2 DEF Inv, Save, Running, Current, CloseKeepsAll

\* What Flush and Close do to the chain.
LEMMA QueuedOrdered ==
  ASSUME Inv, Running, chain' = Append(chain, mem), UNCHANGED <<mem, disk>>
  PROVE  /\ chain' \in Seq(States) /\ Len(chain') = Len(chain) + 1
         /\ chain'[Len(chain')] = mem
         /\ Ordered'
<1>1. chain \in Seq(States) /\ mem \in States /\ disk \in States /\ Len(chain) \in Nat
  BY LenProperties DEF Inv, TypeOK
<1>2. /\ chain' \in Seq(States) /\ Len(chain') = Len(chain) + 1
      /\ chain'[Len(chain')] = mem
      /\ \A i \in 1..Len(chain) : chain'[i] = chain[i]
  BY <1>1, AppendProperties
<1>3. \A i \in 1..Len(chain') : i \in 1..Len(chain) \/ i = Len(chain')
  BY <1>1, <1>2
<1>4. <<mem, mem>> \in Later
  BY <1>1, FileAssumption
<1>5. \A i \in 1..Len(chain') : /\ <<disk, chain'[i]>> \in Later
                                /\ <<chain'[i], mem>> \in Later
  BY <1>2, <1>3, <1>4 DEF Inv, Ordered
<1>6. ASSUME NEW i \in 1..Len(chain'), NEW j \in i..Len(chain')
      PROVE  <<chain'[i], chain'[j]>> \in Later
  <2>1. CASE j = Len(chain')
    BY <1>2, <1>5, <2>1
  <2>2. CASE j # Len(chain')
    <3>1. i \in 1..Len(chain) /\ j \in i..Len(chain) /\ j \in 1..Len(chain)
      BY <1>1, <1>2, <2>2
    <3> QED
      BY <1>2, <3>1 DEF Inv, Ordered
  <2> QED
    BY <2>1, <2>2
<1> QED
  BY <1>2, <1>5, <1>6 DEF Inv, Ordered

LEMMA FlushInv ==
  ASSUME Inv, Flush
  PROVE  Inv'
<1>1. /\ chain' \in Seq(States) /\ Len(chain') = Len(chain) + 1
      /\ chain'[Len(chain')] = mem /\ Ordered'
  BY QueuedOrdered DEF Flush
<1>2. Len(chain) \in Nat
  BY LenProperties DEF Inv, TypeOK
<1>3. TypeOK'
  <2>1. awaited' \in 0..Len(chain')
    BY <1>1, <1>2 DEF Inv, TypeOK, Flush
  <2> QED
    BY <1>1, <2>1 DEF Inv, TypeOK, Flush
<1>4. chain' # <<>> /\ Current'
  BY <1>1, <1>2 DEF Current, Flush
<1> QED
  BY <1>1, <1>3, <1>4 DEF Inv, Flush, Running, CloseKeepsAll

LEMMA CloseInv ==
  ASSUME Inv, Close
  PROVE  Inv'
<1>1. CASE due
  <2>1. /\ chain' \in Seq(States) /\ Len(chain') = Len(chain) + 1
        /\ chain'[Len(chain')] = mem /\ Ordered'
    BY <1>1, QueuedOrdered DEF Close, Running
  <2>2. Len(chain) \in Nat
    BY LenProperties DEF Inv, TypeOK
  <2>3. TypeOK'
    <3>1. awaited' \in 0..Len(chain')
      BY <2>1, <2>2 DEF Close
    <3> QED
      BY <2>1, <3>1 DEF Inv, TypeOK, Close
  <2>4. chain' # <<>> /\ Current'
    BY <2>1, <2>2 DEF Current, Close
  <2> QED
    BY <2>1, <2>3, <2>4 DEF Inv, Close, Running, CloseKeepsAll
<1>2. CASE ~due
  <2>1. UNCHANGED <<mem, disk, chain, failed>> /\ ~due' /\ awaited' = Len(chain)
    BY <1>2 DEF Close
  <2>2. Len(chain) \in Nat
    BY LenProperties DEF Inv, TypeOK
  <2>3. TypeOK'
    <3>1. awaited' \in 0..Len(chain')
      BY <2>1, <2>2
    <3> QED
      BY <2>1, <3>1 DEF Inv, TypeOK, Close
  <2>4. Ordered' /\ Current'
    BY <1>2, <2>1 DEF Inv, Running, Close, Ordered, Current
  <2> QED
    BY <1>2, <2>1, <2>3, <2>4 DEF Inv, Close, Running, CloseKeepsAll
<1> QED
  BY <1>1, <1>2

LEMMA DequeuedInv ==
  ASSUME Inv, Running, chain # <<>>, Dequeue,
         \/ failed' = TRUE /\ disk' = disk
         \/ failed' = FALSE /\ disk' = Head(chain)
  PROVE  Inv' /\ <<disk, disk'>> \in Later
<1> DEFINE n == Len(chain)
<1>1. /\ chain \in Seq(States) /\ n \in Nat /\ n > 0
      /\ chain' \in Seq(States) /\ Len(chain') = n - 1
      /\ Head(chain) = chain[1] /\ chain[1] \in States
      /\ \A i \in 1..(n - 1) : chain'[i] = chain[i + 1]
  BY HeadTailProperties, LenProperties, EmptySeq, ElementOfSeq DEF Inv, TypeOK, Dequeue
<1>2. disk' \in States /\ failed' \in BOOLEAN
  BY <1>1 DEF Inv, TypeOK
<1>3. TypeOK'
  <2>1. awaited' \in 0..Len(chain')
    <3>0. awaited \in 0..n
      BY DEF Inv, TypeOK
    <3>1. /\ awaited \in Nat /\ awaited <= n
          /\ awaited' = IF awaited = 0 THEN 0 ELSE awaited - 1
      BY <1>1, <3>0 DEF Dequeue
    <3> HIDE DEF n
    <3>2. awaited' \in Nat /\ awaited' <= n - 1
      BY <1>1, <3>1
    <3>3. awaited' \in 0..(n - 1)
      BY <1>1, <3>2
    <3> QED
      BY <1>1, <3>3
  <2> QED
    BY <1>1, <1>2, <2>1 DEF Inv, TypeOK, Dequeue
<1>o. 1 \in 1..n /\ Ordered /\ disk \in States
  BY <1>1 DEF Inv, TypeOK
<1>4. <<disk, disk'>> \in Later
  <2>1. <<disk, chain[1]>> \in Later /\ <<disk, disk>> \in Later
    BY <1>o, FileAssumption DEF Ordered
  <2> QED
    BY <1>1, <2>1
<1>5. Ordered'
  <2>1. \A i \in 1..(n - 1) : i + 1 \in 1..n /\ \A j \in i..(n - 1) : j + 1 \in (i + 1)..n
    BY <1>1
  <2>2. ASSUME NEW i \in 1..(n - 1)
        PROVE  /\ <<disk', chain'[i]>> \in Later
               /\ <<chain'[i], mem>> \in Later
               /\ \A j \in i..(n - 1) : <<chain'[i], chain'[j]>> \in Later
    <3>1. i + 1 \in 1..n /\ i + 1 \in 1..n /\ 1 \in 1..n
      BY <1>1, <2>1
    <3>2. /\ <<disk, chain[i + 1]>> \in Later /\ <<chain[1], chain[i + 1]>> \in Later
          /\ <<chain[i + 1], mem>> \in Later
      BY <1>1, <3>1 DEF Inv, Ordered
    <3>3. \A j \in i..(n - 1) : <<chain[i + 1], chain[j + 1]>> \in Later
      BY <2>1, <3>1 DEF Inv, Ordered
    <3>4. \A j \in i..(n - 1) : j \in 1..(n - 1)
      BY <1>1
    <3> QED
      BY <1>1, <3>2, <3>3, <3>4
  <2>3. <<disk', mem>> \in Later
    BY <1>1, <1>o DEF Ordered
  <2> QED
    BY <1>1, <2>2, <2>3 DEF Ordered, Dequeue
<1>6. Current'
  <2>1. CASE n = 1
    <3>1. chain' = <<>>
      BY <1>1, <2>1, EmptySeq
    <3> QED
      BY <1>1, <2>1, <3>1 DEF Inv, Current, Dequeue
  <2>2. CASE n > 1
    <3>1. chain' # <<>> /\ chain'[Len(chain')] = chain[n]
      BY <1>1, <2>2
    <3> QED
      BY <3>1 DEF Inv, Current, Dequeue
  <2> QED
    BY <1>1, <2>1, <2>2
<1>7. phase = "closing" /\ tidy => awaited' = Len(chain')
  BY <1>1 DEF Inv, TypeOK, Dequeue
<1> QED
  BY <1>3, <1>4, <1>5, <1>6, <1>7 DEF Inv, Dequeue, Running, CloseKeepsAll

LEMMA GoneInv ==
  ASSUME Inv, Exit \/ Crash
  PROVE  Inv'
<1>1. <<>> \in Seq(States) /\ Len(<<>>) = 0
  OBVIOUS
<1>2. TypeOK'
  <2>1. chain' = <<>> /\ awaited' = 0 /\ 0 \in 0..0
    BY DEF Exit, Crash, Gone
  <2>2. awaited' \in 0..Len(chain')
    BY <1>1, <2>1
  <2> QED
    BY <1>1, <2>1, <2>2 DEF Inv, TypeOK, Exit, Crash, Gone
<1>3. CloseKeepsAll'
  <2>1. CASE Crash
    BY <2>1 DEF Crash, CloseKeepsAll
  <2>2. CASE Exit /\ tidy
    <3>1. chain = <<>> /\ ~due
      BY <2>2, EmptySeq DEF Inv, TypeOK, Exit
    <3>2. failed \/ disk = mem
      BY <2>2, <3>1 DEF Inv, Exit, Running, Current
    <3> QED
      BY <2>2, <3>2 DEF Exit, Gone, CloseKeepsAll
  <2>3. CASE Exit /\ ~tidy
    BY <2>3 DEF Exit, Gone, CloseKeepsAll
  <2> QED
    BY <2>1, <2>2, <2>3
<1> QED
  BY <1>2, <1>3 DEF Inv, Exit, Crash, Gone, Running

LEMMA OpenInv ==
  ASSUME Inv, NEW d \in States, <<disk, d>> \in Later, Open(d)
  PROVE  Inv'
<1>1. chain' = <<>> /\ Len(chain') = 0 /\ awaited' = 0
  BY DEF Inv, Open
<1>2. TypeOK'
  BY <1>1 DEF Inv, TypeOK, Open
<1>3. Ordered' /\ Current'
  <2>1. mem' = d /\ disk' = disk /\ due' = (d # disk)
    BY DEF Open
  <2>2. \A i \in 1..Len(chain') : FALSE
    BY <1>1
  <2>3. <<disk', mem'>> \in Later
    BY <2>1
  <2> QED
    BY <1>1, <2>1, <2>2, <2>3 DEF Ordered, Current
<1> QED
  BY <1>2, <1>3 DEF Inv, Open, Running, CloseKeepsAll

-----------------------------------------------------------------------------
LEMMA StepInv == Inv /\ [Next]_vars => Inv' /\ MovesOn
<1> SUFFICES ASSUME Inv, [Next]_vars PROVE Inv' /\ MovesOn
  OBVIOUS
<1>0. <<disk, disk>> \in Later
  BY FileAssumption DEF Inv, TypeOK
<1>1. ASSUME NEW d \in States, <<mem, d>> \in Later, Save(d) PROVE Inv' /\ MovesOn
  BY <1>0, <1>1, SaveInv DEF Save, MovesOn
<1>2. CASE Flush
  BY <1>0, <1>2, FlushInv DEF Flush, MovesOn
<1>3. CASE Lands
  BY <1>3, DequeuedInv DEF Lands, MovesOn
<1>4. CASE Fails
  BY <1>4, DequeuedInv DEF Fails, MovesOn
<1>5. CASE Close
  BY <1>0, <1>5, CloseInv DEF Close, MovesOn
<1>6. CASE Exit \/ Crash
  BY <1>0, <1>6, GoneInv DEF Exit, Crash, Gone, MovesOn
<1>7. ASSUME NEW d \in States, <<disk, d>> \in Later, Open(d) PROVE Inv' /\ MovesOn
  BY <1>0, <1>7, OpenInv DEF Open, MovesOn
<1>8. CASE UNCHANGED vars
  BY <1>0, <1>8 DEF vars, Inv, TypeOK, Running, Ordered, Current, CloseKeepsAll, MovesOn
<1> QED
  BY <1>1, <1>2, <1>3, <1>4, <1>5, <1>6, <1>7, <1>8 DEF Next

LEMMA Invariance == Spec => []Inv
BY InitInv, StepInv, PTL DEF Spec

\* Every variable keeps its type; close() never waits for a write not queued.
THEOREM TypeCorrect == Spec => []TypeOK
<1>1. Inv => TypeOK
  BY DEF Inv
<1> QED
  BY <1>1, Invariance, PTL

\* save(), the timer, flush() and the chain of writes forget no change.
THEOREM NothingForgotten == Spec => []UnsavedIsOnItsWay
<1>1. Inv => UnsavedIsOnItsWay
  BY DEF Inv, Running, Current, UnsavedIsOnItsWay
<1> QED
  BY <1>1, Invariance, PTL

\* close() writes everything saved before it was called.
THEOREM TidyShutdown == Spec => []CloseKeepsAll
<1>1. Inv => CloseKeepsAll
  BY DEF Inv
<1> QED
  BY <1>1, Invariance, PTL

\* Chained writes keep the file from ever going back.
THEOREM FileMovesOn == Spec => DiskMovesOn
<1>1. Inv /\ [Next]_vars => [MovesOn]_vars
  BY StepInv
<1> QED
  BY <1>1, Invariance, PTL DEF Spec, DiskMovesOn
=============================================================================
