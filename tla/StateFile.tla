----------------------------- MODULE StateFile -----------------------------
(***************************************************************************)
(* How the OAuth layer keeps its state in a JSON file (oauth/src/store.ts, *)
(* save, flush, close and open, with the shutdown of oauth/src/index.ts).  *)
(*                                                                         *)
(* What the state is does not matter here: a change is any step of Later.  *)
(* A write is a temporary file and a rename, so the file changes in one    *)
(* step or not at all; a crash may come between any two steps.             *)
(***************************************************************************)
EXTENDS Integers, SequencesExt

CONSTANTS
  States,     \* what the store may hold
  Empty,      \* emptyData()
  Later,      \* <<d, e>> when the store may come to hold e some time after d
  MaxWrites   \* bound: writes in the chain at a time

ASSUME FileAssumption ==
  /\ Empty \in States
  /\ Later \subseteq States \X States
  /\ \A d \in States : <<d, d>> \in Later
  /\ \A d, e, f \in States : <<d, e>> \in Later /\ <<e, f>> \in Later => <<d, f>> \in Later
  /\ MaxWrites \in Nat \ {0}

VARIABLES
  mem,      \* #data
  disk,     \* what the file holds
  due,      \* #pending, with the timer running: both are set and cleared together
  chain,    \* payloads of the writes queued on #writeChain, the one at work first
  phase,    \* the process: "up", "closing" once close() is called, or "off"
  awaited,  \* how many of the queued writes close() waits for
  failed,   \* history: the last write that ended failed
  tidy      \* history: nothing was saved since close() was called

vars == <<mem, disk, due, chain, phase, awaited, failed, tidy>>

Running == phase # "off"

\* Faulty: the second save of a burst finds the timer running and is dropped.
SaveOnce(d) ==
  /\ Running
  /\ mem' = d
  /\ due' = ~due
  /\ tidy' = (tidy /\ phase = "up")
  /\ UNCHANGED <<disk, chain, phase, awaited, failed>>

\* A change of the state, then save(): the timer starts if it does not run.
Save(d) ==
  /\ Running
  /\ mem' = d
  /\ due' = TRUE
  /\ tidy' = (tidy /\ phase = "up")
  /\ UNCHANGED <<disk, chain, phase, awaited, failed>>

\* The timer's flush(): what the state is now will be written after the others.
Flush ==
  /\ Running
  /\ due
  /\ Len(chain) < MaxWrites
  /\ due' = FALSE
  /\ chain' = Append(chain, mem)
  /\ UNCHANGED <<mem, disk, phase, awaited, failed, tidy>>

\* The write at work ends.
Dequeue ==
  /\ chain' = Tail(chain)
  /\ awaited' = IF awaited = 0 THEN 0 ELSE awaited - 1
  /\ UNCHANGED <<mem, due, phase, tidy>>

\* A write's rename.
Lands ==
  /\ Running
  /\ chain # <<>>
  /\ disk' = Head(chain)
  /\ failed' = FALSE
  /\ Dequeue

\* A write that fails is logged, and the next one goes on.
Fails ==
  /\ Running
  /\ chain # <<>>
  /\ failed' = TRUE
  /\ UNCHANGED disk
  /\ Dequeue

\* Faulty: the timer is cleared and what it would have written is not.
CloseUnflushed ==
  /\ phase = "up"
  /\ phase' = "closing"
  /\ due' = FALSE
  /\ awaited' = Len(chain)
  /\ tidy' = TRUE
  /\ UNCHANGED <<mem, disk, chain, failed>>

\* close(), at the end of the shutdown or when it is forced: what is due is
\* flushed, and the chain as it is then is waited for.
Close ==
  /\ phase = "up"
  /\ phase' = "closing"
  /\ due' = FALSE
  /\ chain' = IF due THEN Append(chain, mem) ELSE chain
  /\ awaited' = Len(chain')
  /\ tidy' = TRUE
  /\ UNCHANGED <<mem, disk, failed>>

Gone ==
  /\ phase' = "off"
  /\ due' = FALSE
  /\ chain' = <<>>
  /\ awaited' = 0
  /\ UNCHANGED <<mem, disk, failed>>

\* close() returns and the process exits.
Exit ==
  /\ phase = "closing"
  /\ awaited = 0
  /\ UNCHANGED tidy
  /\ Gone

\* The process dies, a temporary file half written at most.
Crash ==
  /\ Running
  /\ tidy' = FALSE
  /\ Gone

\* Store.open(): the file as it is, less what has expired, which is saved.
Open(d) ==
  /\ phase = "off"
  /\ phase' = "up"
  /\ mem' = d
  /\ due' = (d # disk)
  /\ failed' = FALSE
  /\ tidy' = FALSE
  /\ UNCHANGED <<disk, chain, awaited>>

Init ==
  /\ mem = Empty /\ disk = Empty
  /\ due = FALSE /\ chain = <<>> /\ awaited = 0
  /\ phase = "up"
  /\ failed = FALSE /\ tidy = FALSE

Next ==
  \/ \E d \in States : <<mem, d>> \in Later /\ Save(d)
  \/ Flush \/ Lands \/ Fails
  \/ Close \/ Exit \/ Crash
  \/ \E d \in States : <<disk, d>> \in Later /\ Open(d)

Spec == Init /\ [][Next]_vars

-----------------------------------------------------------------------------
TypeOK ==
  /\ mem \in States /\ disk \in States
  /\ due \in BOOLEAN /\ failed \in BOOLEAN /\ tidy \in BOOLEAN
  /\ chain \in Seq(States)
  /\ phase \in {"up", "closing", "off"}
  /\ awaited \in 0..Len(chain)

\* Whatever memory holds and the file does not is due, is being written, or was
\* refused by the last write: no save is forgotten between the timer, the flush
\* and the chain.
UnsavedIsOnItsWay ==
  Running /\ mem # disk => due \/ chain # <<>> \/ failed

\* A shutdown after which nothing was saved loses nothing, unless the disk
\* refused the last write.
CloseKeepsAll == phase = "off" /\ tidy /\ ~failed => disk = mem

MovesOn == <<disk, disk'>> \in Later

\* The file only ever moves on to a later state: a slow write never puts an
\* older state over a newer one, within a run of the process or across restarts.
DiskMovesOn == [][MovesOn]_vars

\* A state reaches the file, or is overtaken by a later one there, unless the
\* process stops or the disk refuses the write.
ReachesTheDisk ==
  \A d \in States : mem = d /\ phase = "up" ~> <<d, disk>> \in Later \/ phase # "up" \/ failed
=============================================================================
