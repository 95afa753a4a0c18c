-------------------------- MODULE DurableSessions --------------------------
(***************************************************************************)
(* The OAuth layer's sessions (RefreshSessions) kept in its state file     *)
(* (StateFile): every request that changes the store schedules a write,    *)
(* and a stop takes the authorization codes and the tokens being signed    *)
(* with it, which are only in memory.  Clients keep what they were sent.   *)
(***************************************************************************)
EXTENDS RefreshSessions

CONSTANTS
  MaxWrites,  \* bound: writes queued at a time
  MaxStops    \* bound: how often the process stops

ASSUME DurableAssumption == MaxWrites \in Nat \ {0} /\ MaxStops \in Nat

VARIABLES
  disk, due, chain, phase, awaited, failed, tidy,  \* of StateFile
  stops,  \* how often the process stopped
  clean   \* history: every stop so far was a shutdown that lost nothing

\* The order the store's data comes in: no withdrawal and no epoch is taken back.
Growing ==
  {p \in DataType \X DataType :
     /\ p[1].epoch <= p[2].epoch
     /\ \A c \in Clients : p[1].cut[c] <= p[2].cut[c]}

File == INSTANCE StateFile
          WITH mem <- data, Empty <- NoData, States <- DataType, Later <- Growing

fileVars == <<disk, due, chain, phase, awaited, failed, tidy>>
clientVars == <<granted, born, last, now, hist>>
durableVars == <<data, codes, minting, clientVars, fileVars, stops, clean>>

\* A request is served; what changes the store calls save().
Serve ==
  /\ File!Running
  /\ Request
  /\ IF data' = data THEN UNCHANGED fileVars ELSE File!Save(data')
  /\ UNCHANGED <<stops, clean>>

Clock == Tick /\ UNCHANGED <<fileVars, stops, clean>>

\* The file's own steps, which change nothing in memory.
Write ==
  /\ File!Flush \/ File!Lands \/ File!Fails \/ File!Close
  /\ UNCHANGED <<codes, minting, clientVars, stops, clean>>

\* What is only in memory is lost.
Stop ==
  /\ stops < MaxStops
  /\ stops' = stops + 1
  /\ codes' = {} /\ minting' = {}
  /\ UNCHANGED clientVars

Exit ==
  /\ File!Exit
  /\ clean' = (clean /\ tidy /\ ~failed)
  /\ Stop

Crash ==
  /\ File!Crash
  /\ clean' = FALSE
  /\ Stop

\* Faulty: a client's record is read back without revokedAt.
StartForgetful ==
  /\ File!Open([Without(disk, Expired(disk)) EXCEPT !.revokedAt = [c \in Clients |-> 0]])
  /\ UNCHANGED <<codes, minting, clientVars, stops, clean>>

\* Store.open() reads the file and prunes what has expired meanwhile.
Start ==
  /\ File!Open(Without(disk, Expired(disk)))
  /\ UNCHANGED <<codes, minting, clientVars, stops, clean>>

DurableInit == Init /\ File!Init /\ stops = 0 /\ clean = TRUE

DurableNext == Serve \/ Clock \/ Write \/ Exit \/ Crash \/ Start

DurableSpec == DurableInit /\ [][DurableNext]_durableVars

-----------------------------------------------------------------------------

\* A restart costs no client its session, and makes no honest client look like a
\* replay, as long as every stop was a shutdown whose last write landed.
CleanRestartsCostNothing == clean => SessionKept /\ ReuseNeedsReplay

\* Tokens withdrawn in a state that has reached the file are refused ever after,
\* whatever crashes and restarts follow, while their client is registered.
WithdrawalOnDiskHolds ==
  File!Running =>
    \A g \in granted :
      Known(disk, g.client) /\ Known(data, g.client) /\ g.jti <= disk.cut[g.client]
        => ~Accepted(data, g)

=============================================================================
