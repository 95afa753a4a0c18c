----------------------- MODULE RefreshSessionsProofs -----------------------
(***************************************************************************)
(* Theorems about RefreshSessions, for any number of clients, tokens and   *)
(* seconds.  One inductive invariant, Inv, carries all the safety          *)
(* properties: fresh names, at most one refresh token of a session that    *)
(* was never forked still to be redeemed, and for every grant what the     *)
(* withdrawals since it was made have left in the store.                   *)
(***************************************************************************)
EXTENDS DurableSessions, TLAPS

All == granted \cup minting

\* Every grant has a name of its own, and comes from a client that registered.
Names ==
  /\ \A g \in All : g.sid <= last /\ g.jti <= last /\ g.client \in born
  /\ \A g, h \in All : g.jti = h.jti => g = h
  /\ granted \cap minting = {}
  /\ data.sessions \subseteq granted
  /\ \A g \in minting : g.jti \notin hist.rotated
  /\ \A j \in hist.rotated : \E g \in granted : g.jti = j

\* A session that was not forked has one refresh token left to redeem.
OneLeft ==
  \A g, h \in All :
    g.sid = h.sid /\ g.sid \notin hist.forked
      /\ g.jti \notin hist.rotated /\ h.jti \notin hist.rotated => g = h

\* What the withdrawals since a grant was made have left in the store.
Marks ==
  /\ \A c \in Clients : data.cut[c] <= last
  /\ hist.allCut <= last
  /\ \A g \in All :
       /\ g.epoch <= data.epoch
       /\ g.iat <= now
       /\ g.jti <= hist.allCut => g.epoch < data.epoch
       /\ g.jti <= data.cut[g.client] /\ Known(data, g.client)
            => g.iat < data.revokedAt[g.client]

Inv == TypeOK /\ Names /\ OneLeft /\ Marks /\ ReuseNeedsReplay /\ SessionKept

\* Whether a client is registered, in terms of positions.
LEMMA KnownIs == ASSUME NEW d, NEW c
                 PROVE  Known(d, c) <=> \E i \in 1..Len(d.clients) : d.clients[i] = c
BY DEF Known, Contains

LEMMA StartsSound == Init => Inv
<1> SUFFICES ASSUME Init PROVE Inv
  OBVIOUS
<1> USE SessionsAssumption DEF Init, NoData
<1>1. TypeOK
  <2>1. data \in DataType
    <3>1. <<>> \in Seq(Clients)
      OBVIOUS
    <3> QED BY <3>1 DEF DataType
  <2>2. hist \in HistType
    BY DEF HistType
  <2> QED BY <2>1, <2>2 DEF TypeOK
<1>2. Names /\ OneLeft /\ Marks /\ ReuseNeedsReplay /\ SessionKept
  BY DEF Names, OneLeft, Marks, ReuseNeedsReplay, SessionKept, All, SessionsOf
<1> QED BY <1>1, <1>2 DEF Inv

\* Registering, and evicting the oldest registration for it.
LEMMA RegisterKeeps == ASSUME Inv, NEW c \in Clients, Register(c) PROVE Inv'
<1> USE SessionsAssumption DEF Inv
<1> DEFINE all == Append(data.clients, c)
<1>1. /\ data.clients \in Seq(Clients) /\ Len(data.clients) <= MaxClients
      /\ data \in DataType
  BY DEF TypeOK, DataType
<1>2. data' = [data EXCEPT !.clients = IF Len(all) > MaxClients THEN Tail(all) ELSE all]
  BY DEF Register, PutClient
<1>3. /\ data'.clients \in Seq(Clients)
      /\ Len(data'.clients) <= MaxClients
      /\ \A i \in 1..Len(data'.clients) :
           data'.clients[i] = c \/ \E j \in 1..Len(data.clients) : data'.clients[i] = data.clients[j]
  <2>1. data'.clients = IF Len(all) > MaxClients THEN Tail(all) ELSE all
    BY <1>1, <1>2 DEF DataType
  <2>2. all \in Seq(Clients) /\ Len(all) = Len(data.clients) + 1
    BY <1>1
  <2>3. \A i \in 1..Len(all) :
          all[i] = c \/ \E j \in 1..Len(data.clients) : all[i] = data.clients[j]
    BY <1>1
  <2>4. CASE Len(all) > MaxClients
    <3>1. /\ Tail(all) \in Seq(Clients) /\ Len(Tail(all)) = Len(all) - 1
          /\ \A i \in 1..Len(Tail(all)) : Tail(all)[i] = all[i + 1]
      BY <2>2, <1>1
    <3> HIDE DEF all
    <3>2. Len(all) \in Nat /\ Len(data.clients) \in Nat
      BY <1>1, <2>2
    <3>3. \A i \in 1..Len(Tail(all)) : i + 1 \in 1..Len(all)
      BY <3>1, <3>2
    <3> QED BY <2>1, <2>2, <2>3, <2>4, <3>1, <3>2, <3>3, <1>1
  <2>5. CASE ~(Len(all) > MaxClients)
    <3> HIDE DEF all
    <3> QED BY <2>1, <2>2, <2>3, <2>5, <1>1
  <2> QED BY <2>4, <2>5
<1>4. /\ data' = [data EXCEPT !.clients = data'.clients]
      /\ data'.sessions = data.sessions /\ data'.cut = data.cut
      /\ data'.epoch = data.epoch /\ data'.revokedAt = data.revokedAt
  BY <1>1, <1>2 DEF DataType
<1>5. \A d \in Clients : Known(data', d) => Known(data, d) \/ d = c
  BY <1>3, KnownIs
<1>6. TypeOK'
  BY <1>1, <1>3, <1>4 DEF TypeOK, DataType, Register
<1>7. Names' /\ OneLeft' /\ ReuseNeedsReplay' /\ SessionKept'
  BY <1>4 DEF Names, OneLeft, ReuseNeedsReplay, SessionKept, All, SessionsOf, RefreshLives, Register
<1>8. Marks'
  <2>1. \A g \in All : g.client # c /\ g.client \in Clients
    BY DEF Names, Register, TypeOK
  <2> QED BY <1>4, <1>5, <2>1 DEF Marks, All, Register
<1> QED BY <1>6, <1>7, <1>8

\* Codes come and go without touching what the invariant says of grants.
LEMMA CodesKeep ==
  ASSUME Inv, NEW c \in Clients, Consent(c) \/ BurnCode(c)
  PROVE  Inv'
<1>1. UNCHANGED <<data, minting, granted, born, last, now, hist>>
  BY DEF Consent, BurnCode
<1>2. TypeOK'
  BY <1>1 DEF Inv, TypeOK, Consent, BurnCode
<1> QED BY <1>1, <1>2 DEF Inv, Names, OneLeft, Marks, ReuseNeedsReplay, SessionKept,
           All, SessionsOf, RefreshLives, Known, Contains

\* What both ways of starting to mint have in common: the new grant's name is
\* fresh and no withdrawal has reached it.
LEMMA FreshIs ==
  ASSUME Inv, NEW sid, sid \in 1..(last + 1), NEW c \in born, StartMint(Fresh(sid, c))
  PROVE  /\ Fresh(sid, c) \in Grants
         /\ Fresh(sid, c).jti = last + 1
         /\ \A g \in All : g.jti # last + 1
         /\ last' = last + 1 /\ last' \in 0..MaxTokens
         /\ minting' = minting \cup {Fresh(sid, c)}
         /\ minting' \subseteq Grants
<1> USE SessionsAssumption
<1>1. last \in 0..MaxTokens /\ now \in Nat /\ data.epoch \in Nat /\ c \in Clients
      /\ minting \subseteq Grants /\ granted \subseteq Grants
  BY DEF Inv, TypeOK, DataType
<1>2. last < MaxTokens
  BY DEF StartMint
<1>3. Fresh(sid, c) \in Grants
  BY <1>1, <1>2 DEF Fresh, Grants, Tokens
<1>4. \A g \in All : g.jti # last + 1
  <2>1. \A g \in All : g.jti <= last /\ g.jti \in Nat
    BY <1>1 DEF Inv, Names, All, Grants, Tokens
  <2> QED BY <1>1, <2>1
<1> QED BY <1>1, <1>2, <1>3, <1>4 DEF StartMint, Fresh

\* A grant that starts keeps the marks, whatever its session.
LEMMA MarksKeep ==
  ASSUME Inv, NEW sid, sid \in 1..(last + 1), NEW c \in born, StartMint(Fresh(sid, c)),
         UNCHANGED <<data, granted, now>>, hist'.allCut = hist.allCut
  PROVE  Marks'
<1> USE SessionsAssumption
<1> DEFINE n == Fresh(sid, c)
<1>1. /\ last \in Nat /\ now \in Nat /\ data.epoch \in Nat /\ c \in Clients
      /\ hist.allCut \in Nat /\ \A d \in Clients : data.cut[d] \in Nat
      /\ \A d \in Clients : data.cut[d] <= last
      /\ hist.allCut <= last
  BY DEF Inv, TypeOK, DataType, HistType, Marks
<1>2. n.jti = last + 1 /\ n.epoch = data.epoch /\ n.iat = now /\ n.client = c
  BY DEF Fresh
<1>3. last' = last + 1 /\ minting' = minting \cup {n}
  BY DEF StartMint
<1>4. All' = All \cup {n}
  BY <1>3 DEF All
<1> HIDE DEF n
<1>5. /\ n.epoch <= data.epoch /\ n.iat <= now
      /\ ~(n.jti <= hist.allCut) /\ ~(n.jti <= data.cut[n.client])
  BY <1>1, <1>2
<1>6. \A d \in Clients : data.cut[d] <= last + 1
  BY <1>1
<1>7. hist.allCut <= last + 1
  BY <1>1
<1> QED BY <1>3, <1>4, <1>5, <1>6, <1>7 DEF Inv, Marks, Known, Contains

\* The exchange of a code.
LEMMA RedeemKeeps == ASSUME Inv, NEW c \in Clients, Redeem(c) PROVE Inv'
<1> USE SessionsAssumption
<1> DEFINE n == Fresh(last + 1, c)
<1>1. c \in born /\ StartMint(n) /\ last + 1 \in 1..(last + 1)
      /\ UNCHANGED <<data, granted, born, now, hist>> /\ codes' \subseteq codes
  BY DEF Inv, TypeOK, Redeem
<1>2. /\ n \in Grants /\ n.jti = last + 1 /\ \A g \in All : g.jti # last + 1
      /\ last' = last + 1 /\ last' \in 0..MaxTokens
      /\ minting' = minting \cup {n} /\ minting' \subseteq Grants
  BY <1>1, FreshIs
<1>3. n.sid = last + 1 /\ n.client = c /\ All' = All \cup {n}
  BY <1>1, <1>2 DEF Fresh, All
<1>4. Marks'
  BY <1>1, MarksKeep
<1> HIDE DEF n
<1>5. TypeOK'
  BY <1>1, <1>2 DEF Inv, TypeOK
<1>6. \A g \in All : g.sid <= last /\ g.jti <= last /\ g.sid \in Nat /\ g.jti \in Nat
                     /\ last \in Nat
  BY DEF Inv, TypeOK, Names, All, Grants, Tokens
<1>7. Names'
  <2>1. \A g \in All' : g.sid <= last' /\ g.jti <= last' /\ g.client \in born'
    BY <1>1, <1>2, <1>3, <1>6 DEF Inv, TypeOK, Names
  <2>2. n.jti \notin hist.rotated \/ n.jti \notin Tokens
    <3> SUFFICES ASSUME n.jti \in hist.rotated PROVE FALSE
      OBVIOUS
    <3>1. \E g \in granted : g.jti = n.jti
      BY DEF Inv, Names
    <3> QED BY <3>1, <1>2 DEF All
  <2>3. n.jti \in Tokens
    BY <1>2 DEF Grants
  <2> QED BY <1>1, <1>2, <1>3, <2>1, <2>2, <2>3 DEF Inv, Names, All
<1>8. OneLeft'
  <2>1. \A g \in All : g.sid # n.sid
    BY <1>3, <1>6
  <2> QED BY <1>1, <1>3, <2>1 DEF Inv, OneLeft
<1>9. ReuseNeedsReplay' /\ SessionKept'
  BY <1>1 DEF Inv, ReuseNeedsReplay, SessionKept, SessionsOf, RefreshLives
<1> QED BY <1>4, <1>5, <1>7, <1>8, <1>9 DEF Inv

\* The redemption of a refresh token: reuse ends the session, rotation leaves
\* the new grant as the one left to redeem.
LEMMA RefreshKeeps == ASSUME Inv, NEW g \in granted, Refresh(g) PROVE Inv'
<1> USE SessionsAssumption
<1>0. PICK s \in SessionsOf(data, g.sid) :
       \/ /\ s.jti # g.jti
          /\ data' = DeleteSession(data, g.sid)
          /\ hist' = [hist EXCEPT !.over = @ \cup {g.sid}]
          /\ UNCHANGED <<minting, last>>
       \/ /\ s.jti = g.jti
          /\ StartMint(Fresh(g.sid, g.client))
          /\ hist' = Redeeming(g)
          /\ UNCHANGED data
  BY DEF Refresh
<1>1. UNCHANGED <<codes, granted, born, now>>
  BY DEF Refresh
<1>2. g \in All /\ g \in Grants /\ data \in DataType /\ hist \in HistType
  BY DEF Inv, TypeOK, All
<1>3. CASE /\ s.jti # g.jti
           /\ data' = DeleteSession(data, g.sid)
           /\ hist' = [hist EXCEPT !.over = @ \cup {g.sid}]
           /\ UNCHANGED <<minting, last>>
  <2>1. /\ data' = [data EXCEPT !.sessions = data.sessions \ SessionsOf(data, g.sid)]
        /\ data' \in DataType /\ data'.sessions \subseteq data.sessions
        /\ UNCHANGED <<data.clients, data.revokedAt, data.epoch, data.cut>>
        /\ \A t \in data.sessions : t.sid # g.sid => t \in data'.sessions
    BY <1>2, <1>3 DEF DeleteSession, Without, DataType, SessionsOf
  <2>2. /\ hist' \in HistType /\ hist'.over = hist.over \cup {g.sid}
        /\ UNCHANGED <<hist.rotated, hist.forked, hist.allCut>>
    BY <1>2, <1>3 DEF HistType, Grants
  <2>3. TypeOK'
    BY <1>1, <1>3, <2>1, <2>2 DEF Inv, TypeOK
  <2>4. Names' /\ OneLeft' /\ Marks' /\ ReuseNeedsReplay'
    BY <1>1, <1>3, <2>1, <2>2
    DEF Inv, Names, OneLeft, Marks, ReuseNeedsReplay, All, SessionsOf, Known, Contains
  <2>5. SessionKept'
    BY <1>1, <2>1, <2>2 DEF Inv, SessionKept, RefreshLives
  <2> QED BY <2>3, <2>4, <2>5 DEF Inv
<1>4. CASE /\ s.jti = g.jti
           /\ StartMint(Fresh(g.sid, g.client))
           /\ hist' = Redeeming(g)
           /\ UNCHANGED data
  <2> DEFINE n == Fresh(g.sid, g.client)
  <2>1. g.client \in born /\ g.sid \in 1..(last + 1) /\ g.sid <= last /\ last \in Nat
        /\ g.sid \in Tokens /\ g.jti \in Tokens
    BY <1>2 DEF Inv, TypeOK, Names, Grants, Tokens
  <2>2. /\ n \in Grants /\ n.jti = last + 1 /\ \A h \in All : h.jti # last + 1
        /\ last' = last + 1 /\ last' \in 0..MaxTokens
        /\ minting' = minting \cup {n} /\ minting' \subseteq Grants
    BY <1>4, <2>1, FreshIs
  <2>3. n.sid = g.sid /\ n.client = g.client /\ All' = All \cup {n}
    BY <1>1, <2>2 DEF Fresh, All
  <2>4. /\ hist' \in HistType /\ hist'.rotated = hist.rotated \cup {g.jti}
        /\ hist.forked \subseteq hist'.forked
        /\ g.jti \in hist.rotated => g.sid \in hist'.forked
        /\ UNCHANGED <<hist.over, hist.allCut>>
    BY <1>2, <1>4, <2>1 DEF HistType, Redeeming
  <2>5. Marks'
    BY <1>1, <1>4, <2>1, <2>4, MarksKeep
  <2> HIDE DEF n
  <2>6. TypeOK'
    BY <1>1, <1>4, <2>2, <2>4 DEF Inv, TypeOK
  <2>7. n.jti \notin hist'.rotated
    <3>1. \A j \in hist.rotated : \E h \in granted : h.jti = j
      BY DEF Inv, Names
    <3> QED BY <1>2, <2>2, <2>4, <3>1 DEF All
  <2>8. Names'
    <3>1. \A h \in All : h.sid <= last + 1 /\ h.jti <= last + 1
      BY <2>1 DEF Inv, TypeOK, Names, All, Grants, Tokens
    <3>2. \A h \in All' : h.sid <= last' /\ h.jti <= last' /\ h.client \in born'
      BY <1>1, <2>1, <2>2, <2>3, <3>1 DEF Inv, Names
    <3>3. \A h \in minting : h.jti \notin hist'.rotated
      BY <1>2, <2>4 DEF Inv, Names, All
    <3>4. \A j \in hist'.rotated : \E h \in granted' : h.jti = j
      BY <1>1, <2>4 DEF Inv, Names
    <3> QED BY <1>1, <1>4, <2>2, <2>3, <2>7, <3>2, <3>3, <3>4 DEF Inv, Names, All
  <2>9. OneLeft'
    <3>1. ASSUME NEW h \in All, h.sid = g.sid, g.sid \notin hist'.forked
          PROVE  h.jti \in hist'.rotated
      BY <1>2, <2>4, <3>1 DEF Inv, OneLeft
    <3> QED BY <2>3, <2>4, <3>1 DEF Inv, OneLeft
  <2>10. ReuseNeedsReplay' /\ SessionKept'
    BY <1>1, <1>4, <2>4 DEF Inv, ReuseNeedsReplay, SessionKept, SessionsOf, RefreshLives
  <2> QED BY <2>5, <2>6, <2>8, <2>9, <2>10 DEF Inv
<1> QED BY <1>0, <1>3, <1>4

\* Recording a session: its other grants have been redeemed, unless it forked.
LEMMA MintKeeps == ASSUME Inv, NEW g \in minting, Mint(g) PROVE Inv'
<1> USE SessionsAssumption
<1>1. /\ minting' = minting \ {g} /\ granted' = granted \cup {g}
      /\ data' = PutSession(data, g)
      /\ UNCHANGED <<codes, born, last, now, hist>>
  BY DEF Mint
<1>2. g \in Grants /\ data \in DataType /\ All' = All
  BY <1>1 DEF Inv, TypeOK, All
<1>3. /\ data' \in DataType
      /\ data'.sessions = (data.sessions \ SessionsOf(data, g.sid)) \cup {g}
      /\ UNCHANGED <<data.clients, data.revokedAt, data.epoch, data.cut>>
  BY <1>1, <1>2 DEF PutSession, Without, DataType
<1>4. /\ \A t \in data'.sessions : t = g \/ (t \in data.sessions /\ t.sid # g.sid)
      /\ \A t \in data.sessions : t.sid # g.sid => t \in data'.sessions
      /\ g \in data'.sessions
  BY <1>3 DEF SessionsOf
<1>5. TypeOK'
  <2>1. minting' \subseteq Grants /\ granted' \subseteq Grants
    BY <1>1, <1>2 DEF Inv, TypeOK
  <2>2. \A t, u \in data'.sessions : t.sid = u.sid => t = u
    BY <1>4 DEF Inv, TypeOK
  <2> QED BY <1>1, <1>3, <2>1, <2>2 DEF Inv, TypeOK
<1>6. Names'
  BY <1>1, <1>2, <1>4 DEF Inv, Names, All
<1>7. OneLeft' /\ Marks'
  BY <1>1, <1>2, <1>3 DEF Inv, OneLeft, Marks, Known, Contains
<1>8. \A h \in granted :
        h.sid = g.sid /\ g.sid \notin hist.forked => h.jti \in hist.rotated
  BY DEF Inv, OneLeft, Names, All
<1>9. ReuseNeedsReplay'
  <2> SUFFICES ASSUME NEW h \in granted', NEW t \in data'.sessions, t.sid = h.sid,
                      t.jti # h.jti
               PROVE  h.jti \in hist.rotated \/ h.sid \in hist.forked
    BY <1>1 DEF ReuseNeedsReplay, SessionsOf
  <2>1. CASE t = g
    BY <2>1, <1>1, <1>8
  <2>2. CASE t # g
    BY <2>2, <1>1, <1>4 DEF Inv, ReuseNeedsReplay, SessionsOf
  <2> QED BY <2>1, <2>2
<1>10. SessionKept'
  BY <1>1, <1>4, <1>8 DEF Inv, SessionKept, RefreshLives
<1> QED BY <1>5, <1>6, <1>7, <1>9, <1>10 DEF Inv

\* Anything that only ends sessions, and says which unless they have expired.
LEMMA EndingKeeps ==
  ASSUME Inv,
         data'.sessions \subseteq data.sessions,
         data' = [data EXCEPT !.sessions = data'.sessions],
         hist' = [hist EXCEPT !.over = hist'.over],
         hist.over \subseteq hist'.over, hist'.over \subseteq Tokens,
         \A s \in data.sessions :
           s \in data'.sessions \/ s.sid \in hist'.over \/ ~RefreshLives(s),
         UNCHANGED <<codes, minting, granted, born, last, now>>
  PROVE  Inv'
<1> USE SessionsAssumption
<1>1. /\ data' \in DataType
      /\ UNCHANGED <<data.clients, data.revokedAt, data.epoch, data.cut>>
  BY DEF Inv, TypeOK, DataType
<1>2. hist' \in HistType /\ UNCHANGED <<hist.rotated, hist.forked, hist.allCut>>
  BY DEF Inv, TypeOK, HistType
<1>3. TypeOK'
  BY <1>1, <1>2 DEF Inv, TypeOK
<1>4. Names' /\ OneLeft' /\ Marks' /\ ReuseNeedsReplay'
  BY <1>1, <1>2
  DEF Inv, Names, OneLeft, Marks, ReuseNeedsReplay, All, SessionsOf, Known, Contains
<1>5. SessionKept'
  BY <1>2 DEF Inv, SessionKept, RefreshLives
<1> QED BY <1>3, <1>4, <1>5 DEF Inv

LEMMA RevokeSessionKeeps == ASSUME Inv, NEW sid \in Tokens, RevokeSession(sid) PROVE Inv'
<1>1. data \in DataType /\ hist \in HistType
  BY DEF Inv, TypeOK
<1>2. data' = [data EXCEPT !.sessions = data'.sessions]
      /\ data'.sessions = data.sessions \ SessionsOf(data, sid)
  BY <1>1 DEF RevokeSession, DeleteSession, Without, DataType
<1>3. hist' = [hist EXCEPT !.over = hist'.over] /\ hist'.over = hist.over \cup {sid}
      /\ hist'.over \subseteq Tokens
  BY <1>1 DEF RevokeSession, HistType
<1>4. UNCHANGED <<codes, minting, granted, born, last, now>>
  BY DEF RevokeSession
<1>5. \A s \in data.sessions : s \in data'.sessions \/ s.sid \in hist'.over
  BY <1>2, <1>3 DEF SessionsOf
<1>6. data'.sessions \subseteq data.sessions /\ hist.over \subseteq hist'.over
  BY <1>2, <1>3
<1> HIDE DEF DataType
<1> QED BY <1>2, <1>3, <1>4, <1>5, <1>6, EndingKeeps

LEMMA PruneKeeps == ASSUME Inv, Prune PROVE Inv'
<1>1. data \in DataType /\ hist \in HistType /\ now \in Nat
  BY SessionsAssumption DEF Inv, TypeOK
<1>2. data' = [data EXCEPT !.sessions = data'.sessions]
      /\ data'.sessions = data.sessions \ Expired(data)
  BY <1>1 DEF Prune, Without, DataType
<1>3. hist' = [hist EXCEPT !.over = hist'.over] /\ hist'.over = hist.over
      /\ hist'.over \subseteq Tokens
  BY <1>1 DEF Prune, HistType
<1>4. UNCHANGED <<codes, minting, granted, born, last, now>>
  BY DEF Prune
<1>5. \A s \in data.sessions : s \in data'.sessions \/ ~RefreshLives(s)
  <2>1. \A s \in data.sessions : s.iat \in Nat
    BY <1>1 DEF DataType, Grants
  <2> QED BY <1>1, <1>2, <2>1, SessionsAssumption DEF Expired, RefreshLives
<1>6. data'.sessions \subseteq data.sessions
  BY <1>2
<1> QED BY <1>2, <1>3, <1>4, <1>5, <1>6, EndingKeeps

\* A revocation marks every grant its client has, sent or being signed.
LEMMA RevokeClientKeeps == ASSUME Inv, NEW c \in Clients, RevokeClient(c) PROVE Inv'
<1> USE SessionsAssumption
<1>1. /\ data \in DataType /\ hist \in HistType /\ last \in 0..MaxTokens /\ now \in Nat
      /\ granted \subseteq Grants /\ minting \subseteq Grants
      /\ UNCHANGED <<codes, minting, granted, born, last, now>>
  BY DEF Inv, TypeOK, RevokeClient
<1>2. /\ data' = [data EXCEPT !.sessions = data'.sessions, !.revokedAt = data'.revokedAt,
                              !.cut = data'.cut]
      /\ data'.sessions = data.sessions \ ClientSessions(data, c)
      /\ data'.revokedAt = [data.revokedAt EXCEPT ![c] = IF Known(data, c) THEN now + 1 ELSE @]
      /\ data'.cut = [data.cut EXCEPT ![c] = last]
      /\ UNCHANGED <<data.clients, data.epoch>>
  BY <1>1 DEF RevokeClient, Cut, Withdrawn, Without, DataType, Known
<1>3. data' \in DataType
  <2>1. /\ data.revokedAt \in [Clients -> Nat] /\ data.cut \in [Clients -> 0..MaxTokens]
        /\ now + 1 \in Nat
    BY <1>1 DEF DataType
  <2>2. data'.revokedAt \in [Clients -> Nat] /\ data'.cut \in [Clients -> 0..MaxTokens]
    BY <1>1, <1>2, <2>1
  <2>3. data'.sessions \in SUBSET Grants
    BY <1>1, <1>2 DEF DataType
  <2> HIDE DEF Known
  <2> QED BY <1>1, <1>2, <2>2, <2>3 DEF DataType
<1>4. /\ hist'.over = hist.over \cup {s.sid : s \in ClientSessions(data, c)}
      /\ UNCHANGED <<hist.rotated, hist.forked, hist.allCut>>
      /\ hist' = [hist EXCEPT !.over = hist'.over]
  BY <1>1 DEF RevokeClient, HistType
<1>5. {s.sid : s \in ClientSessions(data, c)} \subseteq Tokens
  BY <1>1 DEF ClientSessions, DataType, Grants
<1>6. hist' \in HistType
  BY <1>1, <1>4, <1>5 DEF HistType
<1>7. TypeOK'
  BY <1>1, <1>2, <1>3, <1>6 DEF Inv, TypeOK
<1>8. Names' /\ OneLeft' /\ ReuseNeedsReplay'
  BY <1>1, <1>2, <1>4 DEF Inv, Names, OneLeft, ReuseNeedsReplay, All, SessionsOf
<1>9. SessionKept'
  <2>1. \A s \in data.sessions : s \in data'.sessions \/ s.sid \in hist'.over
    BY <1>2, <1>4 DEF ClientSessions
  <2> QED BY <1>1, <1>4, <2>1 DEF Inv, SessionKept, RefreshLives
<1>10. Marks'
  <2>1. /\ \A d \in Clients : Known(data', d) <=> Known(data, d)
        /\ data.revokedAt \in [Clients -> Nat] /\ data.cut \in [Clients -> 0..MaxTokens]
    BY <1>1, <1>2 DEF Known, Contains, DataType
  <2>2. \A d \in Clients : data'.cut[d] <= last
    BY <1>1, <1>2, <2>1 DEF Inv, Marks
  <2>3. ASSUME NEW g \in All, g.jti <= data'.cut[g.client], Known(data', g.client)
        PROVE  g.iat < data'.revokedAt[g.client]
    <3>1. g.client \in Clients /\ g.iat \in Nat /\ g.iat <= now
      BY <1>1 DEF All, Grants, Inv, Marks
    <3>2. CASE g.client = c
      <4>1. data'.revokedAt[c] = now + 1
        BY <1>2, <2>1, <2>3, <3>1, <3>2
      <4> QED BY <1>1, <3>1, <3>2, <4>1
    <3>3. CASE g.client # c
      BY <1>2, <2>1, <2>3, <3>1, <3>3 DEF Inv, Marks
    <3> QED BY <3>2, <3>3
  <2> QED BY <1>1, <1>2, <1>4, <2>2, <2>3 DEF Inv, Marks, All
<1> QED BY <1>7, <1>8, <1>9, <1>10 DEF Inv

\* Revoking everything marks every grant there is.
LEMMA RevokeAllKeeps == ASSUME Inv, RevokeAll PROVE Inv'
<1> USE SessionsAssumption
<1>1. /\ data \in DataType /\ hist \in HistType /\ last \in 0..MaxTokens /\ now \in Nat
      /\ granted \subseteq Grants /\ minting \subseteq Grants
      /\ UNCHANGED <<codes, minting, granted, born, last, now>>
  BY DEF Inv, TypeOK, RevokeAll
<1>2. /\ data'.sessions = {} /\ data'.epoch = data.epoch + 1
      /\ data'.clients = data.clients
      /\ data'.revokedAt = [c \in Clients |-> IF Known(data, c) THEN now + 1
                                              ELSE data.revokedAt[c]]
      /\ data'.cut = [c \in Clients |-> last]
      /\ data' = [data EXCEPT !.epoch = data'.epoch, !.sessions = data'.sessions,
                              !.cut = data'.cut, !.revokedAt = data'.revokedAt]
  BY <1>1 DEF RevokeAll, EndAll, DataType
<1>3. data' \in DataType
  <2>1. data.revokedAt \in [Clients -> Nat] /\ data.epoch \in Nat /\ now + 1 \in Nat
    BY <1>1 DEF DataType
  <2>2. \A c \in Clients : (IF Known(data, c) THEN now + 1 ELSE data.revokedAt[c]) \in Nat
    BY <2>1
  <2>3. data'.revokedAt \in [Clients -> Nat] /\ data'.cut \in [Clients -> 0..MaxTokens]
    BY <1>1, <1>2, <2>2
  <2>4. data'.epoch \in Nat
    <3>1. data'.epoch = data.epoch + 1
      BY <1>2
    <3> QED BY <2>1, <3>1
  <2>5. data'.sessions \in SUBSET Grants
    BY <1>2
  <2> QED BY <1>1, <1>2, <2>3, <2>4, <2>5 DEF DataType
<1>4. /\ hist'.over = hist.over \cup {s.sid : s \in data.sessions}
      /\ hist'.allCut = last
      /\ UNCHANGED <<hist.rotated, hist.forked>>
      /\ hist' = [hist EXCEPT !.over = hist'.over, !.allCut = hist'.allCut]
  BY <1>1 DEF RevokeAll, HistType
<1>5. {s.sid : s \in data.sessions} \subseteq Tokens
  BY <1>1 DEF DataType, Grants
<1>6. hist' \in HistType
  BY <1>1, <1>4, <1>5 DEF HistType
<1>7. TypeOK'
  BY <1>1, <1>2, <1>3, <1>6 DEF Inv, TypeOK
<1>8. Names' /\ OneLeft' /\ ReuseNeedsReplay'
  BY <1>1, <1>2, <1>4 DEF Inv, Names, OneLeft, ReuseNeedsReplay, All, SessionsOf
<1>9. SessionKept'
  BY <1>1, <1>4 DEF Inv, SessionKept, RefreshLives
<1>10. Marks'
  <2>1. \A d \in Clients : Known(data', d) <=> Known(data, d)
    BY <1>2 DEF Known, Contains
  <2>2. ASSUME NEW g \in All
        PROVE  /\ g.iat <= now /\ g.epoch < data'.epoch /\ g.epoch <= data'.epoch
               /\ Known(data', g.client) => g.iat < data'.revokedAt[g.client]
    <3>1. g.client \in Clients /\ g.iat \in Nat /\ g.iat <= now
          /\ g.epoch \in Nat /\ g.epoch <= data.epoch /\ data.epoch \in Nat
      BY <1>1 DEF All, Grants, Inv, Marks, DataType
    <3>2. g.epoch < data'.epoch /\ g.epoch <= data'.epoch
      <4>1. data'.epoch = data.epoch + 1
        BY <1>2
      <4> HIDE DEF All
      <4> QED BY <3>1, <4>1
    <3>3. ASSUME Known(data', g.client) PROVE g.iat < data'.revokedAt[g.client]
      <4>1. data'.revokedAt[g.client] = now + 1
        BY <1>2, <2>1, <3>1, <3>3
      <4> QED BY <1>1, <3>1, <4>1
    <3> QED BY <3>1, <3>2, <3>3
  <2>3. \A c \in Clients : data'.cut[c] <= last
    <3>1. \A c \in Clients : data'.cut[c] = last
      BY <1>2
    <3>2. last <= last
      BY <1>1
    <3> QED BY <3>1, <3>2
  <2>4. UNCHANGED <<now, last>> /\ hist'.allCut = last /\ All' = All
    BY <1>1, <1>4 DEF All
  <2> HIDE DEF All
  <2>5. hist'.allCut <= last'
    BY <1>1, <2>4
  <2> QED BY <2>2, <2>3, <2>4, <2>5 DEF Marks
<1> QED BY <1>7, <1>8, <1>9, <1>10 DEF Inv

\* Time only takes tokens' lives.
LEMMA TickKeeps == ASSUME Inv, Tick PROVE Inv'
<1> USE SessionsAssumption
<1>1. /\ UNCHANGED <<data, codes, minting, granted, born, last, hist>>
      /\ now' = now + 1 /\ now \in Nat /\ now' \in 0..MaxTime
      /\ \A g \in All : g.iat \in Nat
      /\ minting \subseteq Grants /\ granted \subseteq Grants
  BY DEF Inv, TypeOK, Tick, All, Grants
<1>2. TypeOK'
  BY <1>1 DEF Inv, TypeOK
<1>3. Names' /\ OneLeft' /\ ReuseNeedsReplay'
  BY <1>1 DEF Inv, Names, OneLeft, ReuseNeedsReplay, All, SessionsOf
<1>4. Marks'
  <2>1. \A g \in All : g.iat <= now => g.iat <= now'
    BY <1>1
  <2> QED BY <1>1, <2>1 DEF Inv, Marks, All, Known, Contains
<1>5. SessionKept'
  <2>1. \A g \in granted : RefreshLives(g)' => RefreshLives(g)
    BY <1>1 DEF RefreshLives, All
  <2> QED BY <1>1, <2>1 DEF Inv, SessionKept, RefreshLives
<1> QED BY <1>2, <1>3, <1>4, <1>5 DEF Inv

LEMMA StepsSound == Inv /\ [Next]_vars => Inv'
<1> SUFFICES ASSUME Inv, [Next]_vars PROVE Inv'
  OBVIOUS
<1>1. ASSUME NEW c \in Clients, Register(c) PROVE Inv'
  BY <1>1, RegisterKeeps
<1>2. ASSUME NEW c \in Clients, Consent(c) \/ BurnCode(c) PROVE Inv'
  BY <1>2, CodesKeep
<1>3. ASSUME NEW c \in Clients, Redeem(c) PROVE Inv'
  BY <1>3, RedeemKeeps
<1>4. ASSUME NEW c \in Clients, RevokeClient(c) PROVE Inv'
  BY <1>4, RevokeClientKeeps
<1>5. ASSUME NEW g \in granted, Refresh(g) PROVE Inv'
  BY <1>5, RefreshKeeps
<1>6. ASSUME NEW g \in minting, Mint(g) PROVE Inv'
  BY <1>6, MintKeeps
<1>7. ASSUME NEW sid \in Tokens, RevokeSession(sid) PROVE Inv'
  BY <1>7, RevokeSessionKeeps
<1>8. CASE UNCHANGED vars
  BY <1>8 DEF vars, Inv, TypeOK, Names, OneLeft, Marks, ReuseNeedsReplay, SessionKept,
     All, SessionsOf, RefreshLives, Known, Contains
<1> QED BY <1>1, <1>2, <1>3, <1>4, <1>5, <1>6, <1>7, <1>8, RevokeAllKeeps, PruneKeeps,
     TickKeeps DEF Next, Request

-----------------------------------------------------------------------------
(* Theorems.                                                               *)

LEMMA AlwaysSound == Spec => []Inv
BY StartsSound, StepsSound, PTL DEF Spec

\* The store, the codes and the tokens keep their types; there is one record for
\* a session id, and at most MaxClients registrations.
THEOREM TypeCorrect == Spec => []TypeOK
<1>1. Inv => TypeOK
  BY DEF Inv
<1> QED BY AlwaysSound, <1>1, PTL

\* verifyAccessToken() refuses every token minted before the last withdrawal of
\* its client's tokens, or of all tokens, whenever its pair was recorded.
THEOREM WithdrawalHolds == Spec => []WithdrawnRefused
<1>1. Inv => WithdrawnRefused
  <2> SUFFICES ASSUME Inv, NEW g \in granted, Accepted(data, g)
               PROVE  /\ g.jti > hist.allCut
                      /\ Known(data, g.client) => g.jti > data.cut[g.client]
    BY DEF WithdrawnRefused
  <2>1. /\ g \in Grants /\ g \in All /\ hist.allCut \in Nat /\ data.epoch \in Nat
        /\ g.jti \in Nat /\ g.epoch \in Nat /\ g.client \in Clients
        /\ data.cut[g.client] \in Nat
    BY SessionsAssumption DEF Inv, TypeOK, DataType, HistType, Grants, All, Tokens
  <2>2. /\ g.epoch >= data.epoch
        /\ ~(Known(data, g.client) /\ g.iat < data.revokedAt[g.client])
    BY DEF Accepted, ClientRevoked
  <2>3. ~(g.epoch < data.epoch)
    BY <2>1, <2>2
  <2>4. ~(g.jti <= hist.allCut)
    BY <2>1, <2>3 DEF Inv, Marks
  <2>5. Known(data, g.client) => ~(g.jti <= data.cut[g.client])
    BY <2>1, <2>2 DEF Inv, Marks
  <2> QED BY <2>1, <2>4, <2>5
<1> QED BY AlwaysSound, <1>1, PTL

\* rotate() calls a refresh token reused only if it, or another of its session,
\* really was presented again.
THEOREM ReuseIsReplay == Spec => []ReuseNeedsReplay
<1>1. Inv => ReuseNeedsReplay
  BY DEF Inv
<1> QED BY AlwaysSound, <1>1, PTL

\* A refresh token not yet redeemed finds its session until it expires, unless
\* the session was revoked, deleted for a reuse, or forked.
THEOREM NoSessionLost == Spec => []SessionKept
<1>1. Inv => SessionKept
  BY DEF Inv
<1> QED BY AlwaysSound, <1>1, PTL

\* A session that is gone with no refresh under way never comes back.
THEOREM DeathIsFinal == Spec => DeadForGood
<1>1. Inv /\ [Next]_vars => [StaysDead]_vars
  <2> SUFFICES ASSUME Inv, Next, NEW sid \in Tokens, Dead(sid) PROVE Dead(sid)'
    BY DEF StaysDead
  <2> USE DEF Dead, SessionsOf
  <2>0. data \in DataType
    BY DEF Inv, TypeOK
  <2>1. ASSUME NEW c \in Clients,
               Register(c) \/ Consent(c) \/ BurnCode(c) \/ RevokeClient(c)
        PROVE  data'.sessions \subseteq data.sessions /\ UNCHANGED <<minting, granted>>
    <3>1. CASE Register(c)
      BY <2>0, <3>1 DEF DataType, Register, PutClient
    <3>2. CASE Consent(c) \/ BurnCode(c)
      BY <3>2 DEF Consent, BurnCode
    <3>3. CASE RevokeClient(c)
      BY <2>0, <3>3 DEF DataType, RevokeClient, Cut, Withdrawn, Without
    <3> QED BY <2>1, <3>1, <3>2, <3>3
  <2>2. ASSUME NEW c \in Clients, Redeem(c) PROVE Dead(sid)'
    <3>1. sid # last + 1
      BY SessionsAssumption DEF Inv, TypeOK, Names, All, Grants, Tokens
    <3> QED BY <2>2, <3>1 DEF Redeem, StartMint, Fresh
  <2>3. ASSUME NEW g \in granted, Refresh(g) PROVE Dead(sid)'
    <3>1. g.sid # sid /\ data \in DataType
      BY <2>3 DEF Refresh, Inv, TypeOK
    <3> QED BY <2>3, <3>1 DEF Refresh, DeleteSession, Without, DataType, StartMint, Fresh
  <2>4. ASSUME NEW g \in minting, Mint(g) PROVE Dead(sid)'
    BY <2>4 DEF Mint, PutSession, Without, Inv, TypeOK, DataType
  <2>5. ASSUME NEW s \in Tokens, RevokeSession(s)
        PROVE  data'.sessions \subseteq data.sessions /\ UNCHANGED <<minting, granted>>
    BY <2>5 DEF RevokeSession, DeleteSession, Without, Inv, TypeOK, DataType
  <2>6. ASSUME RevokeAll \/ Prune \/ Tick
        PROVE  data'.sessions \subseteq data.sessions /\ UNCHANGED <<minting, granted>>
    BY <2>6 DEF RevokeAll, EndAll, Prune, Without, Tick, Inv, TypeOK, DataType
  <2>7. data'.sessions \subseteq data.sessions /\ UNCHANGED <<minting, granted>>
        => Dead(sid)'
    OBVIOUS
  <2> QED BY <2>1, <2>2, <2>3, <2>4, <2>5, <2>6, <2>7 DEF Next, Request
<1> QED BY AlwaysSound, <1>1, PTL DEF Spec, DeadForGood

-----------------------------------------------------------------------------
(* The sessions in their file.                                             *)

\* What StateFileProofs shows, of the file these sessions are kept in.
Kept == INSTANCE StateFileProofs
          WITH mem <- data, Empty <- NoData, States <- DataType, Later <- Growing

\* A grant is older than the next one, and its client was given its id before.
Issued ==
  /\ codes \subseteq born /\ born \subseteq Clients
  /\ minting \subseteq Grants /\ granted \subseteq Grants
  /\ last \in 0..MaxTokens /\ now \in 0..MaxTime
  /\ \A g \in All : g.sid <= last /\ g.jti <= last /\ g.client \in born /\ g.iat <= now

\* A version of the data refuses the tokens it has withdrawn.
Marked(d) ==
  /\ \A c \in Clients : d.cut[c] <= last /\ (Known(d, c) => c \in born)
  /\ \A g \in All :
       Known(d, g.client) /\ g.jti <= d.cut[g.client] => g.iat < d.revokedAt[g.client]

\* The versions there are: in memory, on disk, and on the way there.
Versions == {data, disk} \cup {chain[i] : i \in 1..Len(chain)}

Surviving ==
  /\ Kept!Inv
  /\ Issued
  /\ \A d \in Versions : Marked(d)

\* What a request may do to the grants.
Onward ==
  /\ Issued'
  /\ last <= last' /\ born \subseteq born'
  /\ \A g \in All' : g \in All \/ g.jti > last

LEMMA FileApplies == Kept!FileAssumption
<1> USE SessionsAssumption
<1>1. NoData \in DataType
  <2>1. <<>> \in Seq(Clients)
    OBVIOUS
  <2> QED BY <2>1 DEF DataType, NoData
<1>2. \A d \in DataType : d.epoch \in Nat /\ \A c \in Clients : d.cut[c] \in Nat
  BY DEF DataType
<1>3. \A d, e \in DataType :
        <<d, e>> \in Growing <=> /\ d.epoch <= e.epoch
                                 /\ \A c \in Clients : d.cut[c] <= e.cut[c]
  BY DEF Growing
<1>4. \A d \in DataType : <<d, d>> \in Growing
  BY <1>2, <1>3
<1>5. ASSUME NEW d \in DataType, NEW e \in DataType, NEW f \in DataType,
             <<d, e>> \in Growing, <<e, f>> \in Growing
      PROVE  <<d, f>> \in Growing
  BY <1>2, <1>3, <1>5
<1>6. Growing \subseteq DataType \X DataType
  BY DEF Growing
<1> QED BY <1>1, <1>4, <1>5, <1>6, DurableAssumption DEF Kept!FileAssumption

\* A version stays marked: what is granted later is newer than its withdrawals.
LEMMA StillMarked ==
  ASSUME NEW d \in DataType, Issued, Marked(d), Onward
  PROVE  Marked(d)'
<1> USE SessionsAssumption
<1>1. /\ last \in Nat /\ last' \in Nat /\ last <= last' /\ born \subseteq born'
      /\ \A g \in All' : g \in All \/ g.jti > last
      /\ \A g \in All' : g.jti \in Nat /\ g.client \in Clients
  BY DEF Issued, Onward, All, Grants, Tokens
<1>2. \A c \in Clients : d.cut[c] \in Nat /\ d.cut[c] <= last
  BY DEF Marked, DataType
<1>3. \A g \in All' : g \notin All => ~(g.jti <= d.cut[g.client])
  BY <1>1, <1>2
<1>4. \A c \in Clients : d.cut[c] <= last'
  BY <1>1, <1>2
<1> QED BY <1>1, <1>3, <1>4 DEF Marked, Known, Contains

\* A grant that starts to be minted is newer than all others.
LEMMA FreshIssued ==
  ASSUME Issued, data \in DataType, NEW sid \in 1..(last + 1), NEW c \in born,
         StartMint(Fresh(sid, c)), UNCHANGED <<granted, born, now>>, codes' \subseteq codes
  PROVE  Onward
<1> USE SessionsAssumption
<1> DEFINE n == Fresh(sid, c)
<1>1. /\ last \in Nat /\ last < MaxTokens /\ now \in Nat /\ data.epoch \in Nat
      /\ c \in Clients
      /\ last' = last + 1 /\ minting' = minting \cup {n}
  BY DEF Issued, DataType, StartMint
<1>2. n \in Grants /\ n.sid = sid /\ n.jti = last + 1 /\ n.client = c /\ n.iat = now
  BY <1>1 DEF Fresh, Grants, Tokens
<1>3. All' = All \cup {n}
  BY <1>1 DEF All
<1>4. \A g \in All : /\ g.sid <= last /\ g.sid \in Nat /\ g.jti <= last /\ g.jti \in Nat
                    /\ g.client \in born /\ g.iat <= now
  BY DEF Issued, All, Grants, Tokens
<1> HIDE DEF n
<1>5. \A g \in All' : g.sid <= last' /\ g.jti <= last' /\ g.client \in born /\ g.iat <= now
  <2>1. \A g \in All : g.sid <= last + 1 /\ g.jti <= last + 1
    BY <1>1, <1>4
  <2>2. n.sid <= last + 1 /\ n.jti <= last + 1 /\ n.iat <= now
    BY <1>1, <1>2
  <2> QED BY <1>1, <1>2, <1>3, <1>4, <2>1, <2>2
<1>6. n.jti > last /\ last <= last' /\ last' \in 0..MaxTokens
  BY <1>1, <1>2
<1>7. Issued'
  BY <1>1, <1>2, <1>5, <1>6 DEF Issued
<1> QED BY <1>3, <1>6, <1>7 DEF Onward

LEMMA RequestIssues == ASSUME Issued, data \in DataType, Request PROVE Onward
<1> USE SessionsAssumption
<1>0. last \in Nat
  BY DEF Issued
<1>1. ASSUME NEW c \in Clients, Register(c) \/ Consent(c) \/ BurnCode(c) \/ RevokeClient(c)
      PROVE  Onward
  <2>1. /\ UNCHANGED <<minting, granted, last, now>>
        /\ born \subseteq born' /\ born' \subseteq Clients /\ codes' \subseteq born'
    BY <1>1 DEF Register, Consent, BurnCode, RevokeClient, Issued
  <2> QED BY <1>0, <2>1 DEF Onward, Issued, All
<1>2. ASSUME NEW c \in Clients, Redeem(c) PROVE Onward
  <2>1. last + 1 \in 1..(last + 1) /\ c \in born
    BY <1>0, <1>2 DEF Redeem, Issued
  <2> QED BY <1>2, <2>1, FreshIssued DEF Redeem
<1>3. ASSUME NEW g \in granted, Refresh(g) PROVE Onward
  <2>1. CASE UNCHANGED <<minting, last>>
    BY <1>0, <1>3, <2>1 DEF Refresh, Onward, Issued, All
  <2>2. CASE StartMint(Fresh(g.sid, g.client))
    <3>1. g.client \in born /\ g.sid \in 1..(last + 1)
      BY <1>0 DEF Issued, All, Grants, Tokens
    <3> QED BY <1>3, <2>2, <3>1, FreshIssued DEF Refresh
  <2> QED BY <1>3, <2>1, <2>2 DEF Refresh
<1>4. ASSUME NEW g \in minting, Mint(g) PROVE Onward
  BY <1>0, <1>4 DEF Mint, Onward, Issued, All
<1>5. ASSUME NEW sid \in Tokens, RevokeSession(sid) PROVE Onward
  BY <1>0, <1>5 DEF RevokeSession, Onward, Issued, All
<1>6. CASE RevokeAll \/ Prune
  BY <1>0, <1>6 DEF RevokeAll, Prune, Onward, Issued, All
<1> QED BY <1>1, <1>2, <1>3, <1>4, <1>5, <1>6 DEF Request

\* What a request leaves in memory is a version that comes after the one before,
\* and refuses what it has withdrawn.
Grown == data' \in DataType /\ <<data, data'>> \in Growing /\ Marked(data)'

\* It is enough that the marks themselves stay as they were.
LEMMA SameMarks ==
  ASSUME Issued, data \in DataType, Marked(data), Onward, data' \in DataType,
         UNCHANGED <<data.clients, data.revokedAt, data.epoch, data.cut>>
  PROVE  Grown
<1>1. PICK d \in DataType : d = data
  OBVIOUS
<1>2. Marked(d)'
  BY <1>1, StillMarked
<1>3. Marked(data)'
  BY <1>1, <1>2 DEF Marked, Known, Contains
<1>4. <<data, data'>> \in Growing
  <2>1. data.epoch \in Nat /\ \A c \in Clients : data.cut[c] \in Nat
    BY DEF DataType
  <2> QED BY <2>1 DEF Growing
<1> QED BY <1>3, <1>4 DEF Grown

LEMMA SessionsGrow ==
  ASSUME Issued, data \in DataType, Marked(data), Onward, NEW s \in SUBSET Grants,
         data' = [data EXCEPT !.sessions = s]
  PROVE  Grown
<1>1. /\ data' \in DataType
      /\ UNCHANGED <<data.clients, data.revokedAt, data.epoch, data.cut>>
  BY DEF DataType
<1> QED BY <1>1, SameMarks

LEMMA RegisterGrows ==
  ASSUME Issued, data \in DataType, Marked(data), Onward, NEW c \in Clients, Register(c)
  PROVE  Grown
<1> USE SessionsAssumption
<1> DEFINE all == Append(data.clients, c)
           some == IF Len(all) > MaxClients THEN Tail(all) ELSE all
<1>1. data' = [data EXCEPT !.clients = some] /\ UNCHANGED <<minting, granted, last>>
      /\ c \notin born /\ c \in born' /\ born \subseteq born'
  BY DEF Register, PutClient
<1>2. data.clients \in Seq(Clients)
  BY DEF DataType
<1>3. /\ all \in Seq(Clients) /\ Len(all) = Len(data.clients) + 1
      /\ \A i \in 1..Len(all) :
           all[i] = c \/ \E j \in 1..Len(data.clients) : all[i] = data.clients[j]
  BY <1>2
<1>4. /\ some \in Seq(Clients)
      /\ \A i \in 1..Len(some) : \E j \in 1..Len(all) : some[i] = all[j]
  <2>1. Tail(all) \in Seq(Clients) /\ Len(Tail(all)) = Len(all) - 1
        /\ \A i \in 1..Len(Tail(all)) : Tail(all)[i] = all[i + 1]
    BY <1>2, <1>3
  <2> HIDE DEF all
  <2>2. Len(all) \in Nat /\ \A i \in 1..Len(Tail(all)) : i + 1 \in 1..Len(all)
    BY <1>3, <2>1
  <2> QED BY <1>3, <2>1, <2>2
<1> HIDE DEF all, some
<1>5. /\ data'.clients = some /\ data' \in DataType
      /\ UNCHANGED <<data.revokedAt, data.epoch, data.cut>>
  BY <1>1, <1>4 DEF DataType
<1>6. \A e \in Clients : Known(data', e) => Known(data, e) \/ e = c
  <2>1. ASSUME NEW e \in Clients, Known(data', e) PROVE Known(data, e) \/ e = c
    <3>1. PICK i \in 1..Len(some) : some[i] = e
      BY <1>5, <2>1 DEF Known, Contains
    <3>2. PICK j \in 1..Len(all) : all[j] = e
      BY <1>4, <3>1
    <3> QED BY <1>3, <3>2 DEF Known, Contains
  <2> QED BY <2>1
<1>7. \A g \in All : g.client \in Clients /\ g.client # c
  BY <1>1 DEF Issued, All, Grants
<1>8. Marked(data)'
  <2>1. \A e \in Clients : data'.cut[e] <= last' /\ (Known(data', e) => e \in born')
    BY <1>1, <1>5, <1>6 DEF Marked
  <2>2. All' = All
    BY <1>1 DEF All
  <2> QED BY <1>5, <1>6, <1>7, <2>1, <2>2 DEF Marked
<1>9. <<data, data'>> \in Growing
  <2>1. data.epoch \in Nat /\ \A e \in Clients : data.cut[e] \in Nat
    BY DEF DataType
  <2> QED BY <1>5, <2>1 DEF Growing
<1> QED BY <1>5, <1>8, <1>9 DEF Grown

LEMMA RevokeClientGrows ==
  ASSUME Issued, data \in DataType, Marked(data), NEW c \in Clients, RevokeClient(c)
  PROVE  Grown
<1> USE SessionsAssumption
<1>1. /\ last \in 0..MaxTokens /\ now \in Nat /\ now + 1 \in Nat
      /\ minting \subseteq Grants /\ granted \subseteq Grants
      /\ UNCHANGED <<minting, granted, born, last, now>>
  BY DEF Issued, RevokeClient
<1>2. /\ data' = [data EXCEPT !.sessions = data'.sessions, !.revokedAt = data'.revokedAt,
                              !.cut = data'.cut]
      /\ data'.sessions = data.sessions \ ClientSessions(data, c)
      /\ data'.revokedAt = [data.revokedAt EXCEPT ![c] = IF Known(data, c) THEN now + 1 ELSE @]
      /\ data'.cut = [data.cut EXCEPT ![c] = last]
      /\ UNCHANGED <<data.clients, data.epoch>>
  BY DEF RevokeClient, Cut, Withdrawn, Without, DataType, Known
<1>3. /\ data.revokedAt \in [Clients -> Nat] /\ data.cut \in [Clients -> 0..MaxTokens]
      /\ data.sessions \subseteq Grants /\ data.epoch \in Nat
  BY DEF DataType
<1>4. data'.revokedAt \in [Clients -> Nat] /\ data'.cut \in [Clients -> 0..MaxTokens]
  <2> HIDE DEF Known
  <2> QED BY <1>1, <1>2, <1>3
<1>5. data' \in DataType
  BY <1>2, <1>3, <1>4 DEF DataType
<1>6. \A d \in Clients : data.cut[d] <= data'.cut[d] /\ data'.cut[d] <= last
  BY <1>1, <1>2, <1>3 DEF Marked
<1>7. <<data, data'>> \in Growing
  <2>1. data.epoch <= data'.epoch
    BY <1>2, <1>3
  <2> QED BY <1>5, <1>6, <2>1 DEF Growing
<1>8. \A d \in Clients : Known(data', d) <=> Known(data, d)
  BY <1>2 DEF Known, Contains
<1>9. ASSUME NEW g \in All, g.jti <= data'.cut[g.client], Known(data', g.client)
      PROVE  g.iat < data'.revokedAt[g.client]
  <2>1. g.client \in Clients /\ g.iat \in Nat /\ g.iat <= now
    BY <1>1 DEF All, Grants, Issued
  <2>2. CASE g.client = c
    <3>1. data'.revokedAt[c] = now + 1
      BY <1>2, <1>3, <1>8, <1>9, <2>1, <2>2
    <3> QED BY <1>1, <2>1, <2>2, <3>1
  <2>3. CASE g.client # c
    BY <1>2, <1>3, <1>8, <1>9, <2>1, <2>3 DEF Marked
  <2> QED BY <2>2, <2>3
<1>10. Marked(data)'
  <2>1. All' = All
    BY <1>1 DEF All
  <2>2. \A d \in Clients : Known(data', d) => d \in born'
    BY <1>1, <1>8 DEF Marked
  <2> QED BY <1>1, <1>6, <1>9, <2>1, <2>2 DEF Marked
<1> QED BY <1>5, <1>7, <1>10 DEF Grown

LEMMA RevokeAllGrows ==
  ASSUME Issued, data \in DataType, Marked(data), RevokeAll
  PROVE  Grown
<1> USE SessionsAssumption
<1>1. /\ last \in 0..MaxTokens /\ now \in Nat /\ now + 1 \in Nat
      /\ minting \subseteq Grants /\ granted \subseteq Grants
      /\ UNCHANGED <<minting, granted, born, last, now>>
  BY DEF Issued, RevokeAll
<1>2. /\ data'.sessions = {} /\ data'.epoch = data.epoch + 1
      /\ data'.clients = data.clients
      /\ data'.revokedAt = [c \in Clients |-> IF Known(data, c) THEN now + 1
                                              ELSE data.revokedAt[c]]
      /\ data'.cut = [c \in Clients |-> last]
      /\ data' = [data EXCEPT !.epoch = data'.epoch, !.sessions = data'.sessions,
                              !.cut = data'.cut, !.revokedAt = data'.revokedAt]
  BY DEF RevokeAll, EndAll, DataType
<1>3. /\ data.revokedAt \in [Clients -> Nat] /\ data.cut \in [Clients -> 0..MaxTokens]
      /\ data.epoch \in Nat
  BY DEF DataType
<1>4. data'.revokedAt \in [Clients -> Nat] /\ data'.cut \in [Clients -> 0..MaxTokens]
  <2>1. \A c \in Clients : (IF Known(data, c) THEN now + 1 ELSE data.revokedAt[c]) \in Nat
    BY <1>1, <1>3
  <2> QED BY <1>1, <1>2, <2>1
<1>5. data'.epoch \in Nat /\ data.epoch <= data'.epoch
  <2>1. data'.epoch = data.epoch + 1
    BY <1>2
  <2> QED BY <1>3, <2>1
<1>6. data' \in DataType
  BY <1>2, <1>4, <1>5 DEF DataType
<1>7. \A c \in Clients : data'.cut[c] = last /\ data.cut[c] <= last
  BY <1>2 DEF Marked
<1>8. <<data, data'>> \in Growing
  BY <1>5, <1>6, <1>7 DEF Growing
<1>9. \A c \in Clients : Known(data', c) <=> Known(data, c)
  BY <1>2 DEF Known, Contains
<1>10. ASSUME NEW g \in All, Known(data', g.client)
       PROVE  g.iat < data'.revokedAt[g.client]
  <2>1. g.client \in Clients /\ g.iat \in Nat /\ g.iat <= now
    BY <1>1 DEF All, Grants, Issued
  <2>2. data'.revokedAt[g.client] = now + 1
    BY <1>2, <1>9, <1>10, <2>1
  <2> QED BY <1>1, <2>1, <2>2
<1>11. Marked(data)'
  <2>1. All' = All
    BY <1>1 DEF All
  <2>2. \A c \in Clients : data'.cut[c] <= last' /\ (Known(data', c) => c \in born')
    BY <1>1, <1>7, <1>9 DEF Marked
  <2> QED BY <1>10, <2>1, <2>2 DEF Marked
<1> QED BY <1>6, <1>8, <1>11 DEF Grown

LEMMA RequestGrows ==
  ASSUME Issued, data \in DataType, Marked(data), Request
  PROVE  Onward /\ Grown
<1>0. Onward
  BY RequestIssues
<1>1. CASE UNCHANGED data
  BY <1>0, <1>1, SameMarks
<1>2. ASSUME NEW s \in SUBSET Grants, data' = [data EXCEPT !.sessions = s] PROVE Grown
  BY <1>0, <1>2, SessionsGrow
<1>3. \A s : data.sessions \ s \in SUBSET Grants
  BY DEF DataType
<1>4. ASSUME NEW c \in Clients,
             Register(c) \/ Consent(c) \/ Redeem(c) \/ BurnCode(c) \/ RevokeClient(c)
      PROVE  Grown
  BY <1>0, <1>1, <1>4, RegisterGrows, RevokeClientGrows DEF Consent, Redeem, BurnCode
<1>5. ASSUME NEW g \in granted, Refresh(g) PROVE Grown
  <2>1. CASE data' = DeleteSession(data, g.sid)
    BY <1>2, <1>3, <2>1 DEF DeleteSession, Without
  <2> QED BY <1>1, <1>5, <2>1 DEF Refresh
<1>6. ASSUME NEW g \in minting, Mint(g) PROVE Grown
  <2>1. data' = [data EXCEPT !.sessions = (data.sessions \ SessionsOf(data, g.sid)) \cup {g}]
    BY <1>6 DEF Mint, PutSession, Without, DataType
  <2>2. (data.sessions \ SessionsOf(data, g.sid)) \cup {g} \in SUBSET Grants
    BY DEF DataType, Issued
  <2> QED BY <1>2, <2>1, <2>2
<1>7. ASSUME NEW sid \in Tokens, RevokeSession(sid) PROVE Grown
  BY <1>2, <1>3, <1>7 DEF RevokeSession, DeleteSession, Without
<1>8. CASE Prune
  BY <1>0, <1>2, <1>3, <1>8 DEF Prune, Without
<1>9. CASE RevokeAll
  BY <1>0, <1>9, RevokeAllGrows
<1> QED BY <1>0, <1>4, <1>5, <1>6, <1>7, <1>8, <1>9 DEF Request

-----------------------------------------------------------------------------
(* Every step is one of the file's, and keeps the marks.                   *)

LEMMA VersionsTyped == ASSUME Kept!TypeOK PROVE Versions \subseteq DataType
BY DEF Kept!TypeOK, Versions

\* A write moves a version along, and makes none.
LEMMA WriteMoves ==
  ASSUME Kept!TypeOK, Write
  PROVE  Versions' \subseteq Versions /\ [Kept!Next]_Kept!vars
<1>1. chain \in Seq(DataType) /\ UNCHANGED data
  BY DEF Write, Kept!TypeOK, File!Flush, File!Lands, File!Dequeue, File!Fails, File!Close
<1>2. ASSUME chain' = Append(chain, data), UNCHANGED disk PROVE Versions' \subseteq Versions
  <2>1. /\ Len(chain') = Len(chain) + 1
        /\ \A i \in 1..Len(chain') : chain'[i] = data \/ (i \in 1..Len(chain) /\ chain'[i] = chain[i])
    BY <1>1, <1>2
  <2> QED BY <1>1, <1>2, <2>1 DEF Versions
<1>3. ASSUME chain # <<>>, chain' = Tail(chain), disk' \in {disk, Head(chain)}
      PROVE  Versions' \subseteq Versions
  <2>1. /\ Head(chain) = chain[1] /\ 1 \in 1..Len(chain)
        /\ \A i \in 1..Len(chain') : i + 1 \in 1..Len(chain) /\ chain'[i] = chain[i + 1]
    BY <1>1, <1>3
  <2> QED BY <1>1, <1>3, <2>1 DEF Versions
<1>4. CASE File!Flush
  <2>1. Kept!Flush
    BY <1>4 DEF File!Flush, Kept!Flush, File!Running, Kept!Running
  <2>2. chain' = Append(chain, data) /\ UNCHANGED disk
    BY <1>4 DEF File!Flush
  <2> QED BY <1>2, <2>1, <2>2 DEF Kept!Next
<1>5. CASE File!Lands
  <2>1. Kept!Lands
    BY <1>5 DEF File!Lands, Kept!Lands, File!Running, Kept!Running, File!Dequeue, Kept!Dequeue
  <2>2. chain # <<>> /\ chain' = Tail(chain) /\ disk' = Head(chain)
    BY <1>5 DEF File!Lands, File!Dequeue
  <2> QED BY <1>3, <2>1, <2>2 DEF Kept!Next
<1>6. CASE File!Fails
  <2>1. Kept!Fails
    BY <1>6 DEF File!Fails, Kept!Fails, File!Running, Kept!Running, File!Dequeue, Kept!Dequeue
  <2>2. chain # <<>> /\ chain' = Tail(chain) /\ disk' = disk
    BY <1>6 DEF File!Fails, File!Dequeue
  <2> QED BY <1>3, <2>1, <2>2 DEF Kept!Next
<1>7. CASE File!Close
  <2>1. Kept!Close
    BY <1>7 DEF File!Close, Kept!Close
  <2>2. /\ chain' = Append(chain, data) \/ chain' = chain
        /\ UNCHANGED disk
    BY <1>7 DEF File!Close
  <2>3. CASE chain' = chain
    BY <1>1, <2>1, <2>2, <2>3 DEF Kept!Next, Versions
  <2> QED BY <1>2, <2>1, <2>2, <2>3 DEF Kept!Next
<1> QED BY <1>4, <1>5, <1>6, <1>7 DEF Write

\* A stop leaves the file.
LEMMA StopLeaves ==
  ASSUME Kept!TypeOK, Exit \/ Crash
  PROVE  Versions' \subseteq Versions /\ Kept!Next
<1>1. Kept!Exit \/ Kept!Crash
  BY DEF Exit, Crash, File!Exit, Kept!Exit, File!Crash, Kept!Crash, File!Gone, Kept!Gone,
     File!Running, Kept!Running
<1>2. chain' = <<>> /\ UNCHANGED <<data, disk>>
  BY <1>1 DEF Kept!Exit, Kept!Crash, Kept!Gone
<1>3. \A i \in 1..Len(chain') : FALSE
  BY <1>2
<1> QED BY <1>1, <1>2, <1>3 DEF Kept!Next, Versions

\* A start reads a version with the marks of the file.
LEMMA StartReads ==
  ASSUME Kept!TypeOK, Start
  PROVE  /\ Kept!Next
         /\ data' \in DataType /\ UNCHANGED <<disk, chain>>
         /\ data'.clients = disk.clients /\ data'.revokedAt = disk.revokedAt
         /\ data'.epoch = disk.epoch /\ data'.cut = disk.cut
<1>1. disk \in DataType
  BY DEF Kept!TypeOK
<1>2. data' = [disk EXCEPT !.sessions = disk.sessions \ Expired(disk)]
      /\ UNCHANGED <<disk, chain>> /\ Kept!Open(data')
  BY DEF Start, File!Open, Kept!Open, Without
<1>3. /\ data' \in DataType
      /\ data'.clients = disk.clients /\ data'.revokedAt = disk.revokedAt
      /\ data'.epoch = disk.epoch /\ data'.cut = disk.cut
  BY <1>1, <1>2 DEF DataType
<1>4. <<disk, data'>> \in Growing
  <2>1. disk.epoch \in Nat /\ \A c \in Clients : disk.cut[c] \in Nat
    BY <1>1 DEF DataType
  <2> QED BY <1>1, <1>3, <2>1 DEF Growing
<1> QED BY <1>2, <1>3, <1>4 DEF Kept!Next

LEMMA StaysIssued ==
  ASSUME Issued, UNCHANGED <<granted, born, last>>, codes' \subseteq codes,
         minting' \subseteq minting, now' \in 0..MaxTime, now <= now'
  PROVE  Onward
<1>1. last \in Nat /\ now \in Nat /\ now' \in Nat /\ \A g \in All : g.iat \in Nat /\ g.iat <= now
  BY DEF Issued, All, Grants
<1>2. \A g \in All : g.iat <= now'
  BY <1>1
<1> QED BY <1>1, <1>2 DEF Onward, Issued, All

LEMMA DurableStep ==
  ASSUME Surviving, [DurableNext]_durableVars
  PROVE  Surviving' /\ [Kept!Next]_Kept!vars
<1>1. Kept!Inv /\ Kept!TypeOK /\ Issued /\ data \in DataType /\ Marked(data) /\ disk \in DataType
      /\ Versions \subseteq DataType /\ \A d \in Versions : Marked(d)
  BY VersionsTyped DEF Surviving, Kept!Inv, Kept!TypeOK, Versions
<1>2. [Kept!Next]_Kept!vars => Kept!Inv'
  BY <1>1, FileApplies, Kept!StepInv
<1>3. ASSUME Onward, Versions' \subseteq Versions
      PROVE  Issued' /\ \A d \in Versions' : Marked(d)'
  BY <1>1, <1>3, StillMarked DEF Onward
<1>4. CASE Serve
  <2>1. Onward /\ Grown
    BY <1>1, <1>4, RequestGrows DEF Serve
  <2>2. [Kept!Next]_Kept!vars
    <3>1. CASE data' = data
      BY <1>4, <3>1 DEF Serve, fileVars, Kept!vars
    <3>2. CASE data' # data
      <4>1. Kept!Save(data')
        BY <1>4, <3>2 DEF Serve, File!Save, Kept!Save, File!Running, Kept!Running
      <4> QED BY <2>1, <4>1 DEF Grown, Kept!Next
    <3> QED BY <3>1, <3>2
  <2>3. UNCHANGED <<disk, chain>>
    BY <1>4 DEF Serve, fileVars, File!Save
  <2>4. \A d \in Versions : Marked(d)'
    BY <1>1, <2>1, StillMarked
  <2>5. \A d \in Versions' : Marked(d)'
    BY <2>1, <2>3, <2>4 DEF Grown, Versions
  <2> QED BY <1>2, <2>1, <2>2, <2>5 DEF Surviving, Onward
<1>5. CASE Clock
  <2>1. Onward /\ UNCHANGED <<data, disk, chain>> /\ UNCHANGED Kept!vars
    <3>1. UNCHANGED <<granted, born, last, codes, minting>> /\ now' \in 0..MaxTime /\ now <= now'
      BY <1>1, <1>5, SessionsAssumption DEF Clock, Tick, Issued
    <3> QED BY <1>1, <1>5, <3>1, StaysIssued DEF Clock, Tick, fileVars, Kept!vars
  <2> QED BY <1>2, <1>3, <2>1 DEF Surviving, Versions
<1>6. CASE Write
  <2>1. Onward
    <3>1. UNCHANGED <<granted, born, last, codes, minting>> /\ now' \in 0..MaxTime /\ now <= now'
      BY <1>1, <1>6, SessionsAssumption DEF Write, clientVars, Issued
    <3> QED BY <1>1, <3>1, StaysIssued
  <2> QED BY <1>1, <1>2, <1>3, <1>6, <2>1, WriteMoves DEF Surviving
<1>7. CASE Exit \/ Crash
  <2>1. Onward
    <3>1. UNCHANGED <<granted, born, last>> /\ codes' = {} /\ minting' = {}
          /\ now' \in 0..MaxTime /\ now <= now'
      BY <1>1, <1>7, SessionsAssumption DEF Exit, Crash, Stop, clientVars, Issued
    <3> QED BY <1>1, <3>1, StaysIssued
  <2> QED BY <1>1, <1>2, <1>3, <1>7, <2>1, StopLeaves DEF Surviving
<1>8. CASE Start
  <2>1. Onward
    <3>1. UNCHANGED <<granted, born, last, codes, minting>> /\ now' \in 0..MaxTime /\ now <= now'
      BY <1>1, <1>8, SessionsAssumption DEF Start, clientVars, Issued
    <3> QED BY <1>1, <3>1, StaysIssued
  <2>2. /\ Kept!Next /\ data' \in DataType /\ UNCHANGED <<disk, chain>>
        /\ data'.clients = disk.clients /\ data'.revokedAt = disk.revokedAt
        /\ data'.epoch = disk.epoch /\ data'.cut = disk.cut
    BY <1>1, <1>8, StartReads
  <2>3. \A d \in Versions : Marked(d)'
    BY <1>1, <2>1, StillMarked
  <2>4. PICK d \in DataType : d = disk
    BY <1>1
  <2>5. Marked(data)'
    BY <2>2, <2>3, <2>4 DEF Versions, Marked, Known, Contains
  <2>6. \A e \in Versions' : Marked(e)'
    BY <2>2, <2>3, <2>5 DEF Versions
  <2> QED BY <1>2, <2>1, <2>2, <2>6 DEF Surviving, Onward
<1>9. CASE UNCHANGED durableVars
  <2>1. UNCHANGED Kept!vars /\ UNCHANGED <<codes, minting, granted, born, last, now>>
    BY <1>9 DEF durableVars, clientVars, fileVars, Kept!vars
  <2>2. now' \in 0..MaxTime /\ now <= now'
    BY <1>1, <2>1, SessionsAssumption DEF Issued
  <2>3. Onward
    BY <1>1, <2>1, <2>2, StaysIssued
  <2>4. Versions' \subseteq Versions
    BY <2>1 DEF Kept!vars, Versions
  <2> QED BY <1>2, <1>3, <2>1, <2>3, <2>4 DEF Surviving
<1> QED BY <1>4, <1>5, <1>6, <1>7, <1>8, <1>9 DEF DurableNext

-----------------------------------------------------------------------------
(* As long as every stop lost nothing, the sessions go on as if there had  *)
(* been none.                                                              *)

Uninterrupted ==
  /\ clean => Inv
  /\ clean /\ phase = "off" => tidy /\ ~failed

\* Codes and tokens being signed may be lost.
LEMMA DroppingKeeps ==
  ASSUME Inv, codes' = {}, minting' = {}, UNCHANGED <<data, granted, born, last, now, hist>>
  PROVE  Inv'
<1>1. TypeOK'
  BY DEF Inv, TypeOK
<1>2. All' \subseteq All
  BY DEF All
<1>3. Names' /\ OneLeft' /\ ReuseNeedsReplay' /\ SessionKept'
  BY <1>2 DEF Inv, Names, OneLeft, ReuseNeedsReplay, SessionKept, All, SessionsOf, RefreshLives
<1>4. Marks'
  BY <1>2 DEF Inv, Marks, Known, Contains
<1> QED BY <1>1, <1>3, <1>4 DEF Inv

\* So may the sessions that have expired.
LEMMA ExpiryKeeps ==
  ASSUME Inv, data' = Without(data, Expired(data)),
         UNCHANGED <<codes, minting, granted, born, last, now, hist>>
  PROVE  Inv'
<1>1. data \in DataType /\ hist \in HistType /\ now \in Nat
  BY SessionsAssumption DEF Inv, TypeOK
<1>2. data' = [data EXCEPT !.sessions = data'.sessions]
      /\ data'.sessions = data.sessions \ Expired(data)
  BY <1>1 DEF Without, DataType
<1>3. hist' = [hist EXCEPT !.over = hist'.over] /\ hist'.over = hist.over
      /\ hist'.over \subseteq Tokens
  BY <1>1 DEF HistType
<1>4. \A s \in data.sessions : s \in data'.sessions \/ ~RefreshLives(s)
  <2>1. \A s \in data.sessions : s.iat \in Nat
    BY <1>1 DEF DataType, Grants
  <2> QED BY <1>1, <1>2, <2>1, SessionsAssumption DEF Expired, RefreshLives
<1>5. data'.sessions \subseteq data.sessions
  BY <1>2
<1> QED BY <1>2, <1>3, <1>4, <1>5, EndingKeeps

LEMMA UninterruptedStep ==
  ASSUME Uninterrupted, Kept!Inv, [DurableNext]_durableVars
  PROVE  Uninterrupted'
<1>1. CASE Serve \/ Clock \/ Write \/ UNCHANGED durableVars
  <2>1. [Next]_vars
    BY <1>1 DEF Serve, Clock, Write, File!Flush, File!Lands, File!Fails, File!Close, File!Dequeue,
       clientVars, durableVars, vars, Next
  <2>2. clean' = clean
    BY <1>1 DEF Serve, Clock, Write, durableVars
  <2>3. phase' = "off" => phase = "off" /\ UNCHANGED <<tidy, failed>>
    <3>1. CASE Serve
      BY <3>1 DEF Serve, File!Running, File!Save, fileVars
    <3>2. CASE Clock \/ UNCHANGED durableVars
      BY <3>2 DEF Clock, durableVars, fileVars
    <3>3. CASE Write
      BY <3>3 DEF Write, File!Running, File!Flush, File!Lands, File!Fails, File!Close, File!Dequeue
    <3> QED BY <1>1, <3>1, <3>2, <3>3
  <2> QED BY <2>1, <2>2, <2>3, StepsSound DEF Uninterrupted
<1>2. CASE Exit
  <2>1. /\ clean' => clean /\ tidy /\ ~failed
        /\ UNCHANGED <<data, granted, born, last, now, hist, tidy, failed>>
        /\ codes' = {} /\ minting' = {}
    BY <1>2 DEF Exit, File!Exit, File!Gone, Stop, clientVars
  <2> QED BY <2>1, DroppingKeeps DEF Uninterrupted
<1>3. CASE Crash
  BY <1>3 DEF Crash, Uninterrupted
<1>4. CASE Start
  <2>1. /\ phase = "off" /\ phase' = "up" /\ clean' = clean
        /\ data' = Without(disk, Expired(disk))
        /\ UNCHANGED <<codes, minting, granted, born, last, now, hist>>
    BY <1>4 DEF Start, File!Open, clientVars
  <2>2. clean => disk = data
    BY <2>1 DEF Uninterrupted, Kept!Inv, Kept!CloseKeepsAll
  <2> QED BY <2>1, <2>2, ExpiryKeeps DEF Uninterrupted
<1> QED BY <1>1, <1>2, <1>3, <1>4 DEF DurableNext

LEMMA DurableStarts == DurableInit => Surviving /\ Uninterrupted /\ Kept!Init
<1> SUFFICES ASSUME DurableInit PROVE Surviving /\ Uninterrupted /\ Kept!Init
  OBVIOUS
<1>1. Kept!Init /\ Init
  BY DEF DurableInit, File!Init, Kept!Init
<1>2. Kept!Inv
  BY <1>1, FileApplies, Kept!InitInv
<1>3. Inv /\ phase = "up"
  BY <1>1, StartsSound DEF Kept!Init
<1>4. Issued
  BY <1>1, SessionsAssumption DEF Init, Issued, All
<1>5. \A d \in Versions : Marked(d)
  <2>1. Len(chain) = 0 /\ data = NoData /\ disk = NoData
    BY <1>1 DEF Kept!Init
  <2>2. \A i \in 1..Len(chain) : FALSE
    BY <2>1
  <2>3. Versions = {NoData}
    BY <2>1, <2>2 DEF Versions
  <2>4. Marked(NoData)
    <3>1. All = {} /\ last = 0
      BY <1>1 DEF Init, All
    <3>2. \A c \in Clients : ~Known(NoData, c)
      <4>1. \A i \in 1..Len(<<>>) : FALSE
        OBVIOUS
      <4> QED BY <4>1 DEF NoData, Known, Contains
    <3>3. \A c \in Clients : NoData.cut[c] = 0
      BY DEF NoData
    <3> QED BY <3>1, <3>2, <3>3 DEF Marked
  <2> QED BY <2>3, <2>4
<1> QED BY <1>1, <1>2, <1>3, <1>4, <1>5 DEF Surviving, Uninterrupted

LEMMA DurableSound == DurableSpec => [](Surviving /\ Uninterrupted)
<1>1. Surviving /\ Uninterrupted /\ [DurableNext]_durableVars => (Surviving /\ Uninterrupted)'
  BY DurableStep, UninterruptedStep DEF Surviving
<1> QED BY <1>1, DurableStarts, PTL DEF DurableSpec

\* The sessions are kept in the file as StateFile says, where later means that no
\* withdrawal is taken back: every step of requests, writes, crashes and restarts
\* is a step of StateFile or none.
THEOREM SessionsKeptInFile == DurableSpec => Kept!Spec
<1>1. Surviving /\ [DurableNext]_durableVars => [Kept!Next]_Kept!vars
  BY DurableStep
<1> QED BY <1>1, DurableStarts, DurableSound, PTL DEF DurableSpec, Kept!Spec

\* So what the file says of withdrawals and epochs never goes back, whatever
\* writes are slow, fail, or are overtaken by a crash.
THEOREM FileKeepsWithdrawals == DurableSpec => File!DiskMovesOn
<1>1. DurableSpec => Kept!DiskMovesOn
  BY SessionsKeptInFile, FileApplies, Kept!FileMovesOn
<1>2. Kept!DiskMovesOn => File!DiskMovesOn
  BY DEF Kept!DiskMovesOn, File!DiskMovesOn, Kept!MovesOn, File!MovesOn, Kept!vars, File!vars
<1> QED BY <1>1, <1>2

\* verifyAccessToken() refuses what was withdrawn in a state that has reached the
\* file, after whatever crashes and restarts.
THEOREM WithdrawalSurvives == DurableSpec => []WithdrawalOnDiskHolds
<1>1. Surviving => WithdrawalOnDiskHolds
  <2> SUFFICES ASSUME Surviving, File!Running, NEW g \in granted,
                      Known(disk, g.client), Known(data, g.client),
                      g.jti <= disk.cut[g.client], Accepted(data, g)
               PROVE  FALSE
    BY DEF WithdrawalOnDiskHolds
  <2>1. <<disk, data>> \in Growing /\ disk \in DataType /\ data \in DataType
    BY DEF Surviving, Kept!Inv, Kept!TypeOK, Kept!Ordered, Kept!Running, File!Running
  <2>2. g \in All /\ g.client \in Clients /\ g.jti \in Nat /\ g.iat \in Nat
    BY DEF Surviving, Issued, All, Grants, Tokens
  <2>3. disk.cut[g.client] \in Nat /\ data.cut[g.client] \in Nat
        /\ disk.cut[g.client] <= data.cut[g.client] /\ data.revokedAt[g.client] \in Nat
    BY <2>1, <2>2 DEF Growing, DataType
  <2>4. g.jti <= data.cut[g.client]
    BY <2>2, <2>3
  <2>5. Marked(data)
    BY DEF Surviving, Versions
  <2>6. g.iat < data.revokedAt[g.client]
    BY <2>2, <2>4, <2>5 DEF Marked
  <2> QED BY <2>6 DEF Accepted, ClientRevoked
<1> QED BY <1>1, DurableSound, PTL

\* Shutdowns whose last write landed cost no client its session, and make no
\* honest client look like a replay.
THEOREM CleanRestartsAreFree == DurableSpec => []CleanRestartsCostNothing
<1>1. Uninterrupted => CleanRestartsCostNothing
  BY DEF Uninterrupted, Inv, CleanRestartsCostNothing
<1> QED BY <1>1, DurableSound, PTL
=============================================================================
