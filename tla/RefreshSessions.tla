-------------------------- MODULE RefreshSessions --------------------------
(***************************************************************************)
(* The OAuth layer's clients, authorization codes, tokens and refresh      *)
(* sessions, in memory (oauth/src/tokens.ts, codes.ts, store.ts, the token *)
(* endpoint of app.ts and the revocations of settings-routes.ts).          *)
(*                                                                         *)
(* Signing a pair of tokens is awaited: between the step that decides to   *)
(* mint (Redeem, Refresh) and the one that records the session (Mint),     *)
(* every other request may run.  A grant is one such pair, with what both  *)
(* tokens and the session record say.  A reply may be lost and a token     *)
(* presented again at any time.  PKCE, the redirect URI and the resource   *)
(* decide only whether a code is redeemed or burnt.                        *)
(***************************************************************************)
EXTENDS Integers, SequencesExt

CONSTANTS
  Clients,     \* client ids; registering again gives a new one
  MaxClients,  \* registrations retained (MAX_CLIENTS)
  AccessTtl, RefreshTtl,    \* in seconds of the model's clock
  MaxTokens,   \* bound: grants minted
  MaxEpoch,    \* bound: how often everything is revoked
  MaxTime      \* bound: seconds

ASSUME SessionsAssumption ==
  /\ MaxClients \in Nat \ {0}
  /\ AccessTtl \in Nat \ {0}
  /\ RefreshTtl \in Nat \ {0}
  /\ MaxTokens \in Nat
  /\ MaxEpoch \in Nat
  /\ MaxTime \in Nat

Tokens == 1..MaxTokens

\* sid is the token that opened the session; jti names this pair of tokens.
Grants == [sid : Tokens, jti : Tokens, client : Clients, epoch : Nat, iat : Nat]

VARIABLES
  data,      \* #data of the store
  codes,     \* clients with an authorization code outstanding
  minting,   \* grants being signed
  granted,   \* grants whose tokens were sent
  born,      \* clients that were given an id
  last,      \* the latest token minted, for fresh names
  now,       \* the clock
  hist       \* history

vars == <<data, codes, minting, granted, born, last, now, hist>>

DataType ==
  [ clients   : Seq(Clients),            \* the oldest registration first
    revokedAt : [Clients -> Nat],        \* 0: not revoked
    sessions  : SUBSET Grants,           \* the grant each session last recorded
    epoch     : Nat,                     \* tokenEpoch
    cut       : [Clients -> 0..MaxTokens] ] \* history: the latest token minted when
                                            \* the client's were last withdrawn
HistType ==
  [ rotated : SUBSET Tokens,   \* refresh tokens redeemed
    forked  : SUBSET Tokens,   \* sessions with a token redeemed more than once
    over    : SUBSET Tokens,   \* sessions revoked, or deleted for a reuse
    allCut  : 0..MaxTokens ]   \* the latest token minted when all were withdrawn

-----------------------------------------------------------------------------
(* store.ts                                                                *)

Known(d, c) == Contains(d.clients, c)
SessionsOf(d, sid) == {s \in d.sessions : s.sid = sid}
ClientSessions(d, c) == {s \in d.sessions : s.client = c}
Expired(d) == {s \in d.sessions : s.iat + RefreshTtl <= now}

Without(d, S) == [d EXCEPT !.sessions = @ \ S]

\* Faulty: evicting a registration takes its sessions with it.
PutClientDropping(d, c) ==
  LET all == Append(d.clients, c)
  IN  IF Len(all) > MaxClients
      THEN Without([d EXCEPT !.clients = Tail(all)], ClientSessions(d, Head(all)))
      ELSE [d EXCEPT !.clients = all]

\* putClient(), with #evictOldestClients(): past the limit the oldest goes.
PutClient(d, c) ==
  LET all == Append(d.clients, c)
  IN  [d EXCEPT !.clients = IF Len(all) > MaxClients THEN Tail(all) ELSE all]

\* Faulty: the session goes on recording the token it was opened with.
PutSessionOnce(d, g) ==
  IF SessionsOf(d, g.sid) = {} THEN [d EXCEPT !.sessions = @ \cup {g}] ELSE d

\* putSession()
PutSession(d, g) == [Without(d, SessionsOf(d, g.sid)) EXCEPT !.sessions = @ \cup {g}]

\* deleteSession()
DeleteSession(d, sid) == Without(d, SessionsOf(d, sid))

Withdrawn(d, c, at) ==
  [d EXCEPT !.revokedAt[c] = IF Known(d, c) THEN at ELSE @, !.cut[c] = last]

\* Faulty: the mark is the current second, so tokens of that second survive.
CutUnmargined(d, c) == Withdrawn(Without(d, ClientSessions(d, c)), c, now)

\* revokeClient(), stamped with revocationTimestamp()
Cut(d, c) == Withdrawn(Without(d, ClientSessions(d, c)), c, now + 1)

\* revokeEverything()
EndAll(d) ==
  [d EXCEPT !.epoch = @ + 1, !.sessions = {}, !.cut = [c \in Clients |-> last],
            !.revokedAt = [c \in Clients |-> IF Known(d, c) THEN now + 1 ELSE @[c]]]

-----------------------------------------------------------------------------
(* tokens.ts                                                               *)

AccessLives(g) == now < g.iat + AccessTtl
RefreshLives(g) == now < g.iat + RefreshTtl

\* A token of a client revoked after it was issued.
ClientRevoked(d, g) == Known(d, g.client) /\ g.iat < d.revokedAt[g.client]

\* verifyAccessToken(), at the moment it has read the signature.
Accepted(d, g) ==
  /\ AccessLives(g)
  /\ g.epoch >= d.epoch
  /\ ~ClientRevoked(d, g)
  /\ SessionsOf(d, g.sid) # {}

\* What minting starts from: the epoch and the time are read before signing.
Fresh(sid, c) ==
  [sid |-> sid, jti |-> last + 1, client |-> c, epoch |-> data.epoch, iat |-> now]

StartMint(g) ==
  /\ last < MaxTokens
  /\ last' = last + 1
  /\ minting' = minting \cup {g}

-----------------------------------------------------------------------------
(* Requests.                                                               *)

\* POST /register: registerClient() of an acceptable body.
Register(c) ==
  /\ c \notin born
  /\ born' = born \cup {c}
  /\ data' = PutClient(data, c)
  /\ UNCHANGED <<codes, minting, granted, last, now, hist>>

\* POST /authorize by the operator.  The signed form is not checked against the
\* registrations again, and outlives them.
Consent(c) ==
  /\ c \in born \ codes
  /\ codes' = codes \cup {c}
  /\ UNCHANGED <<data, minting, granted, born, last, now, hist>>

\* POST /token with a code: it is gone whatever comes of it.
Redeem(c) ==
  /\ c \in codes
  /\ codes' = codes \ {c}
  /\ StartMint(Fresh(last + 1, c))
  /\ UNCHANGED <<data, granted, born, now, hist>>

\* A code redeemed wrongly, or that expired.
BurnCode(c) ==
  /\ c \in codes
  /\ codes' = codes \ {c}
  /\ UNCHANGED <<data, minting, granted, born, last, now, hist>>

\* History of a refresh token that is redeemed.
Redeeming(g) ==
  [hist EXCEPT !.rotated = @ \cup {g.jti},
               !.forked = IF g.jti \in hist.rotated THEN @ \cup {g.sid} ELSE @]

\* POST /token with a refresh token, up to where rotate() starts to mint.  With
\* the session gone nothing changes; one that records another token is deleted.
Refresh(g) ==
  /\ g \in granted
  /\ RefreshLives(g)
  /\ \E s \in SessionsOf(data, g.sid) :
       \/ /\ s.jti # g.jti
          /\ data' = DeleteSession(data, g.sid)
          /\ hist' = [hist EXCEPT !.over = @ \cup {g.sid}]
          /\ UNCHANGED <<minting, last>>
       \/ /\ s.jti = g.jti
          /\ StartMint(Fresh(g.sid, g.client))
          /\ hist' = Redeeming(g)
          /\ UNCHANGED data
  /\ UNCHANGED <<codes, granted, born, now>>

\* Both tokens are signed: the session records the new one, whatever became of
\* it meanwhile, and the tokens are sent.
Mint(g) ==
  /\ g \in minting
  /\ minting' = minting \ {g}
  /\ granted' = granted \cup {g}
  /\ data' = PutSession(data, g)
  /\ UNCHANGED <<codes, born, last, now, hist>>

\* POST /settings/sessions/:sid/revoke
RevokeSession(sid) ==
  /\ SessionsOf(data, sid) # {}
  /\ data' = DeleteSession(data, sid)
  /\ hist' = [hist EXCEPT !.over = @ \cup {sid}]
  /\ UNCHANGED <<codes, minting, granted, born, last, now>>

\* POST /settings/clients/:id/revoke, perhaps from a page rendered before the
\* registration was evicted
RevokeClient(c) ==
  /\ c \in born
  /\ data' = Cut(data, c)
  /\ hist' = [hist EXCEPT !.over = @ \cup {s.sid : s \in ClientSessions(data, c)}]
  /\ UNCHANGED <<codes, minting, granted, born, last, now>>

\* POST /settings/clients/revoke-all, or a password change that disconnects
RevokeAll ==
  /\ data.epoch < MaxEpoch
  /\ data' = EndAll(data)
  /\ hist' = [hist EXCEPT !.over = @ \cup {s.sid : s \in data.sessions}, !.allCut = last]
  /\ UNCHANGED <<codes, minting, granted, born, last, now>>

\* pruneExpiredSessions(), every hour
Prune ==
  /\ Expired(data) # {}
  /\ data' = Without(data, Expired(data))
  /\ UNCHANGED <<codes, minting, granted, born, last, now, hist>>

Tick ==
  /\ now < MaxTime
  /\ now' = now + 1
  /\ UNCHANGED <<data, codes, minting, granted, born, last, hist>>

NoData ==
  [clients |-> <<>>, revokedAt |-> [c \in Clients |-> 0], sessions |-> {},
   epoch |-> 0, cut |-> [c \in Clients |-> 0]]

Init ==
  /\ data = NoData
  /\ codes = {} /\ minting = {} /\ granted = {} /\ born = {}
  /\ last = 0
  /\ now = 0
  /\ hist = [rotated |-> {}, forked |-> {}, over |-> {}, allCut |-> 0]

\* The requests that save, and those that do not.
Request ==
  \/ \E c \in Clients : \/ Register(c) \/ Consent(c) \/ Redeem(c) \/ BurnCode(c)
                        \/ RevokeClient(c)
  \/ \E g \in granted : Refresh(g)
  \/ \E g \in minting : Mint(g)
  \/ \E sid \in Tokens : RevokeSession(sid)
  \/ RevokeAll
  \/ Prune

Next == Request \/ Tick

Spec == Init /\ [][Next]_vars

-----------------------------------------------------------------------------
(* Properties.                                                             *)

TypeOK ==
  /\ data \in DataType
  /\ \A s, t \in data.sessions : s.sid = t.sid => s = t
  /\ Len(data.clients) <= MaxClients
  /\ codes \subseteq born /\ born \subseteq Clients
  /\ minting \subseteq Grants /\ granted \subseteq Grants
  /\ last \in 0..MaxTokens /\ now \in 0..MaxTime
  /\ hist \in HistType

\* Access tokens issued or being signed when everything is revoked are refused
\* from then on, though sessions come back by a refresh already under way; so
\* are a client's when it is revoked, as long as its registration is kept.
WithdrawnRefused ==
  \A g \in granted :
    \/ ~Accepted(data, g)
    \/ g.jti > hist.allCut /\ (Known(data, g.client) => g.jti > data.cut[g.client])

\* A token that would now be called reused was redeemed before, or another of its
\* session was redeemed twice: a client that redeems each refresh token once is
\* never cut off.
ReuseNeedsReplay ==
  \A g \in granted : \A s \in SessionsOf(data, g.sid) :
    s.jti # g.jti => g.jti \in hist.rotated \/ g.sid \in hist.forked

\* A refresh token sent and not yet redeemed works until it expires, unless its
\* session was ended or forked: rotation, pruning and evicted registrations lose
\* no session.
SessionKept ==
  \A g \in granted :
    RefreshLives(g) /\ g.jti \notin hist.rotated /\ g.sid \notin hist.over \cup hist.forked
      => g \in data.sessions

\* A session that was opened, is gone, and has no refresh under way.
Dead(sid) ==
  /\ \E g \in granted : g.sid = sid
  /\ SessionsOf(data, sid) = {}
  /\ \A g \in minting : g.sid # sid

StaysDead == \A sid \in Tokens : Dead(sid) => Dead(sid)'

\* A session that ended never comes back unless a refresh was under way when it
\* did: no stale token, code or prune opens it again.
DeadForGood == [][StaysDead]_vars

=============================================================================
