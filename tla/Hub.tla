-------------------------------- MODULE Hub --------------------------------
(***************************************************************************)
(* The tunnel registry of holloway-server (hub.go) with the handlers that  *)
(* write to it: handleTunnel, which registers a client, waits until it is  *)
(* closed and unregisters it, and handleTokenAction, which deletes a token *)
(* and disconnects its client.  Every statement on the tokens table and    *)
(* every region under Hub.mu is one step; a Close happens after the unlock *)
(* and is a step of its own.  The server may die at any time; the table    *)
(* survives, and the next start may set the secret of the bootstrap token. *)
(***************************************************************************)
CONSTANTS
  Token,   \* token IDs; created at most once, newID draws a fresh one
  Secret,  \* tunnel secrets
  Conn,    \* slots for websocket connections, used again and again
  Deleter, \* goroutines of handleTokenAction, any of them for any token
  None     \* no client, no token, no secret

ASSUME HubAssumption == None \notin Conn \cup Token \cup Secret

VARIABLES
  tokens,    \* the tokens table
  secret,    \* tunnel_secret_hash of each token
  created,   \* history: the tokens ever created
  clients,   \* Hub.clients
  closed,    \* connections whose WSClient is closed
  pc,        \* where each handleTunnel is
  tok,       \* the token it serves
  key,       \* the secret it was opened with
  old,       \* the client its Register has still to close
  delete,    \* where each handleTokenAction is
  target,    \* the token it deletes
  victim     \* the client its Disconnect has still to close

tunnels   == <<pc, tok, key, old>>
deletions == <<delete, target, victim>>
vars == <<tokens, secret, created, clients, closed, tunnels, deletions>>

TunnelPC == {"idle", "valid", "accepted", "swapped", "serving", "unregister"}
DeletePC == {"idle", "deleted", "removed"}

Init ==
  /\ tokens = {} /\ created = {}
  /\ secret = [t \in Token |-> None]
  /\ clients = [t \in Token |-> None]
  /\ closed = {}
  /\ pc = [c \in Conn |-> "idle"]
  /\ tok = [c \in Conn |-> None]
  /\ key = [c \in Conn |-> None]
  /\ old = [c \in Conn |-> None]
  /\ delete = [d \in Deleter |-> "idle"]
  /\ target = [d \in Deleter |-> None]
  /\ victim = [d \in Deleter |-> None]

\* Mutant: no test for nil.
CloseNil(c) == closed' = closed \cup {c}

\* Client.Close, after a test for nil: a closed client stays closed (once.Do).
Close(c) == closed' = closed \cup ({c} \ {None})

----------------------------------------------------------------------------
(* handleTokens and handleTokenAction. *)

CreateToken(t) ==
  /\ t \notin created
  /\ created' = created \cup {t} /\ tokens' = tokens \cup {t}
  /\ \E k \in Secret : secret' = [secret EXCEPT ![t] = k]
  /\ UNCHANGED <<clients, closed, tunnels, deletions>>

\* Deleting a token that does not exist is no error: what follows is the same.
DeleteToken(d, t) ==
  /\ delete[d] = "idle"
  /\ tokens' = tokens \ {t}
  /\ delete' = [delete EXCEPT ![d] = "deleted"]
  /\ target' = [target EXCEPT ![d] = t]
  /\ UNCHANGED <<secret, created, clients, closed, tunnels, victim>>

Disconnect(d) ==
  /\ delete[d] = "deleted"
  /\ victim' = [victim EXCEPT ![d] = clients[target[d]]]
  /\ clients' = [clients EXCEPT ![target[d]] = None]
  /\ delete' = [delete EXCEPT ![d] = "removed"]
  /\ UNCHANGED <<tokens, secret, created, closed, tunnels, target>>

CloseVictim(d) ==
  /\ delete[d] = "removed"
  /\ Close(victim[d])
  /\ victim' = [victim EXCEPT ![d] = None]
  /\ target' = [target EXCEPT ![d] = None]
  /\ delete' = [delete EXCEPT ![d] = "idle"]
  /\ UNCHANGED <<tokens, secret, created, clients, tunnels>>

----------------------------------------------------------------------------
(* handleTunnel. *)

\* Mutant: the token must exist, but any secret will do.
MatchesAny(t, k) == t \in tokens

TokenMatchesTunnelSecret(t, k) == t \in tokens /\ k = secret[t]

\* validTunnel accepts the secret; a request with a wrong one, or for a token
\* that is not there, ends here and leaves no trace.  A slot is free once nobody
\* is about to close its last client.
ValidTunnel(c, t, k) ==
  /\ pc[c] = "idle" /\ TokenMatchesTunnelSecret(t, k)
  /\ \A d \in Conn : old[d] # c
  /\ \A d \in Deleter : victim[d] # c
  /\ pc' = [pc EXCEPT ![c] = "valid"]
  /\ tok' = [tok EXCEPT ![c] = t]
  /\ key' = [key EXCEPT ![c] = k]
  /\ UNCHANGED <<tokens, secret, created, clients, closed, old, deletions>>

\* websocket.Accept fails, or succeeds and NewWSClient starts the read loop.
Accept(c) ==
  /\ pc[c] = "valid"
  /\ \/ pc' = [pc EXCEPT ![c] = "idle"] /\ UNCHANGED closed
     \/ pc' = [pc EXCEPT ![c] = "accepted"] /\ closed' = closed \ {c}
  /\ UNCHANGED <<tokens, secret, created, clients, tok, key, old, deletions>>

\* Mutant: a client is registered only where there is none.
RegisterFirst(c) ==
  /\ pc[c] = "accepted"
  /\ clients' = [clients EXCEPT ![tok[c]] = IF @ = None THEN c ELSE @]
  /\ old' = [old EXCEPT ![c] = None]
  /\ pc' = [pc EXCEPT ![c] = "swapped"]
  /\ UNCHANGED <<tokens, secret, created, closed, tok, key, deletions>>

\* Hub.Register, up to the unlock.
Register(c) ==
  /\ pc[c] = "accepted"
  /\ old' = [old EXCEPT ![c] = clients[tok[c]]]
  /\ clients' = [clients EXCEPT ![tok[c]] = c]
  /\ pc' = [pc EXCEPT ![c] = "swapped"]
  /\ UNCHANGED <<tokens, secret, created, closed, tok, key, deletions>>

CloseOld(c) ==
  /\ pc[c] = "swapped"
  /\ Close(old[c])
  /\ old' = [old EXCEPT ![c] = None]
  /\ pc' = [pc EXCEPT ![c] = "serving"]
  /\ UNCHANGED <<tokens, secret, created, clients, tok, key, deletions>>

\* The read loop ends, or a Send on this client times out and closes it; either
\* may happen as soon as there is a client.
ConnLost(c) ==
  /\ pc[c] \in {"accepted", "swapped", "serving"} /\ c \notin closed
  /\ Close(c)
  /\ UNCHANGED <<tokens, secret, created, clients, tunnels, deletions>>

\* client.Wait returns; the deferred client.Close finds it closed already.
WaitReturns(c) ==
  /\ pc[c] = "serving" /\ c \in closed
  /\ pc' = [pc EXCEPT ![c] = "unregister"]
  /\ UNCHANGED <<tokens, secret, created, clients, closed, tok, key, old, deletions>>

\* Mutant: whatever client is registered is removed.
WithoutAny(c) == [clients EXCEPT ![tok[c]] = None]

\* Mutant: the entry is left behind.
WithoutNone(c) == clients

\* The map without the entry of this very client.
WithoutOwn(c) == [clients EXCEPT ![tok[c]] = IF @ = c THEN None ELSE @]

Unregister(c) ==
  /\ pc[c] = "unregister"
  /\ clients' = WithoutOwn(c)
  /\ pc' = [pc EXCEPT ![c] = "idle"]
  /\ tok' = [tok EXCEPT ![c] = None]
  /\ key' = [key EXCEPT ![c] = None]
  /\ UNCHANGED <<tokens, secret, created, closed, old, deletions>>

----------------------------------------------------------------------------
(* The process dies and starts again. *)

\* The upsert at startup: with -bootstrap-token, the token exists from now on, and
\* has the secret of the flag.
EnsureToken(t, k) ==
  /\ tokens' = tokens \cup {t} /\ created' = created \cup {t}
  /\ secret' = [secret EXCEPT ![t] = k]

Restart ==
  /\ \/ UNCHANGED <<tokens, secret, created>>
     \/ \E t \in Token, k \in Secret : EnsureToken(t, k)
  /\ clients' = [t \in Token |-> None]
  /\ closed' = {}
  /\ pc' = [c \in Conn |-> "idle"]
  /\ tok' = [c \in Conn |-> None]
  /\ key' = [c \in Conn |-> None]
  /\ old' = [c \in Conn |-> None]
  /\ delete' = [d \in Deleter |-> "idle"]
  /\ target' = [d \in Deleter |-> None]
  /\ victim' = [d \in Deleter |-> None]

----------------------------------------------------------------------------

TunnelNext(c) ==
  \/ \E t \in Token, k \in Secret : ValidTunnel(c, t, k)
  \/ Accept(c) \/ Register(c) \/ CloseOld(c) \/ ConnLost(c) \/ WaitReturns(c) \/ Unregister(c)

DeleteNext(d) ==
  \/ \E t \in Token : DeleteToken(d, t)
  \/ Disconnect(d) \/ CloseVictim(d)

Next ==
  \/ \E c \in Conn : TunnelNext(c)
  \/ \E t \in Token : CreateToken(t)
  \/ \E d \in Deleter : DeleteNext(d)
  \/ Restart

Spec == Init /\ [][Next]_vars

\* Every handler that can take a step does.  No connection has to be opened, lost
\* or deleted, and the server does not have to die.
TunnelProgress(c) == Register(c) \/ CloseOld(c) \/ WaitReturns(c) \/ Unregister(c)
DeleteProgress(d) == Disconnect(d) \/ CloseVictim(d)

FairSpec ==
  /\ Spec
  /\ \A c \in Conn : WF_vars(TunnelProgress(c))
  /\ \A d \in Deleter : WF_vars(DeleteProgress(d))

----------------------------------------------------------------------------
(* Properties. *)

\* Every variable has its type.
TypeOK ==
  /\ tokens \subseteq created /\ created \subseteq Token
  /\ clients \in [Token -> Conn \cup {None}]
  /\ closed \subseteq Conn
  /\ pc \in [Conn -> TunnelPC]
  /\ tok \in [Conn -> Token \cup {None}]
  /\ secret \in [Token -> Secret \cup {None}] /\ key \in [Conn -> Secret \cup {None}]
  /\ old \in [Conn -> Conn \cup {None}]
  /\ delete \in [Deleter -> DeletePC]
  /\ target \in [Deleter -> Token \cup {None}]
  /\ victim \in [Deleter -> Conn \cup {None}]

Registered(c) == pc[c] \in {"swapped", "serving", "unregister"}

\* A goroutine has taken c out of the map and is about to close it.
Doomed(c) == (\E d \in Conn : old[d] = c) \/ (\E d \in Deleter : victim[d] = c)

\* A tunnel that is up is the one Forward finds for its token, or is about to be
\* closed by whoever replaced or removed it: no client ever stays connected without
\* getting webhooks.
NoOrphanTunnel ==
  \A c \in Conn : Registered(c) /\ c \notin closed => clients[tok[c]] = c \/ Doomed(c)

\* An entry of the hub belongs to that token's tunnel, and its handler is still
\* there to take it out.
NoDeadEntry ==
  \A t \in Token : clients[t] # None => Registered(clients[t]) /\ tok[clients[t]] = t

\* The secret is compared once, before the handshake, and never again; still no
\* tunnel outlives it: a tunnel for a token that exists was opened with the secret
\* the token has now, whatever was deleted, restarted or set anew meanwhile.
SecretInForce ==
  \A c \in Conn : pc[c] # "idle" /\ tok[c] \in tokens => key[c] = secret[tok[c]]

\* A closed client is not found for ever: its handler wakes up and unregisters it,
\* whoever closed it, even before it was registered.
ClosedLeavesHub ==
  \A c \in Conn, t \in Token : (clients[t] = c /\ c \in closed) ~> (clients[t] # c)

\* When a tunnel is replaced, its handler ends.
SupersededEnds ==
  \A c \in Conn :
    (pc[c] = "serving" /\ clients[tok[c]] # c) ~> (pc[c] = "idle")

\* handlers_test.go, TestDeletingTokenDisconnectsActiveTunnel: once the
\* deletions of a token are over, the hub has no tunnel for it.
DeletedTokenDisconnected ==
  \A t \in created \ tokens : (\A d \in Deleter : target[d] # t) => clients[t] = None

=============================================================================
