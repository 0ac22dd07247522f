----------------------------- MODULE HubProofs -----------------------------
(***************************************************************************)
(* The tunnel registry never loses a tunnel and never keeps a dead one,    *)
(* for any number of tokens, connections and deletions.                    *)
(***************************************************************************)
EXTENDS Hub, TLAPS

USE HubAssumption

(***************************************************************************)
(* The inductive invariant: beside the three properties, a handler past    *)
(* validation serves a token that was created (so no later creation gives  *)
(* that token a secret), a deletion past its statement knows its token,    *)
(* and a goroutine that owes a Close is at the step where it pays it.      *)
(***************************************************************************)
HandlerInv ==
  /\ \A c \in Conn : pc[c] # "idle" => tok[c] \in created
  /\ \A c \in Conn : old[c] # None => pc[c] = "swapped"
  /\ \A d \in Deleter : delete[d] # "idle" => target[d] \in Token
  /\ \A d \in Deleter : victim[d] # None => delete[d] = "removed"

IInv == TypeOK /\ HandlerInv /\ NoOrphanTunnel /\ NoDeadEntry /\ SecretInForce

\* The invariant holds initially.
LEMMA InitInv == Init => IInv
BY DEF Init, IInv, TypeOK, TunnelPC, DeletePC, HandlerInv, NoOrphanTunnel, NoDeadEntry,
        SecretInForce, Registered

\* A new token preserves the invariant.
LEMMA CreateInv ==
  ASSUME IInv, NEW t \in Token, CreateToken(t)
  PROVE  IInv'
<1> USE DEF IInv, CreateToken, tunnels, deletions
<1>1. TypeOK' /\ HandlerInv' /\ SecretInForce'
  BY DEF TypeOK, HandlerInv, SecretInForce
<1>2. NoOrphanTunnel' /\ NoDeadEntry'
  BY DEF NoOrphanTunnel, NoDeadEntry, Registered, Doomed
<1> QED
  BY <1>1, <1>2

\* Every step of handleTokenAction preserves the invariant.
LEMMA DeleteInv ==
  ASSUME IInv, NEW d \in Deleter, DeleteNext(d)
  PROVE  IInv'
<1> USE DEF IInv, TypeOK, DeletePC, HandlerInv, SecretInForce, tunnels, deletions
<1>1. CASE \E t \in Token : DeleteToken(d, t)
  BY <1>1 DEF DeleteToken, NoOrphanTunnel, NoDeadEntry, Registered, Doomed
<1>2. CASE Disconnect(d)
  <2> USE <1>2 DEF Disconnect
  <2>1. TypeOK' /\ HandlerInv' /\ SecretInForce'
    OBVIOUS
  <2>2. NoOrphanTunnel'
    BY DEF NoOrphanTunnel, NoDeadEntry, Registered, Doomed
  <2>3. NoDeadEntry'
    BY DEF NoDeadEntry, Registered
  <2> QED
    BY <2>1, <2>2, <2>3
<1>3. CASE CloseVictim(d)
  <2> USE <1>3 DEF CloseVictim, Close
  <2>1. TypeOK' /\ HandlerInv' /\ SecretInForce'
    OBVIOUS
  <2>2. NoOrphanTunnel'
    BY DEF NoOrphanTunnel, Registered, Doomed
  <2>3. NoDeadEntry'
    BY DEF NoDeadEntry, Registered
  <2> QED
    BY <2>1, <2>2, <2>3
<1> QED
  BY <1>1, <1>2, <1>3 DEF DeleteNext

\* Every step of handleTunnel preserves the invariant.
LEMMA TunnelInv ==
  ASSUME IInv, NEW c \in Conn, TunnelNext(c)
  PROVE  IInv'
<1> USE DEF IInv, TypeOK, TunnelPC, HandlerInv, SecretInForce, tunnels, deletions
<1>1. CASE \E t \in Token, k \in Secret : ValidTunnel(c, t, k)
  <2>0. PICK t \in Token, k \in Secret : ValidTunnel(c, t, k)
    BY <1>1
  <2> USE <2>0 DEF ValidTunnel, TokenMatchesTunnelSecret
  <2>1. TypeOK' /\ HandlerInv' /\ SecretInForce'
    OBVIOUS
  <2>2. NoOrphanTunnel'
    BY DEF NoOrphanTunnel, Registered, Doomed
  <2>3. NoDeadEntry'
    BY DEF NoDeadEntry, Registered
  <2> QED
    BY <2>1, <2>2, <2>3
<1>2. CASE Accept(c)
  <2> USE <1>2 DEF Accept
  <2>1. TypeOK' /\ HandlerInv' /\ SecretInForce'
    OBVIOUS
  <2>2. NoOrphanTunnel'
    BY DEF NoOrphanTunnel, Registered, Doomed
  <2>3. NoDeadEntry'
    BY DEF NoDeadEntry, Registered
  <2> QED
    BY <2>1, <2>2, <2>3
<1>3. CASE Register(c)
  <2> USE <1>3 DEF Register
  <2>1. TypeOK' /\ HandlerInv' /\ SecretInForce'
    OBVIOUS
  <2>2. NoOrphanTunnel'
    BY DEF NoOrphanTunnel, NoDeadEntry, Registered, Doomed
  <2>3. NoDeadEntry'
    BY DEF NoDeadEntry, Registered
  <2> QED
    BY <2>1, <2>2, <2>3
<1>4. CASE CloseOld(c)
  <2> USE <1>4 DEF CloseOld, Close
  <2>1. TypeOK' /\ HandlerInv' /\ SecretInForce'
    OBVIOUS
  <2>2. NoOrphanTunnel'
    BY DEF NoOrphanTunnel, Registered, Doomed
  <2>3. NoDeadEntry'
    BY DEF NoDeadEntry, Registered
  <2> QED
    BY <2>1, <2>2, <2>3
<1>5. CASE ConnLost(c)
  BY <1>5 DEF ConnLost, Close, NoOrphanTunnel, NoDeadEntry, Registered, Doomed
<1>6. CASE WaitReturns(c)
  BY <1>6 DEF WaitReturns, NoOrphanTunnel, NoDeadEntry, Registered, Doomed
<1>7. CASE Unregister(c)
  <2> USE <1>7 DEF Unregister, WithoutOwn
  <2>1. TypeOK' /\ HandlerInv' /\ SecretInForce'
    OBVIOUS
  <2>2. NoOrphanTunnel'
    BY DEF NoOrphanTunnel, NoDeadEntry, Registered, Doomed
  <2>3. NoDeadEntry'
    BY DEF NoDeadEntry, Registered
  <2> QED
    BY <2>1, <2>2, <2>3
<1> QED
  BY <1>1, <1>2, <1>3, <1>4, <1>5, <1>6, <1>7 DEF TunnelNext

\* A restart leaves no handler behind, so the secrets may change.
LEMMA RestartInv ==
  ASSUME IInv, Restart
  PROVE  IInv'
<1> USE DEF IInv, Restart
<1>1. TypeOK'
  BY DEF TypeOK, TunnelPC, DeletePC, EnsureToken
<1>2. HandlerInv' /\ NoOrphanTunnel' /\ NoDeadEntry' /\ SecretInForce'
  BY DEF HandlerInv, NoOrphanTunnel, NoDeadEntry, SecretInForce, Registered
<1> QED
  BY <1>1, <1>2

\* Every step preserves the invariant.
LEMMA NextInv == IInv /\ [Next]_vars => IInv'
<1> SUFFICES ASSUME IInv, [Next]_vars PROVE IInv'
  OBVIOUS
<1>1. CASE UNCHANGED vars
  BY <1>1 DEF vars, tunnels, deletions, IInv, TypeOK, HandlerInv, NoOrphanTunnel, NoDeadEntry,
              SecretInForce, Registered, Doomed
<1> QED
  BY <1>1, CreateInv, DeleteInv, TunnelInv, RestartInv DEF Next

\* The inductive invariant holds in every reachable state.
THEOREM Invariance == Spec => []IInv
BY InitInv, NextInv, PTL DEF Spec

\* Every variable keeps its type.
THEOREM TypeCorrect == Spec => []TypeOK
<1>1. IInv => TypeOK
  BY DEF IInv
<1> QED
  BY <1>1, Invariance, PTL

\* A tunnel that is up is found by Forward or about to be closed (Hub.Register,
\* Hub.Disconnect, the unregister closure).
THEOREM NoOrphans == Spec => []NoOrphanTunnel
<1>1. IInv => NoOrphanTunnel
  BY DEF IInv
<1> QED
  BY <1>1, Invariance, PTL

\* Every entry has a handler that will take it out, and is of its own token.
THEOREM NoDeadEntries == Spec => []NoDeadEntry
<1>1. IInv => NoDeadEntry
  BY DEF IInv
<1> QED
  BY <1>1, Invariance, PTL

\* Every tunnel was opened with the secret its token has now.
THEOREM SecretsInForce == Spec => []SecretInForce
<1>1. IInv => SecretInForce
  BY DEF IInv
<1> QED
  BY <1>1, Invariance, PTL

=============================================================================
