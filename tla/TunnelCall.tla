----------------------------- MODULE TunnelCall -----------------------------
(***************************************************************************)
(* What Client.Send promises its callers (handleHook, deliverStored,       *)
(* ReplayWebhook): a remote call over a tunnel.  A call is answered at most *)
(* once, it fails only when the tunnel is down or is taken down by that    *)
(* failure, and a tunnel that is down stays down.  Relay.tla is built on   *)
(* these steps, WSClient.tla implements them over a websocket.             *)
(***************************************************************************)
CONSTANT Sender

VARIABLES up, phase

vars == <<up, phase>>

Init == up = TRUE /\ phase = [s \in Sender |-> "none"]

Step(s, from, to) ==
  /\ phase[s] = from
  /\ phase' = [phase EXCEPT ![s] = to]

Call(s)   == Step(s, "none", "sent") /\ UNCHANGED up
Answer(s) == Step(s, "sent", "handled") /\ UNCHANGED up
Return(s) == Step(s, "handled", "none") /\ UNCHANGED up

\* The connection has gone, or the caller's deadline passes and Send closes it.
Fail(s) == (Step(s, "sent", "none") \/ Step(s, "handled", "none")) /\ up' = FALSE

Down == up' = FALSE /\ UNCHANGED phase

Next == Down \/ \E s \in Sender : Call(s) \/ Answer(s) \/ Return(s) \/ Fail(s)

Spec == Init /\ [][Next]_vars

=============================================================================
