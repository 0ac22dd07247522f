------------------------------ MODULE WSClient ------------------------------
(***************************************************************************)
(* One tunnel connection (ws_client.go): goroutines calling Send at the    *)
(* same time, the read loop that routes responses to them, Close from      *)
(* outside, and, at the other end, the holloway client (connectOnce), which *)
(* reads one request, forwards it to the local app and writes one response *)
(* before it reads the next.  A region under WSClient.mu is one step.      *)
(*                                                                         *)
(* Every Send makes a channel of its own; number n, drawn from seq, names  *)
(* both the Send and its channel.  Messages carry the key the code routes  *)
(* by and, to state the properties, the number of the Send they belong to. *)
(***************************************************************************)
EXTENDS Integers, Sequences

CONSTANTS
  Sender,   \* goroutines that call Send
  Webhook,  \* what they send; two may send the same
  MaxSeq    \* bound: Sends on this connection

ASSUME WSAssumption == MaxSeq \in Nat /\ Webhook \cap (1..MaxSeq) = {}

VARIABLES
  seq,       \* the counter of correlation IDs
  pc,        \* where each Send is
  num,       \* its number (0 before the first)
  req,       \* the webhook it sends
  got,       \* the number of the Send whose response it returned; 0: an error
  pending,   \* the map from key to channel; 0: no entry
  chan,      \* the buffered response in each channel, as a number; 0: none
  closed,    \* the closed channel
  link,      \* the websocket: "up", "lost" (peer gone) or "closed" (CloseNow)
  toClient,  \* requests on the wire
  toServer,  \* responses on the wire
  reader,    \* where the read loop is
  inHand,    \* the response it holds
  target,    \* the channel it looked up
  remote,    \* requests the holloway client is working on: none or one
  closer     \* is a Close from outside between its two halves?

sends  == <<seq, pc, num, req, got>>
wire   == <<toClient, toServer, remote>>
loop   == <<reader, inHand, target>>
vars   == <<sends, pending, chan, closed, link, wire, loop, closer>>

Num == 1..MaxSeq
Key == Num \cup Webhook
Message == [key: Key, num: Num]
SendPC == {"idle", "register", "write", "wait", "closenow", "remove"}

Init ==
  /\ seq = 0
  /\ pc = [s \in Sender |-> "idle"]
  /\ num = [s \in Sender |-> 0]
  /\ req \in [Sender -> Webhook]
  /\ got = [s \in Sender |-> 0]
  /\ pending = [k \in Key |-> 0]
  /\ chan = [n \in Num |-> 0]
  /\ closed = FALSE /\ link = "up" /\ closer = FALSE
  /\ toClient = <<>> /\ toServer = <<>> /\ remote = <<>>
  /\ reader = "read" /\ inHand = <<>> /\ target = 0

\* Mutant: the counter is read before it is incremented.
PreviousID(n, h) == n - 1

\* Mutant: responses are routed by the ID of the webhook.
KeyOfWebhook(n, h) == h

\* The ID a request is sent with: the per-send sequence number.
CorrelationID(n, h) == n

KeyOf(s) == CorrelationID(num[s], req[s])

Goto(s, next) == pc' = [pc EXCEPT ![s] = next]

\* closePending, under once.Do.
ClosePending ==
  /\ closed' = TRUE
  /\ pending' = IF closed THEN pending ELSE [k \in Key |-> 0]

----------------------------------------------------------------------------
(* Send. *)

Send(s, h) ==
  /\ pc[s] = "idle" /\ seq < MaxSeq
  /\ seq' = seq + 1
  /\ num' = [num EXCEPT ![s] = seq']
  /\ req' = [req EXCEPT ![s] = h]
  /\ got' = [got EXCEPT ![s] = 0]
  /\ Goto(s, "register")
  /\ UNCHANGED <<pending, chan, closed, link, wire, loop, closer>>

\* Mutant: nobody looks whether the client is closed.
RegisterAlways(s) ==
  /\ pc[s] = "register"
  /\ pending' = [pending EXCEPT ![KeyOf(s)] = num[s]] /\ Goto(s, "write")
  /\ UNCHANGED <<seq, num, req, got, chan, closed, link, wire, loop, closer>>

RegisterSend(s) ==
  /\ pc[s] = "register"
  /\ IF closed THEN Goto(s, "idle") /\ UNCHANGED pending
     ELSE pending' = [pending EXCEPT ![KeyOf(s)] = num[s]] /\ Goto(s, "write")
  /\ UNCHANGED <<seq, num, req, got, chan, closed, link, wire, loop, closer>>

\* The write fails when the connection is gone; when the deadline passes during
\* the write, the websocket library drops the connection.
Write(s) ==
  /\ pc[s] = "write"
  /\ \/ /\ link = "up"
        /\ toClient' = Append(toClient, [key |-> KeyOf(s), num |-> num[s]])
        /\ Goto(s, "wait")
        /\ UNCHANGED link
     \/ /\ link' = IF link = "up" THEN "lost" ELSE link
        /\ Goto(s, "remove")
        /\ UNCHANGED toClient
  /\ UNCHANGED <<seq, num, req, got, pending, chan, closed, toServer, remote, loop, closer>>

\* The three cases of the select.
Receive(s) ==
  /\ pc[s] = "wait" /\ chan[num[s]] # 0
  /\ got' = [got EXCEPT ![s] = chan[num[s]]]
  /\ chan' = [chan EXCEPT ![num[s]] = 0]
  /\ Goto(s, "remove")
  /\ UNCHANGED <<seq, num, req, pending, closed, link, wire, loop, closer>>

\* Mutant: Send does not wait for the closed channel.
NeverSeesClosed(s) == FALSE /\ UNCHANGED vars

SeeClosed(s) ==
  /\ pc[s] = "wait" /\ closed
  /\ Goto(s, "remove")
  /\ UNCHANGED <<seq, num, req, got, pending, chan, closed, link, wire, loop, closer>>

\* Mutant: a Send that times out leaves the connection open.
ExpireQuietly(s) ==
  /\ pc[s] = "wait"
  /\ Goto(s, "remove")
  /\ UNCHANGED <<seq, num, req, got, pending, chan, closed, link, wire, loop, closer>>

\* The deadline passes: Send closes the connection, in two halves.
Expire(s) ==
  /\ pc[s] = "wait"
  /\ ClosePending
  /\ Goto(s, "closenow")
  /\ UNCHANGED <<seq, num, req, got, chan, link, wire, loop, closer>>

ExpireCloseNow(s) ==
  /\ pc[s] = "closenow"
  /\ link' = "closed"
  /\ Goto(s, "remove")
  /\ UNCHANGED <<seq, num, req, got, pending, chan, closed, wire, loop, closer>>

\* The deferred removePending.
RemovePending(s) ==
  /\ pc[s] = "remove"
  /\ pending' = [pending EXCEPT ![KeyOf(s)] = 0]
  /\ Goto(s, "idle")
  /\ UNCHANGED <<seq, num, req, got, chan, closed, link, wire, loop, closer>>

----------------------------------------------------------------------------
(* Close, from the hub or from handleTunnel. *)

Close ==
  /\ ~closer /\ link # "closed"
  /\ ClosePending
  /\ closer' = TRUE
  /\ UNCHANGED <<sends, chan, link, wire, loop>>

CloseNow ==
  /\ closer /\ closer' = FALSE
  /\ link' = "closed"
  /\ UNCHANGED <<sends, pending, chan, closed, wire, loop>>

----------------------------------------------------------------------------
(* readLoop. *)

ReadResponse ==
  /\ reader = "read" /\ link # "closed" /\ toServer # <<>>
  /\ inHand' = <<Head(toServer)>> /\ toServer' = Tail(toServer)
  /\ reader' = "lookup"
  /\ UNCHANGED <<sends, pending, chan, closed, link, toClient, remote, target, closer>>

Lookup ==
  /\ reader = "lookup"
  /\ target' = pending[inHand[1].key]
  /\ reader' = "deliver"
  /\ UNCHANGED <<sends, pending, chan, closed, link, wire, inHand, closer>>

\* Outside the lock: the Send may have returned by now.  A full channel drops the
\* response.
Deliver ==
  /\ reader = "deliver"
  /\ chan' = IF target = 0 THEN chan
             ELSE [chan EXCEPT ![target] = IF @ = 0 THEN inHand[1].num ELSE @]
  /\ reader' = "read" /\ inHand' = <<>> /\ target' = 0
  /\ UNCHANGED <<sends, pending, closed, link, wire, closer>>

\* The read fails; the deferred closePending wakes every Send.
ReadFails ==
  /\ reader = "read" /\ link # "up"
  /\ reader' = "done"
  /\ ClosePending
  /\ UNCHANGED <<sends, chan, link, wire, inHand, target, closer>>

----------------------------------------------------------------------------
(* The peer (connectOnce), and the network. *)

RemoteRead ==
  /\ link = "up" /\ remote = <<>> /\ toClient # <<>>
  /\ remote' = <<Head(toClient)>> /\ toClient' = Tail(toClient)
  /\ UNCHANGED <<sends, pending, chan, closed, link, toServer, loop, closer>>

\* forwardLocal has returned, and its result is written back under the request's ID.
RemoteWrite ==
  /\ remote # <<>>
  /\ toServer' = IF link = "up" THEN toServer \o remote ELSE toServer
  /\ remote' = <<>>
  /\ UNCHANGED <<sends, pending, chan, closed, link, toClient, loop, closer>>

LinkLost ==
  /\ link = "up" /\ link' = "lost"
  /\ UNCHANGED <<sends, pending, chan, closed, wire, loop, closer>>

----------------------------------------------------------------------------

SendNext(s) ==
  \/ \E h \in Webhook : Send(s, h)
  \/ RegisterSend(s) \/ Write(s) \/ Receive(s) \/ SeeClosed(s)
  \/ Expire(s) \/ ExpireCloseNow(s) \/ RemovePending(s)

LoopNext == ReadResponse \/ Lookup \/ Deliver \/ ReadFails

PeerNext == RemoteRead \/ RemoteWrite \/ LinkLost

Next ==
  \/ \E s \in Sender : SendNext(s)
  \/ Close
  \/ CloseNow
  \/ LoopNext
  \/ PeerNext

Spec == Init /\ [][Next]_vars

\* The goroutines run, and the peer answers as long as the connection lasts.  No
\* deadline has to pass, nothing has to be sent, closed or lost.
SendProgress(s) ==
  RegisterSend(s) \/ Write(s) \/ Receive(s) \/ SeeClosed(s) \/ ExpireCloseNow(s) \/ RemovePending(s)

FairSpec ==
  /\ Spec
  /\ \A s \in Sender : WF_vars(SendProgress(s))
  /\ WF_vars(LoopNext) /\ WF_vars(CloseNow)
  /\ WF_vars(RemoteRead \/ RemoteWrite)

----------------------------------------------------------------------------
(* Properties. *)

\* Every variable has its type.
TypeOK ==
  /\ seq \in 0..MaxSeq
  /\ pc \in [Sender -> SendPC]
  /\ num \in [Sender -> 0..MaxSeq] /\ got \in [Sender -> 0..MaxSeq]
  /\ req \in [Sender -> Webhook]
  /\ pending \in [Key -> 0..MaxSeq] /\ chan \in [Num -> 0..MaxSeq]
  /\ closed \in BOOLEAN /\ closer \in BOOLEAN
  /\ link \in {"up", "lost", "closed"}
  /\ toClient \in Seq(Message) /\ toServer \in Seq(Message) /\ remote \in Seq(Message)
  /\ reader \in {"read", "lookup", "deliver", "done"}
  /\ inHand \in Seq(Message) /\ target \in 0..MaxSeq

\* A Send that returns a response returns the response to its own request, though
\* the same webhook may be in flight twice and the answer may come late.
OwnResponse == \A s \in Sender : got[s] # 0 => got[s] = num[s]

\* The map holds the Sends in flight and nothing else: no entry outlives its Send,
\* and none is left or added once the client is closed.
PendingIsInFlight ==
  /\ closed => \A k \in Key : pending[k] = 0
  /\ \A k \in Key : pending[k] # 0 =>
       \E s \in Sender : /\ num[s] = pending[k] /\ KeyOf(s) = k
                         /\ pc[s] \in {"write", "wait", "closenow", "remove"}

\* Every Send returns even if no deadline ever passes: it is answered, or the end
\* of the connection wakes it.
SendReturns == \A s \in Sender : (pc[s] = "register") ~> (pc[s] = "idle")

\* What a tunnel connection is as a remote call: up as long as nobody has closed it
\* and the websocket works; a Send has been answered when its response is in its channel.
Up    == link = "up" /\ ~closed
Phase == [s \in Sender |-> IF pc[s] # "wait" THEN "none"
                           ELSE IF chan[num[s]] = 0 THEN "sent" ELSE "handled"]

Call == INSTANCE TunnelCall WITH up <- Up, phase <- Phase

\* WSClient implements the remote call that the rest of the server relies on.
ImplementsCall == Call!Spec

=============================================================================
