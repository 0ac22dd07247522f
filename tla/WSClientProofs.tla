--------------------------- MODULE WSClientProofs ---------------------------
(***************************************************************************)
(* A tunnel connection gives every Send its own response and implements    *)
(* the remote call of TunnelCall, for any number of goroutines, webhooks   *)
(* and Sends.                                                              *)
(*                                                                         *)
(* The argument is about identity.  A response is handed to whoever is     *)
(* registered under its key, some time after it was looked up; it is the   *)
(* right one because no two Sends share a number, a message carries the    *)
(* number of a Send that has been written, and a channel or a lookup never *)
(* holds another number than its own.                                      *)
(***************************************************************************)
EXTENDS WSClient, TLAPS

USE WSAssumption DEF Num, Key, CorrelationID, KeyOf

\* No two Sends share a number, and one that is under way has drawn it.
NumInv ==
  /\ \A s \in Sender : num[s] <= seq /\ (pc[s] # "idle" => num[s] # 0)
  /\ \A s, t \in Sender : num[s] = num[t] /\ num[s] # 0 => s = t

\* The messages that may be about: requests of Sends past their write, and the
\* responses to them.
Written ==
  {m \in Message : /\ m.key = m.num /\ m.num <= seq
                   /\ \A s \in Sender : pc[s] \in {"register", "write"} => num[s] # m.num}

\* Only such messages are on the wire or in anybody's hands.
MsgInv ==
  /\ toClient \in Seq(Written) /\ toServer \in Seq(Written)
  /\ remote \in Seq(Written) /\ inHand \in Seq(Written)

\* Between its read and its delivery the read loop holds one response, and has
\* looked up the channel of that very Send.
LoopInv ==
  /\ reader \in {"lookup", "deliver"} => Len(inHand) = 1
  /\ reader = "deliver" /\ target # 0 => target = inHand[1].num

\* A channel holds nothing but the response to its own Send, which has been written.
ChanInv ==
  \A n \in Num : chan[n] # 0 => chan[n] = n /\ [key |-> n, num |-> n] \in Written

IInv == TypeOK /\ NumInv /\ MsgInv /\ LoopInv /\ ChanInv /\ PendingIsInFlight /\ OwnResponse

----------------------------------------------------------------------------
(* What the steps are made of. *)

\* A sequence over a set is one over any larger set.
LEMMA SeqGrows ==
  ASSUME NEW S, NEW T, S \subseteq T, NEW q \in Seq(S)
  PROVE  q \in Seq(T)
OBVIOUS

\* The operations on the wire stay within the set of its messages.
LEMMA SeqParts ==
  ASSUME NEW S, NEW q \in Seq(S)
  PROVE  /\ \A e \in S : Append(q, e) \in Seq(S)
         /\ \A r \in Seq(S) : q \o r \in Seq(S)
         /\ q # <<>> => Head(q) \in S /\ Tail(q) \in Seq(S)
         /\ \A i \in 1..Len(q) : q[i] \in S
         /\ <<>> \in Seq(S) /\ \A e \in S : <<e>> \in Seq(S)
OBVIOUS

\* What has been written stays written, as long as a Send that has not written yet
\* has just drawn its number or was there before.
LEMMA WrittenGrows ==
  ASSUME IInv, seq' \in Nat, seq <= seq',
         \A s \in Sender : pc'[s] \in {"register", "write"} =>
           num'[s] > seq \/ (num'[s] = num[s] /\ pc[s] \in {"register", "write"})
  PROVE  Written \subseteq Written'
<1> SUFFICES ASSUME NEW m \in Written PROVE m \in Written'
  OBVIOUS
<1>1. m \in Message /\ m.num \in 1..MaxSeq /\ m.key = m.num /\ m.num <= seq
  BY DEF Written, Message
<1>2. seq \in Nat /\ MaxSeq \in Nat
  BY WSAssumption DEF IInv, TypeOK
<1>3. ASSUME NEW s \in Sender, pc'[s] \in {"register", "write"} PROVE num'[s] # m.num
  <2>1. CASE num'[s] > seq
    BY <1>1, <1>2, <2>1
  <2>2. CASE num'[s] = num[s] /\ pc[s] \in {"register", "write"}
    BY <2>2 DEF Written
  <2> QED
    BY <1>3, <2>1, <2>2
<1>4. m.num <= seq'
  BY <1>1, <1>2
<1> QED
  BY <1>1, <1>3, <1>4 DEF Written

\* A step of a Send that has drawn its number keeps NumInv, and forgets no message.
LEMMA GotoSafe ==
  ASSUME IInv, NEW s \in Sender, NEW p \in SendPC, Goto(s, p), UNCHANGED <<seq, num>>,
         pc[s] # "idle", p # "register", p = "write" => pc[s] = "register"
  PROVE  pc' \in [Sender -> SendPC] /\ NumInv' /\ Written \subseteq Written'
<1>1. pc' \in [Sender -> SendPC] /\ \A t \in Sender : pc'[t] = IF t = s THEN p ELSE pc[t]
  BY DEF IInv, TypeOK, Goto
<1>2. NumInv'
  BY <1>1 DEF IInv, NumInv
<1>3. seq' \in Nat /\ seq <= seq'
  BY WSAssumption DEF IInv, TypeOK
<1>4. Written \subseteq Written'
  BY <1>1, <1>3, WrittenGrows
<1> QED
  BY <1>1, <1>2, <1>4

\* MsgInv survives a step that leaves the messages alone.
LEMMA MsgFrame ==
  ASSUME IInv, Written \subseteq Written', UNCHANGED <<wire, inHand>>
  PROVE  MsgInv'
BY SeqGrows DEF IInv, MsgInv, wire

\* ChanInv survives a step that leaves the channels alone.
LEMMA ChanFrame ==
  ASSUME IInv, Written \subseteq Written', UNCHANGED chan
  PROVE  ChanInv'
BY DEF IInv, ChanInv

\* PendingIsInFlight survives a step that leaves the map alone and keeps every Send
\* in flight that was.
LEMMA PendingFrame ==
  ASSUME IInv, UNCHANGED <<pending, closed>>,
         \A s \in Sender : pc[s] \in {"write", "wait", "closenow", "remove"} =>
           num'[s] = num[s] /\ pc'[s] \in {"write", "wait", "closenow", "remove"}
  PROVE  PendingIsInFlight'
<1>1. ASSUME NEW k \in Key, pending'[k] # 0
      PROVE  \E s \in Sender : /\ num'[s] = pending'[k] /\ num'[s] = k
                               /\ pc'[s] \in {"write", "wait", "closenow", "remove"}
  <2>1. PICK s \in Sender : /\ num[s] = pending[k] /\ num[s] = k
                            /\ pc[s] \in {"write", "wait", "closenow", "remove"}
    BY <1>1 DEF IInv, PendingIsInFlight
  <2> QED
    BY <2>1
<1>2. closed' => \A k \in Key : pending'[k] = 0
  BY DEF IInv, PendingIsInFlight
<1> QED
  BY <1>1, <1>2 DEF PendingIsInFlight

\* closePending leaves an empty map.
LEMMA ClosePendingSafe ==
  ASSUME IInv, ClosePending
  PROVE  /\ closed' = TRUE /\ pending' \in [Key -> 0..MaxSeq]
         /\ PendingIsInFlight'
<1>1. closed' = TRUE /\ pending' \in [Key -> 0..MaxSeq]
  BY DEF ClosePending, IInv, TypeOK
<1>2. \A k \in Key : pending'[k] = 0
  BY DEF ClosePending, IInv, PendingIsInFlight
<1> QED
  BY <1>1, <1>2 DEF PendingIsInFlight

----------------------------------------------------------------------------
(* The steps of a Send. *)

\* Every step of Send preserves the invariant.
LEMMA SendSafe ==
  ASSUME IInv, NEW s \in Sender, SendNext(s)
  PROVE  IInv'
<1> USE DEF wire, loop, SendPC
<1>0. TypeOK /\ NumInv /\ MsgInv /\ LoopInv /\ ChanInv /\ PendingIsInFlight /\ OwnResponse
  BY DEF IInv
<1>1. ASSUME NEW h \in Webhook, Send(s, h) PROVE IInv'
  <2> USE <1>0, <1>1 DEF Send, Goto
  <2>1. seq \in Nat /\ seq' = seq + 1 /\ seq' \in 1..MaxSeq
    BY DEF TypeOK
  <2>2. /\ \A t \in Sender : /\ pc'[t] = IF t = s THEN "register" ELSE pc[t]
                             /\ num'[t] = IF t = s THEN seq + 1 ELSE num[t]
                             /\ got'[t] = IF t = s THEN 0 ELSE got[t]
        /\ TypeOK'
    <3>1. /\ pc' \in [Sender -> SendPC] /\ num' \in [Sender -> 0..MaxSeq]
          /\ got' \in [Sender -> 0..MaxSeq] /\ req' \in [Sender -> Webhook]
      BY <2>1 DEF TypeOK
    <3> QED
      BY <2>1, <3>1 DEF TypeOK
  <2>3. NumInv'
    <3>1. \A t \in Sender : num[t] \in Nat /\ num[t] <= seq
      BY DEF NumInv, TypeOK
    <3>2. \A t \in Sender : num'[t] <= seq' /\ (pc'[t] # "idle" => num'[t] # 0)
      BY <2>1, <2>2, <3>1 DEF NumInv
    <3>3. \A t, u \in Sender : num'[t] = num'[u] /\ num'[t] # 0 => t = u
      BY <2>1, <2>2, <3>1 DEF NumInv
    <3> QED
      BY <3>2, <3>3 DEF NumInv
  <2>4. Written \subseteq Written'
    BY <2>1, <2>2, WrittenGrows
  <2>5. MsgInv' /\ ChanInv'
    BY <2>4, MsgFrame, ChanFrame
  <2>6. PendingIsInFlight'
    BY <2>2, PendingFrame
  <2>7. LoopInv' /\ OwnResponse'
    BY <2>2 DEF LoopInv, OwnResponse
  <2> QED
    BY <2>2, <2>3, <2>5, <2>6, <2>7 DEF IInv
<1>2. CASE RegisterSend(s)
  <2> USE <1>0, <1>2 DEF RegisterSend
  <2>1. pc' \in [Sender -> SendPC] /\ NumInv' /\ Written \subseteq Written'
    BY GotoSafe
  <2>2. MsgInv' /\ ChanInv' /\ LoopInv' /\ OwnResponse'
    BY <2>1, MsgFrame, ChanFrame DEF LoopInv, OwnResponse
  <2>3. num[s] \in 1..MaxSeq
    BY DEF TypeOK, NumInv
  <2>4. TypeOK'
    BY <2>1, <2>3 DEF TypeOK
  <2>5. PendingIsInFlight'
    <3>1. CASE closed
      BY <3>1 DEF PendingIsInFlight
    <3>2. CASE ~closed
      <4>1. /\ \A k \in Key : pending'[k] = IF k = num[s] THEN num[s] ELSE pending[k]
            /\ \A t \in Sender : pc'[t] = IF t = s THEN "write" ELSE pc[t]
        BY <2>3, <3>2 DEF TypeOK, Goto
      <4> QED
        BY <3>2, <4>1 DEF PendingIsInFlight
    <3> QED
      BY <3>1, <3>2
  <2> QED
    BY <2>1, <2>2, <2>4, <2>5 DEF IInv
<1>3. CASE Write(s)
  <2> USE <1>0, <1>3 DEF Write
  <2>1. pc' \in [Sender -> SendPC] /\ NumInv' /\ Written \subseteq Written'
    BY GotoSafe
  <2>2. ChanInv' /\ LoopInv' /\ OwnResponse'
    BY <2>1, ChanFrame DEF LoopInv, OwnResponse
  <2>3. [key |-> num[s], num |-> num[s]] \in Written'
    <3>1. num[s] \in 1..MaxSeq /\ num[s] <= seq /\ UNCHANGED <<num, seq>>
      BY DEF TypeOK, NumInv
    <3>2. \A t \in Sender : pc'[t] \in {"register", "write"} => num[t] # num[s]
      BY <3>1 DEF TypeOK, NumInv, Goto
    <3> QED
      BY <3>1, <3>2 DEF Written, Message
  <2>4. MsgInv'
    <3>1. /\ toClient \in Seq(Written') /\ toServer' \in Seq(Written')
          /\ remote' \in Seq(Written') /\ inHand' \in Seq(Written')
      BY <2>1, SeqGrows DEF MsgInv
    <3> QED
      <4>1. toClient' = toClient \/ toClient' = Append(toClient, [key |-> num[s], num |-> num[s]])
        OBVIOUS
      <4>2. toClient' \in Seq(Written')
        <5>1. \A e \in Written' : Append(toClient, e) \in Seq(Written')
          BY <3>1, SeqParts
        <5> QED
          BY <2>3, <3>1, <4>1, <5>1
      <4> QED
        BY <3>1, <4>2 DEF MsgInv
  <2>5. TypeOK'
    <3>1. toClient' \in Seq(Message)
      BY <2>4, SeqGrows DEF MsgInv, Written
    <3> QED
      BY <2>1, <3>1 DEF TypeOK
  <2>6. PendingIsInFlight'
    BY PendingFrame DEF TypeOK, Goto
  <2> QED
    BY <2>1, <2>2, <2>4, <2>5, <2>6 DEF IInv
<1>4. CASE Receive(s)
  <2> USE <1>0, <1>4 DEF Receive
  <2>1. pc' \in [Sender -> SendPC] /\ NumInv' /\ Written \subseteq Written'
    BY GotoSafe
  <2>2. num[s] \in Num /\ chan[num[s]] = num[s]
    <3>1. num[s] \in 1..MaxSeq
      BY DEF TypeOK, NumInv
    <3> QED
      BY <3>1 DEF ChanInv
  <2>3. /\ \A t \in Sender : got'[t] = IF t = s THEN num[s] ELSE got[t]
        /\ \A n \in Num : chan'[n] = IF n = num[s] THEN 0 ELSE chan[n]
        /\ TypeOK'
    <3>1. /\ got' = [got EXCEPT ![s] = num[s]] /\ got' \in [Sender -> 0..MaxSeq]
          /\ chan' = [chan EXCEPT ![num[s]] = 0] /\ chan' \in [Num -> 0..MaxSeq]
      BY <2>2 DEF TypeOK
    <3> QED
      BY <2>1, <2>2, <3>1 DEF TypeOK
  <2>4. ChanInv' /\ OwnResponse'
    BY <2>1, <2>3 DEF ChanInv, OwnResponse
  <2>5. MsgInv' /\ LoopInv'
    BY <2>1, MsgFrame DEF LoopInv
  <2>6. PendingIsInFlight'
    BY PendingFrame DEF TypeOK, Goto
  <2> QED
    BY <2>1, <2>3, <2>4, <2>5, <2>6 DEF IInv
<1>5. CASE SeeClosed(s) \/ ExpireCloseNow(s)
  <2> USE <1>0, <1>5 DEF SeeClosed, ExpireCloseNow
  <2>1. pc' \in [Sender -> SendPC] /\ NumInv' /\ Written \subseteq Written'
    BY GotoSafe
  <2>2. MsgInv' /\ ChanInv' /\ LoopInv' /\ OwnResponse'
    BY <2>1, MsgFrame, ChanFrame DEF LoopInv, OwnResponse
  <2>3. PendingIsInFlight'
    BY PendingFrame DEF TypeOK, Goto
  <2>4. TypeOK'
    BY <2>1 DEF TypeOK
  <2> QED
    BY <2>1, <2>2, <2>3, <2>4 DEF IInv
<1>6. CASE Expire(s)
  <2> USE <1>0, <1>6 DEF Expire
  <2>1. pc' \in [Sender -> SendPC] /\ NumInv' /\ Written \subseteq Written'
    BY GotoSafe
  <2>2. MsgInv' /\ ChanInv' /\ LoopInv' /\ OwnResponse'
    BY <2>1, MsgFrame, ChanFrame DEF LoopInv, OwnResponse
  <2>3. PendingIsInFlight' /\ closed' = TRUE /\ pending' \in [Key -> 0..MaxSeq]
    BY ClosePendingSafe
  <2>4. TypeOK'
    BY <2>1, <2>3 DEF TypeOK
  <2> QED
    BY <2>1, <2>2, <2>3, <2>4 DEF IInv
<1>7. CASE RemovePending(s)
  <2> USE <1>0, <1>7 DEF RemovePending
  <2>1. pc' \in [Sender -> SendPC] /\ NumInv' /\ Written \subseteq Written'
    BY GotoSafe
  <2>2. MsgInv' /\ ChanInv' /\ LoopInv' /\ OwnResponse'
    BY <2>1, MsgFrame, ChanFrame DEF LoopInv, OwnResponse
  <2>3. num[s] \in 1..MaxSeq
    BY DEF TypeOK, NumInv
  <2>4. TypeOK' /\ \A k \in Key : pending'[k] = IF k = num[s] THEN 0 ELSE pending[k]
    <3>1. pending \in [Key -> 0..MaxSeq] /\ 0 \in 0..MaxSeq
      BY WSAssumption DEF TypeOK
    <3>2. /\ pending' \in [Key -> 0..MaxSeq]
          /\ \A k \in Key : pending'[k] = IF k = num[s] THEN 0 ELSE pending[k]
      BY <3>1
    <3> QED
      BY <2>1, <3>2 DEF TypeOK
  <2>5. PendingIsInFlight'
    <3>1. \A t \in Sender : pc'[t] = IF t = s THEN "idle" ELSE pc[t]
      BY DEF TypeOK, Goto
    <3> QED
      BY <2>4, <3>1 DEF PendingIsInFlight
  <2> QED
    BY <2>1, <2>2, <2>4, <2>5 DEF IInv
<1> QED
  BY <1>1, <1>2, <1>3, <1>4, <1>5, <1>6, <1>7 DEF SendNext

----------------------------------------------------------------------------
(* The steps of everybody else. *)

\* A step that leaves the Sends alone keeps NumInv and forgets no message.
LEMMA SendsFrame ==
  ASSUME IInv, UNCHANGED sends
  PROVE  NumInv' /\ OwnResponse' /\ Written' = Written
<1>1. Written' = Written
  BY DEF Written, sends
<1> QED
  BY <1>1 DEF IInv, NumInv, OwnResponse, sends

\* Close from outside preserves the invariant.
LEMMA CloseSafe ==
  ASSUME IInv, Close \/ CloseNow
  PROVE  IInv'
<1>1. UNCHANGED <<sends, chan, wire, loop>>
  BY DEF Close, CloseNow
<1>2. NumInv' /\ OwnResponse' /\ MsgInv' /\ ChanInv' /\ LoopInv'
  BY <1>1, SendsFrame, MsgFrame, ChanFrame DEF IInv, LoopInv, loop
<1>3. PendingIsInFlight' /\ pending' \in [Key -> 0..MaxSeq] /\ closed' \in BOOLEAN
  <2>1. CASE Close
    BY <2>1, ClosePendingSafe DEF Close
  <2>2. CASE CloseNow
    BY <2>2, PendingFrame DEF CloseNow, sends, IInv, TypeOK
  <2> QED
    BY <2>1, <2>2
<1>4. TypeOK'
  BY <1>1, <1>3 DEF IInv, TypeOK, Close, CloseNow, sends, wire, loop
<1> QED
  BY <1>2, <1>3, <1>4 DEF IInv

\* Every step of the read loop preserves the invariant.
LEMMA LoopSafe ==
  ASSUME IInv, LoopNext
  PROVE  IInv'
<1> USE DEF wire
<1>0. TypeOK /\ NumInv /\ MsgInv /\ LoopInv /\ ChanInv /\ PendingIsInFlight /\ OwnResponse
  BY DEF IInv
<1>1. UNCHANGED sends /\ NumInv' /\ OwnResponse' /\ Written' = Written /\ Written \subseteq Message
  BY SendsFrame DEF LoopNext, ReadResponse, Lookup, Deliver, ReadFails, Written
<1>2. CASE ReadResponse
  <2> USE <1>0, <1>2 DEF ReadResponse
  <2>1. Head(toServer) \in Written /\ Tail(toServer) \in Seq(Written)
    BY SeqParts DEF MsgInv
  <2>2. MsgInv'
    BY <1>1, <2>1, SeqParts DEF MsgInv
  <2>3. ChanInv' /\ PendingIsInFlight' /\ LoopInv'
    BY <1>1, ChanFrame, PendingFrame DEF LoopInv, sends
  <2>4. TypeOK'
    BY <1>1, <2>2, SeqGrows DEF TypeOK, MsgInv, sends
  <2> QED
    BY <1>1, <2>2, <2>3, <2>4 DEF IInv
<1>3. CASE Lookup
  <2> USE <1>0, <1>3 DEF Lookup
  <2>1. inHand[1] \in Written /\ inHand[1].key = inHand[1].num /\ inHand[1].key \in Key
    <3>1. inHand \in Seq(Written) /\ Len(inHand) = 1
      BY DEF MsgInv, LoopInv
    <3>2. \A i \in 1..Len(inHand) : inHand[i] \in Written
      BY <3>1, SeqParts
    <3>3. inHand[1] \in Written
      BY <3>1, <3>2
    <3> QED
      BY <3>3 DEF Written, Message
  <2>2. LoopInv' /\ target' \in 0..MaxSeq
    <3>1. target' \in 0..MaxSeq /\ (target' # 0 => target' = inHand[1].key)
      BY <2>1 DEF TypeOK, PendingIsInFlight
    <3> QED
      BY <2>1, <3>1 DEF LoopInv
  <2>3. MsgInv' /\ ChanInv' /\ PendingIsInFlight'
    BY <1>1, MsgFrame, ChanFrame, PendingFrame DEF sends
  <2>4. TypeOK'
    BY <1>1, <2>2 DEF TypeOK, sends
  <2> QED
    BY <1>1, <2>2, <2>3, <2>4 DEF IInv
<1>4. CASE Deliver
  <2> USE <1>0, <1>4 DEF Deliver
  <2>1. /\ inHand[1] \in Written /\ inHand[1] \in Message /\ inHand[1].num \in Num
        /\ inHand[1] = [key |-> inHand[1].num, num |-> inHand[1].num]
    <3>1. inHand[1] \in Written
      <4>1. inHand \in Seq(Written) /\ Len(inHand) = 1
        BY DEF MsgInv, LoopInv
      <4>2. \A i \in 1..Len(inHand) : inHand[i] \in Written
        BY <4>1, SeqParts
      <4> QED
        BY <4>1, <4>2
    <3> QED
      BY <3>1 DEF Written, Message
  <2>2. chan' \in [Num -> 0..MaxSeq] /\ ChanInv'
    <3>1. CASE target = 0
      BY <1>1, <3>1 DEF TypeOK, ChanInv
    <3>2. CASE target # 0
      <4>1. target = inHand[1].num
        BY <3>2 DEF LoopInv
      <4>2. \A n \in Num : chan'[n] = IF n = target /\ chan[n] = 0 THEN target ELSE chan[n]
        BY <2>1, <3>2, <4>1 DEF TypeOK
      <4>3. chan' \in [Num -> 0..MaxSeq]
        BY <2>1, <3>2 DEF TypeOK
      <4> QED
        BY <1>1, <2>1, <4>1, <4>2, <4>3 DEF ChanInv
    <3> QED
      BY <3>1, <3>2
  <2>3. MsgInv' /\ PendingIsInFlight' /\ LoopInv'
    BY <1>1, PendingFrame, SeqParts DEF MsgInv, LoopInv, sends
  <2>4. TypeOK'
    <3>1. reader' = "read" /\ inHand' = <<>> /\ target' = 0
      BY <1>1
    <3>2. 0 \in 0..MaxSeq /\ <<>> \in Seq(Message)
      BY WSAssumption
    <3> QED
      BY <1>1, <2>2, <3>1, <3>2 DEF TypeOK, sends
  <2> QED
    BY <1>1, <2>2, <2>3, <2>4 DEF IInv
<1>5. CASE ReadFails
  <2> USE <1>0, <1>5 DEF ReadFails
  <2>1. PendingIsInFlight' /\ closed' = TRUE /\ pending' \in [Key -> 0..MaxSeq]
    BY ClosePendingSafe
  <2>2. MsgInv' /\ ChanInv' /\ LoopInv'
    BY <1>1, MsgFrame, ChanFrame DEF LoopInv
  <2>3. TypeOK'
    BY <1>1, <2>1 DEF TypeOK, sends
  <2> QED
    BY <1>1, <2>1, <2>2, <2>3 DEF IInv
<1> QED
  BY <1>2, <1>3, <1>4, <1>5 DEF LoopNext

\* Every step of the client and of the network preserves the invariant.
LEMMA PeerSafe ==
  ASSUME IInv, PeerNext
  PROVE  IInv'
<1>0. TypeOK /\ MsgInv /\ LoopInv
  BY DEF IInv
<1>1. UNCHANGED <<sends, pending, chan, closed, loop, closer>>
  BY DEF PeerNext, RemoteRead, RemoteWrite, LinkLost
<1>2. NumInv' /\ OwnResponse' /\ Written' = Written /\ Written \subseteq Message
  BY <1>1, SendsFrame DEF Written
<1>3. ChanInv' /\ PendingIsInFlight' /\ LoopInv'
  BY <1>0, <1>1, <1>2, ChanFrame, PendingFrame DEF LoopInv, sends, loop
<1>4. MsgInv'
  <2>1. CASE RemoteRead
    BY <1>0, <1>1, <1>2, <2>1, SeqParts DEF RemoteRead, MsgInv, loop
  <2>2. CASE RemoteWrite
    BY <1>0, <1>1, <1>2, <2>2, SeqParts DEF RemoteWrite, MsgInv, loop
  <2>3. CASE LinkLost
    BY <1>0, <1>1, <1>2, <2>3 DEF LinkLost, MsgInv, loop, wire
  <2> QED
    BY <2>1, <2>2, <2>3 DEF PeerNext
<1>5. TypeOK'
  <2>1. /\ toClient' \in Seq(Message) /\ toServer' \in Seq(Message) /\ remote' \in Seq(Message)
        /\ link' \in {"up", "lost", "closed"}
    BY <1>0, <1>2, <1>4, SeqGrows DEF MsgInv, TypeOK, PeerNext, RemoteRead, RemoteWrite, LinkLost
  <2> QED
    BY <1>0, <1>1, <2>1 DEF TypeOK, sends, loop
<1> QED
  BY <1>2, <1>3, <1>4, <1>5 DEF IInv

----------------------------------------------------------------------------
(* The theorems. *)

\* The invariant holds initially.
LEMMA InitInv == Init => IInv
<1> SUFFICES ASSUME Init PROVE IInv
  OBVIOUS
<1>1. TypeOK
  <2>1. /\ <<>> \in Seq(Message)
        /\ 0 \in 0..MaxSeq
    BY SeqParts, WSAssumption
  <2>2. /\ seq \in 0..MaxSeq /\ pc \in [Sender -> SendPC]
        /\ num \in [Sender -> 0..MaxSeq] /\ got \in [Sender -> 0..MaxSeq]
        /\ pending \in [Key -> 0..MaxSeq] /\ chan \in [Num -> 0..MaxSeq]
    BY <2>1 DEF Init, SendPC
  <2> QED
    BY <2>1, <2>2 DEF Init, TypeOK
<1>2. NumInv /\ LoopInv /\ ChanInv /\ PendingIsInFlight /\ OwnResponse
  BY DEF Init, NumInv, LoopInv, ChanInv, PendingIsInFlight, OwnResponse
<1>3. MsgInv
  BY SeqParts DEF Init, MsgInv
<1> QED
  BY <1>1, <1>2, <1>3 DEF IInv

\* Every step preserves it.
LEMMA NextInv == IInv /\ [Next]_vars => IInv'
<1> SUFFICES ASSUME IInv, [Next]_vars PROVE IInv'
  OBVIOUS
<1>1. CASE \E s \in Sender : SendNext(s)
  BY <1>1, SendSafe
<1>2. CASE Close \/ CloseNow
  BY <1>2, CloseSafe
<1>3. CASE LoopNext
  BY <1>3, LoopSafe
<1>4. CASE PeerNext
  BY <1>4, PeerSafe
<1>5. CASE UNCHANGED vars
  <2>1. Written' = Written
    BY <1>5, SendsFrame DEF vars
  <2> QED
    BY <1>5, <2>1 DEF vars, sends, wire, loop, IInv, TypeOK, NumInv, MsgInv, LoopInv, ChanInv,
                      PendingIsInFlight, OwnResponse
<1> QED
  BY <1>1, <1>2, <1>3, <1>4, <1>5 DEF Next

\* A message belongs to a Send that was written, and everything that holds one knows
\* which: the invariant of the connection.
THEOREM Invariance == Spec => []IInv
BY InitInv, NextInv, PTL DEF Spec

\* Every variable of a tunnel connection has its type.
THEOREM TypeCorrect == Spec => []TypeOK
<1>1. IInv => TypeOK
  BY DEF IInv
<1> QED
  BY <1>1, Invariance, PTL

\* A Send returns the response to its own request or none, however often the same
\* webhook is in flight and however late a response is delivered.
THEOREM NoMixUp == Spec => []OwnResponse
<1>1. IInv => OwnResponse
  BY DEF IInv
<1> QED
  BY <1>1, Invariance, PTL

\* No entry of the map outlives its Send, or the connection.
THEOREM NoLeak == Spec => []PendingIsInFlight
<1>1. IInv => PendingIsInFlight
  BY DEF IInv
<1> QED
  BY <1>1, Invariance, PTL

----------------------------------------------------------------------------
(* The refinement of TunnelCall. *)

\* A Send that does not move, and whose channel is not touched, looks the same.
LEMMA PhaseFrame ==
  ASSUME UNCHANGED num, \A t \in Sender : pc'[t] # pc[t] => "wait" \notin {pc[t], pc'[t]},
         \A t \in Sender : pc[t] = "wait" => chan'[num[t]] = chan[num[t]]
  PROVE  Phase' = Phase
BY DEF Phase

\* A connection that is, or goes, down without anybody's doing.
LEMMA GoesDown ==
  ASSUME Phase' = Phase, Up' = Up \/ Up' = FALSE
  PROVE  Call!Next \/ UNCHANGED Call!vars
BY DEF Call!Next, Call!Down, Call!vars

\* Every step of Send is a step of the remote call, or none.
LEMMA SendRefines ==
  ASSUME IInv, NEW s \in Sender, SendNext(s)
  PROVE  Call!Next \/ UNCHANGED Call!vars
<1> USE DEF wire, loop
<1>0. TypeOK /\ NumInv /\ ChanInv
  BY DEF IInv
<1>1. ASSUME NEW h \in Webhook, Send(s, h) PROVE Call!Next \/ UNCHANGED Call!vars
  <2>1. \A t \in Sender : Phase'[t] = Phase[t]
    BY <1>0, <1>1 DEF Send, Goto, Phase, TypeOK
  <2>2. Phase' = Phase
    BY <2>1 DEF Phase
  <2> QED
    BY <1>1, <2>2, GoesDown DEF Send, Up
<1>2. CASE RegisterSend(s) \/ RemovePending(s)
  <2>1. Phase' = Phase
    BY <1>0, <1>2, PhaseFrame DEF RegisterSend, RemovePending, Goto, TypeOK
  <2>2. UNCHANGED <<link, closed>>
    BY <1>2 DEF RegisterSend, RemovePending
  <2>3. Up' = Up
    BY <2>2 DEF Up
  <2> QED
    BY <2>1, <2>3, GoesDown
<1>3. CASE Write(s)
  <2> USE <1>0, <1>3 DEF Write
  <2>1. CASE pc' = [pc EXCEPT ![s] = "remove"]
    <3>1. Phase' = Phase
      BY <2>1, PhaseFrame DEF TypeOK
    <3>2. Up' = Up \/ Up' = FALSE
      BY <2>1 DEF Up, Goto
    <3> QED
      BY <3>1, <3>2, GoesDown
  <2>2. CASE link = "up" /\ UNCHANGED link /\ pc' = [pc EXCEPT ![s] = "wait"]
    <3>1. num[s] \in Num /\ chan[num[s]] = 0
      <4>1. num[s] \in 1..MaxSeq
        BY DEF TypeOK, NumInv
      <4> QED
        BY <4>1 DEF ChanInv, Written
    <3>2. Phase[s] = "none" /\ Phase' = [Phase EXCEPT ![s] = "sent"]
      BY <2>2, <3>1 DEF Phase, TypeOK
    <3> QED
      BY <2>2, <3>2 DEF Call!Next, Call!Call, Call!Step, Up
  <2> QED
    BY <2>1, <2>2 DEF Goto
<1>4. CASE Receive(s)
  <2> USE <1>0, <1>4 DEF Receive, Goto
  <2>0. pc \in [Sender -> SendPC] /\ chan \in [Num -> 0..MaxSeq]
    BY DEF TypeOK
  <2>1. \A t \in Sender \ {s} : pc[t] = "wait" => chan'[num[t]] = chan[num[t]]
    <3>1. \A t \in Sender \ {s} : pc[t] = "wait" => num[t] \in 1..MaxSeq /\ num[t] # num[s]
      BY DEF TypeOK, NumInv
    <3> QED
      BY <3>1, <2>0 DEF Num
  <2>2. \A t \in Sender : pc'[t] = IF t = s THEN "remove" ELSE pc[t]
    BY <2>0
  <2>3. /\ Phase[s] = "handled"
        /\ \A t \in Sender : Phase'[t] = IF t = s THEN "none" ELSE Phase[t]
    BY <2>1, <2>2 DEF Phase
  <2>4. Phase' = [Phase EXCEPT ![s] = "none"]
    BY <2>3 DEF Phase
  <2> QED
    BY <2>3, <2>4 DEF Call!Next, Call!Return, Call!Step, Up
<1>5. CASE SeeClosed(s) \/ Expire(s)
  <2> USE <1>0, <1>5 DEF SeeClosed, Expire, Goto, ClosePending
  <2>1. Phase[s] \in {"sent", "handled"} /\ Phase' = [Phase EXCEPT ![s] = "none"]
    BY DEF Phase, TypeOK
  <2>2. Up' = FALSE
    BY DEF Up
  <2> QED
    BY <2>1, <2>2 DEF Call!Next, Call!Fail, Call!Step
<1>6. CASE ExpireCloseNow(s)
  <2>1. Phase' = Phase
    BY <1>0, <1>6, PhaseFrame DEF ExpireCloseNow, Goto, TypeOK
  <2>2. Up' = FALSE
    BY <1>6 DEF ExpireCloseNow, Up
  <2> QED
    BY <2>1, <2>2, GoesDown
<1> QED
  BY <1>1, <1>2, <1>3, <1>4, <1>5, <1>6 DEF SendNext

\* The read loop delivers the response to a Send.
LEMMA DeliversNum ==
  ASSUME IInv, reader = "deliver"
  PROVE  inHand[1].num \in Num
<1>1. inHand \in Seq(Message)
  BY DEF IInv, TypeOK
<1>2. Len(inHand) = 1
  BY DEF IInv, LoopInv
<1>3. inHand[1] \in Message
  BY <1>1, <1>2
<1> QED
  BY <1>3 DEF Message

\* The read loop's delivery answers the Send that waits on the channel, if any; its
\* other steps, and those of the client and the network, may only end the connection.
LEMMA OthersRefine ==
  ASSUME IInv, Close \/ CloseNow \/ LoopNext \/ PeerNext
  PROVE  Call!Next \/ UNCHANGED Call!vars
<1> USE DEF sends
<1>1. CASE Deliver
  <2> USE <1>1 DEF Deliver
  <2>0. TypeOK /\ NumInv /\ LoopInv
    BY DEF IInv
  <2>1. pc' = pc /\ num' = num /\ Up' = Up
    BY DEF Up
  <2>2. CASE \A t \in Sender : pc[t] = "wait" => chan'[num[t]] = chan[num[t]]
    BY <2>1, <2>2, PhaseFrame, GoesDown
  <2>3. CASE \E s \in Sender : pc[s] = "wait" /\ chan'[num[s]] # chan[num[s]]
    <3>1. PICK s \in Sender : pc[s] = "wait" /\ chan'[num[s]] # chan[num[s]]
      BY <2>3
    <3>2. target # 0 /\ num[s] = target /\ chan[num[s]] = 0 /\ chan'[num[s]] # 0
      <4>1. chan \in [Num -> 0..MaxSeq]
        BY <2>0 DEF TypeOK
      <4>2. num[s] \in Num
        BY <2>0, <3>1 DEF TypeOK, NumInv
      <4>3. target # 0
        BY <3>1
      <4>4. inHand[1].num \in Num
        BY DeliversNum
      <4> QED
        BY <3>1, <4>1, <4>2, <4>3, <4>4
    <3>3. \A t \in Sender \ {s} : pc[t] = "wait" => chan'[num[t]] = chan[num[t]]
      BY <2>0, <3>2 DEF TypeOK, NumInv
    <3>4. Phase[s] = "sent" /\ Phase' = [Phase EXCEPT ![s] = "handled"]
      BY <2>1, <3>1, <3>2, <3>3 DEF Phase
    <3> QED
      BY <2>1, <3>4 DEF Call!Next, Call!Answer, Call!Step
  <2> QED
    BY <2>2, <2>3
<1>2. CASE ~Deliver
  <2>1. UNCHANGED <<sends, chan>> /\ (Up' = Up \/ Up' = FALSE)
    BY <1>2 DEF Close, CloseNow, LoopNext, ReadResponse, Lookup, ReadFails, PeerNext, RemoteRead,
                RemoteWrite, LinkLost, ClosePending, Up
  <2> QED
    BY <2>1, PhaseFrame, GoesDown
<1> QED
  BY <1>1, <1>2

\* A tunnel connection implements the remote call Relay is built on: a Send is
\* answered at most once, and fails only if the connection is down or goes down with it.
THEOREM Refinement == Spec => ImplementsCall
<1>1. Init => Call!Init
  BY DEF Init, Call!Init, Up, Phase
<1>2. IInv /\ [Next]_vars => [Call!Next]_(Call!vars)
  <2> SUFFICES ASSUME IInv, [Next]_vars PROVE Call!Next \/ UNCHANGED Call!vars
    OBVIOUS
  <2>1. CASE UNCHANGED vars
    BY <2>1 DEF vars, sends, Call!vars, Up, Phase
  <2> QED
    BY <2>1, SendRefines, OthersRefine DEF Next
<1> QED
  BY <1>1, <1>2, Invariance, PTL DEF Spec, ImplementsCall, Call!Spec

=============================================================================
