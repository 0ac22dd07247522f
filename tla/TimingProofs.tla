---------------------------- MODULE TimingProofs ----------------------------
(***************************************************************************)
(* The durations of a delivery fit together, for any durations that        *)
(* TimingAssumption allows and any number of requests and faults.          *)
(*                                                                         *)
(* The invariant says how the clocks of a request are related while it     *)
(* moves from goroutine to goroutine: AgeInv bounds its age by the time    *)
(* its handler has had so far, FirstInv compares the deadline of a Send    *)
(* with the time the local app has left.                                   *)
(***************************************************************************)
EXTENDS TunnelTiming, TLAPS

USE TimingAssumption DEF Sender

\* The age of a request and the time its handler has left for its statement or its
\* Send add up to no more than the handler may take until then.
AgeInv ==
  \A h \in Hook :
    /\ handler[h] = "idle" => age[h] = 0
    /\ handler[h] = "save" => age[h] + timer[h] <= DBDelay
    /\ handler[h] = "forward" => age[h] <= DBDelay
    /\ handler[h] = "send" => age[h] + timer[h] <= DBDelay + SendTimeout
    /\ handler[h] = "mark" => age[h] + timer[h] <= DBDelay + SendTimeout + DBDelay

\* Nobody waits on a tunnel that is not open, and the client starts afresh.
ClosedInv ==
  /\ tunnel # "open" => Waiting = {} /\ queue = {} /\ drain = "off"
  /\ tunnel = "down" => inbox = <<>> /\ busy = None

\* Over an open tunnel the client has requests of waiting senders only, and no two
\* of the same.
InboxInv ==
  tunnel = "open" =>
    /\ busy # None => busy \in Waiting
    /\ \A i \in 1..Len(inbox) : inbox[i] \in Waiting /\ inbox[i] # busy
    /\ \A i, j \in 1..Len(inbox) : inbox[i] = inbox[j] => i = j

\* A sender that found the client idle is the next in line and has all its time, or
\* has more time left than the local app.
FirstInv ==
  \A s \in Waiting \ queued :
    \/ busy = s /\ work < timer[s]
    \/ busy = None /\ Len(inbox) > 0 /\ inbox[1] = s /\ timer[s] = SendTimeout

IInv == TypeOK /\ AgeInv /\ ClosedInv /\ InboxInv /\ FirstInv /\ TickSparesLiveForward

Rest == AgeInv /\ ClosedInv /\ InboxInv /\ FirstInv /\ TickSparesLiveForward

----------------------------------------------------------------------------
(* Types. *)

\* Send puts a sender into the inbox with a full timer.
LEMMA SendTypes ==
  ASSUME TypeOK, NEW s \in Sender, Send(s)
  PROVE  /\ inbox' \in Seq(Sender) /\ timer' \in [Sender -> 0..SendTimeout]
         /\ queued' \subseteq Sender /\ tunnel' = tunnel /\ busy' = busy /\ work' = work
BY DEF TypeOK, Send

\* CloseTunnel keeps the types of what it changes.
LEMMA CloseTypes ==
  ASSUME TypeOK, CloseTunnel, faults' \in 0..MaxFaults
  PROVE  TypeOK'
BY DEF TypeOK, CloseTunnel

\* Every step keeps every variable in its type.
LEMMA TypeStep ==
  ASSUME TypeOK, Next
  PROVE  TypeOK'
<1> USE DEF client, worker
<1>1. ASSUME NEW h \in Hook, HookReceive(h) PROVE TypeOK'
  BY <1>1 DEF TypeOK, HookReceive
<1>2. ASSUME NEW h \in Hook, HookSave(h) PROVE TypeOK'
  BY <1>2 DEF TypeOK, HookSave
<1>3. ASSUME NEW h \in Hook, HookForward(h) PROVE TypeOK'
  BY <1>3, SendTypes DEF TypeOK, HookForward
<1>4. ASSUME NEW h \in Hook, HookMark(h) PROVE TypeOK'
  BY <1>4 DEF TypeOK, HookMark
<1>5. ASSUME NEW h \in Hook, DrainSend(h) PROVE TypeOK'
  BY <1>5, SendTypes DEF TypeOK, DrainSend
<1>6. ASSUME NEW s \in Sender, Expire(s) PROVE TypeOK'
  BY <1>6, CloseTypes DEF Expire, TypeOK
<1>7. ASSUME ConnLost PROVE TypeOK'
  <2>1. faults' \in 0..MaxFaults
    BY <1>7 DEF ConnLost, Fault, TypeOK
  <2> QED
    BY <1>7, <2>1, CloseTypes DEF ConnLost
<1>8. ASSUME Reconnect PROVE TypeOK'
  BY <1>8 DEF Reconnect, TypeOK
<1>9. ASSUME ClientRead PROVE TypeOK'
  BY <1>9 DEF ClientRead, LocalLimit, TypeOK
<1>10. ASSUME ClientDrops PROVE TypeOK'
  BY <1>10 DEF ClientDrops, TypeOK
<1>11. ASSUME ClientAnswers PROVE TypeOK'
  <2>1. CASE tunnel # "open"
    BY <1>11, <2>1 DEF ClientAnswers, TypeOK
  <2>2. CASE tunnel = "open" /\ busy = Worker
    BY <1>11, <2>2 DEF ClientAnswers, TypeOK
  <2>3. CASE tunnel = "open" /\ busy # Worker
    <3>1. busy \in Hook
      BY <1>11, <2>3 DEF ClientAnswers, TypeOK
    <3>2. timer' \in [Sender -> 0..SendTimeout]
      <4>1. DBDelay \in 0..SendTimeout /\ timer' = [timer EXCEPT ![busy] = DBDelay]
        BY <1>11, <2>3 DEF ClientAnswers
      <4> QED
        BY <4>1 DEF TypeOK
    <3>3. handler' \in [Hook -> {"idle", "save", "forward", "send", "mark", "done"}]
      BY <1>11, <2>3, <3>1 DEF ClientAnswers, TypeOK
    <3> QED
      BY <1>11, <2>3, <3>2, <3>3 DEF ClientAnswers, TypeOK
  <2> QED
    BY <2>1, <2>2, <2>3
<1>12. ASSUME ClientTimesOut PROVE TypeOK'
  <2>1. faults' \in 0..MaxFaults
    BY <1>12 DEF ClientTimesOut, Fault, TypeOK
  <2>2. CASE tunnel # "open"
    BY <1>12, <2>1, <2>2 DEF ClientTimesOut, TypeOK
  <2>3. CASE tunnel = "open" /\ busy = Worker
    BY <1>12, <2>1, <2>3 DEF ClientTimesOut, TypeOK
  <2>4. CASE tunnel = "open" /\ busy # Worker
    BY <1>12, <2>1, <2>4 DEF ClientTimesOut, TypeOK
  <2> QED
    BY <2>2, <2>3, <2>4
<1>13. ASSUME DrainStart PROVE TypeOK'
  BY <1>13 DEF DrainStart, TypeOK
<1>14. ASSUME DrainTick PROVE TypeOK'
  BY <1>14 DEF DrainTick, TypeOK
<1>15. ASSUME Tick PROVE TypeOK'
  <2>1. age' \in [Hook -> 0..DrainMinAge + 1]
    BY <1>15 DEF Tick, TypeOK
  <2>2. timer' \in [Sender -> 0..SendTimeout]
    BY <1>15 DEF Tick, Less, TypeOK
  <2>3. work' \in Nat /\ ticker' \in 0..DrainInterval
    BY <1>15 DEF Tick, Less, TypeOK
  <2> QED
    BY <1>15, <2>1, <2>2, <2>3 DEF Tick, TypeOK
<1> QED
  BY <1>1, <1>2, <1>3, <1>4, <1>5, <1>6, <1>7, <1>8, <1>9, <1>10, <1>11, <1>12, <1>13,
     <1>14, <1>15 DEF Next, HookNext

----------------------------------------------------------------------------
(* The rest of the invariant, goroutine by goroutine. *)

\* What the steps that leave the tunnel and its senders alone preserve.
LEMMA ClientFrame ==
  ASSUME IInv, UNCHANGED <<client, queued>>, Waiting' = Waiting,
         \A s \in Waiting : timer'[s] = timer[s]
  PROVE  InboxInv' /\ FirstInv'
BY DEF client, IInv, InboxInv, FirstInv

\* A sender that is not waiting may send: it is new to the client.
LEMMA SendSafe ==
  ASSUME IInv, NEW s \in Sender, s \notin Waiting, tunnel = "open", Send(s),
         Waiting' = Waiting \cup {s}
  PROVE  InboxInv' /\ FirstInv'
<1> USE DEF Send
<1>1. /\ Len(inbox') = Len(inbox) + 1 /\ inbox'[Len(inbox) + 1] = s
      /\ \A i \in 1..Len(inbox) : inbox'[i] = inbox[i]
      /\ Len(inbox) \in Nat
  BY DEF IInv, TypeOK
<1>2. /\ \A t \in Sender \ {s} : timer'[t] = timer[t]
      /\ timer'[s] = SendTimeout
  BY DEF IInv, TypeOK
<1>3. InboxInv'
  BY <1>1 DEF IInv, InboxInv
<1>4. FirstInv'
  <2>1. CASE busy = None /\ inbox = <<>>
    BY <1>1, <1>2, <2>1 DEF IInv, FirstInv, Waiting
  <2>2. CASE ~(busy = None /\ inbox = <<>>)
    BY <1>1, <1>2, <2>2 DEF IInv, FirstInv, Waiting
  <2> QED
    BY <2>1, <2>2
<1> QED
  BY <1>3, <1>4

\* Every step of handleHook preserves the invariant.
LEMMA HookSafe ==
  ASSUME IInv, NEW h \in Hook, HookReceive(h) \/ HookNext(h)
  PROVE  Rest'
<1>1. CASE HookReceive(h)
  <2> USE <1>1 DEF HookReceive
  <2>1. Waiting' = Waiting
    BY DEF IInv, TypeOK, worker, Waiting, Sending
  <2>2. AgeInv'
    BY DEF IInv, TypeOK, AgeInv
  <2>3. ClosedInv' /\ TickSparesLiveForward'
    BY <2>1 DEF IInv, TypeOK, ClosedInv, TickSparesLiveForward, client, worker
  <2>4. \A s \in Waiting : timer'[s] = timer[s]
    BY DEF IInv, TypeOK, Waiting, Sending
  <2> QED
    BY <2>1, <2>2, <2>3, <2>4, ClientFrame DEF Rest
<1>2. CASE HookSave(h)
  <2> USE <1>2 DEF HookSave
  <2>1. Waiting' = Waiting
    BY DEF IInv, TypeOK, worker, Waiting, Sending
  <2>2. AgeInv'
    BY DEF IInv, TypeOK, AgeInv
  <2>3. ClosedInv' /\ TickSparesLiveForward'
    BY <2>1 DEF IInv, TypeOK, ClosedInv, TickSparesLiveForward, client, worker
  <2> QED
    BY <2>1, <2>2, <2>3, ClientFrame DEF Rest
<1>3. CASE HookForward(h)
  <2> USE <1>3 DEF HookForward
  <2>1. h \notin Waiting
    BY DEF Waiting, Sending
  <2>2. AgeInv'
    <3>1. /\ age' = age /\ age[h] \in Nat /\ age[h] <= DBDelay
          /\ \A g \in Hook \ {h} : handler'[g] = handler[g] /\ timer'[g] = timer[g]
          /\ handler'[h] = "done" \/ (handler'[h] = "send" /\ timer'[h] = SendTimeout)
      BY DEF IInv, TypeOK, AgeInv, Send
    <3> QED
      BY <3>1 DEF IInv, AgeInv
  <2>3. TickSparesLiveForward'
    BY DEF IInv, TypeOK, TickSparesLiveForward, worker
  <2>4. CASE tunnel = "open"
    <3>1. Waiting' = Waiting \cup {h}
      BY <2>4 DEF IInv, TypeOK, worker, Waiting, Sending
    <3> QED
      BY <2>1, <2>2, <2>3, <2>4, <3>1, SendSafe DEF Rest, ClosedInv, Send
  <2>5. CASE tunnel # "open"
    <3>1. Waiting' = Waiting
      BY <2>5 DEF IInv, TypeOK, worker, Waiting, Sending
    <3> QED
      BY <2>2, <2>3, <2>5, <3>1, ClientFrame DEF Rest, IInv, ClosedInv, client, worker
  <2> QED
    BY <2>4, <2>5
<1>4. CASE HookMark(h)
  <2> USE <1>4 DEF HookMark
  <2>1. Waiting' = Waiting
    BY DEF IInv, TypeOK, worker, Waiting, Sending
  <2>2. AgeInv'
    BY DEF IInv, TypeOK, AgeInv
  <2>3. ClosedInv' /\ TickSparesLiveForward'
    BY <2>1 DEF IInv, TypeOK, ClosedInv, TickSparesLiveForward, client, worker
  <2> QED
    BY <2>1, <2>2, <2>3, ClientFrame DEF Rest
<1> QED
  BY <1>1, <1>2, <1>3, <1>4 DEF HookNext

\* Closing the tunnel, whatever the reason, preserves the invariant: nobody waits
\* any more.
LEMMA CloseSafe ==
  ASSUME IInv, CloseTunnel
  PROVE  Rest'
<1> USE DEF CloseTunnel
<1>1. Waiting' = {}
  BY DEF IInv, TypeOK, Waiting, Sending
<1>2. AgeInv'
  BY DEF IInv, TypeOK, AgeInv
<1>3. ClosedInv' /\ InboxInv' /\ FirstInv' /\ TickSparesLiveForward'
  BY <1>1 DEF ClosedInv, InboxInv, FirstInv, TickSparesLiveForward
<1> QED
  BY <1>2, <1>3 DEF Rest

\* So does the client that connects again.
LEMMA ReconnectSafe ==
  ASSUME IInv, Reconnect
  PROVE  Rest'
<1> USE DEF Reconnect
<1>1. Waiting' = Waiting /\ Waiting = {}
  BY DEF IInv, ClosedInv, Waiting, Sending
<1>2. AgeInv'
  BY DEF IInv, AgeInv
<1>3. ClosedInv' /\ InboxInv' /\ FirstInv' /\ TickSparesLiveForward'
  BY <1>1 DEF IInv, ClosedInv, InboxInv, FirstInv, TickSparesLiveForward
<1> QED
  BY <1>2, <1>3 DEF Rest

\* The client has taken the request of busy off its hands: that sender waits no
\* more, and no other one was ahead of the inbox.
LEMMA HandledSafe ==
  ASSUME IInv, tunnel = "open", busy # None, busy' = None,
         UNCHANGED <<tunnel, inbox, queued>>, Waiting' = Waiting \ {busy}
  PROVE  InboxInv' /\ FirstInv'
BY DEF IInv, InboxInv, FirstInv, Waiting

\* Every step of the client preserves the invariant.
LEMMA ClientSafe ==
  ASSUME IInv, ClientRead \/ ClientDrops \/ ClientAnswers \/ ClientTimesOut
  PROVE  Rest'
<1> USE DEF worker
<1>1. CASE ClientRead
  <2> USE <1>1 DEF ClientRead, LocalLimit
  <2>1. Waiting' = Waiting
    BY DEF Waiting, Sending
  <2>2. AgeInv' /\ ClosedInv' /\ TickSparesLiveForward'
    BY <2>1 DEF IInv, AgeInv, ClosedInv, TickSparesLiveForward
  <2>3. /\ Len(inbox) \in Nat /\ Len(inbox) > 0
        /\ Len(inbox') = Len(inbox) - 1 /\ busy' = inbox[1]
        /\ \A i \in 1..Len(inbox') : inbox'[i] = inbox[i + 1]
    BY DEF IInv, TypeOK
  <2>4. InboxInv'
    BY <2>1, <2>3 DEF IInv, InboxInv
  <2>5. FirstInv'
    BY <2>1, <2>3 DEF IInv, FirstInv, Waiting
  <2> QED
    BY <2>2, <2>4, <2>5 DEF Rest
<1>2. CASE ClientDrops
  <2> USE <1>2 DEF ClientDrops
  <2>1. Waiting' = Waiting /\ Waiting = {}
    BY DEF IInv, ClosedInv, Waiting, Sending
  <2> QED
    BY <2>1 DEF IInv, AgeInv, ClosedInv, InboxInv, FirstInv, TickSparesLiveForward, Rest
<1>3. CASE ClientAnswers
  <2> USE <1>3 DEF ClientAnswers
  <2>1. CASE tunnel # "open"
    <3>1. Waiting' = Waiting /\ Waiting = {}
      BY <2>1 DEF IInv, ClosedInv, Waiting, Sending
    <3> QED
      BY <2>1, <3>1 DEF IInv, AgeInv, ClosedInv, InboxInv, FirstInv, TickSparesLiveForward, Rest
  <2>2. CASE tunnel = "open" /\ busy = Worker
    <3>1. Waiting' = Waiting \ {busy}
      BY <2>2 DEF Waiting, Sending
    <3>2. AgeInv' /\ ClosedInv' /\ TickSparesLiveForward'
      BY <2>2 DEF IInv, AgeInv, ClosedInv, TickSparesLiveForward
    <3> QED
      BY <2>2, <3>1, <3>2, HandledSafe DEF Rest
  <2>3. CASE tunnel = "open" /\ busy # Worker
    <3>1. busy \in Hook /\ handler[busy] = "send"
      BY <2>3 DEF IInv, TypeOK, InboxInv, Waiting, Sending
    <3>2. Waiting' = Waiting \ {busy}
      BY <2>3, <3>1 DEF IInv, TypeOK, Waiting, Sending
    <3>3. AgeInv'
      <4>1. /\ age' = age /\ age[busy] \in Nat /\ age[busy] <= DBDelay + SendTimeout
            /\ \A g \in Hook \ {busy} : handler'[g] = handler[g] /\ timer'[g] = timer[g]
            /\ handler'[busy] = "mark" /\ timer'[busy] = DBDelay
        BY <2>3, <3>1 DEF IInv, TypeOK, AgeInv
      <4> QED
        BY <4>1 DEF IInv, AgeInv
    <3>4. ClosedInv' /\ TickSparesLiveForward'
      BY <2>3, <3>1 DEF IInv, TypeOK, ClosedInv, TickSparesLiveForward
    <3> QED
      BY <2>3, <3>2, <3>3, <3>4, HandledSafe DEF Rest
  <2> QED
    BY <2>1, <2>2, <2>3
<1>4. CASE ClientTimesOut
  <2> USE <1>4 DEF ClientTimesOut
  <2>1. CASE tunnel # "open"
    <3>1. Waiting' = Waiting /\ Waiting = {}
      BY <2>1 DEF IInv, ClosedInv, Waiting, Sending
    <3> QED
      BY <2>1, <3>1 DEF IInv, AgeInv, ClosedInv, InboxInv, FirstInv, TickSparesLiveForward, Rest
  <2>2. CASE tunnel = "open" /\ busy = Worker
    <3>1. Waiting' = Waiting \ {busy}
      BY <2>2 DEF Waiting, Sending
    <3>2. AgeInv' /\ ClosedInv' /\ TickSparesLiveForward'
      BY <2>2 DEF IInv, AgeInv, ClosedInv, TickSparesLiveForward
    <3> QED
      BY <2>2, <3>1, <3>2, HandledSafe DEF Rest
  <2>3. CASE tunnel = "open" /\ busy # Worker
    <3>1. busy \in Hook /\ handler[busy] = "send"
      BY <2>3 DEF IInv, TypeOK, InboxInv, Waiting, Sending
    <3>2. Waiting' = Waiting \ {busy}
      BY <2>3, <3>1 DEF IInv, TypeOK, Waiting, Sending
    <3>3. AgeInv' /\ ClosedInv' /\ TickSparesLiveForward'
      BY <2>3, <3>1 DEF IInv, TypeOK, AgeInv, ClosedInv, TickSparesLiveForward
    <3> QED
      BY <2>3, <3>2, <3>3, HandledSafe DEF Rest
  <2> QED
    BY <2>1, <2>2, <2>3
<1> QED
  BY <1>1, <1>2, <1>3, <1>4

\* A request that its handler has not finished is younger than DrainMinAge.
LEMMA InFlightIsYoung ==
  ASSUME IInv, NEW h \in Hook, handler[h] # "done"
  PROVE  age[h] <= DrainMinAge
<1>1. /\ age[h] \in Nat /\ timer[h] \in Nat
      /\ handler[h] \in {"idle", "save", "forward", "send", "mark"}
  BY DEF IInv, TypeOK
<1> QED
  BY <1>1 DEF IInv, AgeInv

\* Every step of drainLoop preserves the invariant.
LEMMA DrainSafe ==
  ASSUME IInv, DrainStart \/ DrainTick \/ \E h \in Hook : DrainSend(h)
  PROVE  Rest'
<1>1. CASE DrainStart
  <2> USE <1>1 DEF DrainStart
  <2>1. Waiting' = Waiting
    BY DEF Waiting, Sending
  <2>2. AgeInv' /\ ClosedInv' /\ TickSparesLiveForward'
    BY <2>1 DEF IInv, AgeInv, ClosedInv, TickSparesLiveForward, client
  <2> QED
    BY <2>1, <2>2, ClientFrame DEF Rest
<1>2. CASE DrainTick
  <2> USE <1>2 DEF DrainTick
  <2>1. Waiting' = Waiting
    BY DEF Waiting, Sending
  <2>2. AgeInv' /\ ClosedInv'
    BY <2>1 DEF IInv, AgeInv, ClosedInv, client
  <2>3. TickSparesLiveForward'
    <3>1. \A h \in queue' : handler[h] = "done"
      BY InFlightIsYoung DEF IInv, TypeOK, Stale
    <3> QED
      BY <3>1 DEF TickSparesLiveForward
  <2> QED
    BY <2>1, <2>2, <2>3, ClientFrame DEF Rest
<1>3. ASSUME NEW h \in Hook, DrainSend(h) PROVE Rest'
  <2> USE <1>3 DEF DrainSend
  <2>1. tunnel = "open" /\ Worker \notin Waiting /\ h # None
    BY DEF IInv, ClosedInv, Waiting, Sending
  <2>2. Waiting' = Waiting \cup {Worker}
    BY <2>1 DEF Waiting, Sending
  <2>3. AgeInv'
    BY DEF IInv, TypeOK, AgeInv, Send
  <2>4. ClosedInv' /\ TickSparesLiveForward'
    BY <2>1 DEF IInv, ClosedInv, TickSparesLiveForward, Send
  <2> QED
    BY <2>1, <2>2, <2>3, <2>4, SendSafe DEF Rest
<1> QED
  BY <1>1, <1>2, <1>3

\* Time passes only while every clock that matters is running.
LEMMA TickSafe ==
  ASSUME IInv, Tick
  PROVE  Rest'
<1> USE DEF Tick
<1>1. Waiting' = Waiting
  BY DEF Waiting, Sending
<1>2. ClosedInv' /\ InboxInv' /\ TickSparesLiveForward'
  BY <1>1 DEF IInv, ClosedInv, InboxInv, TickSparesLiveForward
<1>3. AgeInv'
  <2> SUFFICES ASSUME NEW h \in Hook
               PROVE  /\ handler[h] = "idle" => age'[h] = 0
                      /\ handler[h] = "save" => age'[h] + timer'[h] <= DBDelay
                      /\ handler[h] = "forward" => age'[h] <= DBDelay
                      /\ handler[h] = "send" => age'[h] + timer'[h] <= DBDelay + SendTimeout
                      /\ handler[h] = "mark" =>
                           age'[h] + timer'[h] <= DBDelay + SendTimeout + DBDelay
    BY DEF AgeInv
  <2>1. /\ age[h] \in Nat /\ timer[h] \in Nat
        /\ handler[h] \in {"save", "mark", "send"} => timer[h] # 0
        /\ handler[h] # "forward"
    BY DEF Due, IInv, TypeOK, Waiting, Sending
  <2>2. /\ handler[h] = "idle" => age'[h] = 0
        /\ age'[h] = 0 \/ age'[h] = age[h] \/ age'[h] = age[h] + 1
        /\ timer[h] # 0 => timer'[h] = timer[h] - 1
    BY DEF IInv, TypeOK, Less
  <2> QED
    BY <2>1, <2>2 DEF IInv, AgeInv
<1>4. FirstInv'
  <2> SUFFICES ASSUME NEW s \in Waiting, s \notin queued
               PROVE  busy = s /\ work' < timer'[s]
    BY <1>1 DEF FirstInv
  <2>1. tunnel = "open" /\ s \in Sender /\ work \in Nat /\ timer[s] \in Nat
    BY DEF IInv, ClosedInv, TypeOK, Waiting
  <2>2. busy = s /\ work < timer[s]
    BY <2>1 DEF IInv, FirstInv, Due
  <2>3. work # 0
    BY <2>1, <2>2 DEF Due
  <2>4. work' = work - 1 /\ timer'[s] = timer[s] - 1
    BY <2>1, <2>2, <2>3 DEF Less
  <2> QED
    BY <2>1, <2>2, <2>4
<1> QED
  BY <1>2, <1>3, <1>4 DEF Rest

----------------------------------------------------------------------------
(* The theorems. *)

\* The initial states satisfy the invariant.
LEMMA InitInv ==
  ASSUME Init
  PROVE  IInv
<1>1. Waiting = {}
  BY DEF Init, Waiting, Sending
<1>2. TypeOK
  BY DEF Init, TypeOK
<1> QED
  BY <1>1, <1>2 DEF Init, IInv, AgeInv, ClosedInv, InboxInv, FirstInv, TickSparesLiveForward

\* Every step preserves it.
LEMMA NextInv ==
  ASSUME IInv, [Next]_vars
  PROVE  IInv'
<1>1. CASE Next
  <2>1. TypeOK'
    BY <1>1, TypeStep DEF IInv
  <2>2. Rest'
    BY <1>1, HookSafe, CloseSafe, ReconnectSafe, ClientSafe, DrainSafe, TickSafe
       DEF Next, Expire, ConnLost
  <2> QED
    BY <2>1, <2>2 DEF IInv, Rest
<1>2. CASE UNCHANGED vars
  <2>1. Waiting' = Waiting
    BY <1>2 DEF vars, worker, Waiting, Sending
  <2>2. TypeOK' /\ AgeInv' /\ TickSparesLiveForward'
    BY <1>2 DEF vars, client, worker, IInv, TypeOK, AgeInv, TickSparesLiveForward
  <2>3. ClosedInv' /\ InboxInv' /\ FirstInv'
    BY <1>2, <2>1 DEF vars, client, worker, IInv, ClosedInv, InboxInv, FirstInv
  <2> QED
    BY <2>2, <2>3 DEF IInv
<1> QED
  BY <1>1, <1>2

\* The invariant holds for ever.
LEMMA Invariance == Spec => []IInv
BY InitInv, NextInv, PTL DEF Spec

\* Every variable of TunnelTiming keeps its type; in particular no Send is given
\* more than SendTimeout.
THEOREM TypeCorrect == Spec => []TypeOK
<1>1. IInv => TypeOK
  BY DEF IInv
<1> QED
  BY <1>1, Invariance, PTL

\* The tick of drainLoop never sends a row whose handleHook is still under way,
\* for any durations with 2 * DBDelay + SendTimeout <= DrainMinAge, provided that no
\* statement of a handler takes longer than DBDelay.
THEOREM TickWaitsForForward == Spec => []TickSparesLiveForward
<1>1. IInv => TickSparesLiveForward
  BY DEF IInv
<1> QED
  BY <1>1, Invariance, PTL

\* A Send that found the client idle is answered, if only with status 0, before its
\* deadline, for any durations with LocalTimeout < SendTimeout.
THEOREM SlowAppKeepsTunnel == Spec => []OnlyQueuedExpires
<1>1. IInv => OnlyQueuedExpires
  BY DEF IInv, TypeOK, FirstInv, OnlyQueuedExpires, Waiting
<1> QED
  BY <1>1, Invariance, PTL

=============================================================================
