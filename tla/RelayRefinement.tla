-------------------------- MODULE RelayRefinement --------------------------
(***************************************************************************)
(* The relay implements the abstract queue of WebhookQueue, for any number *)
(* of requests, connections, replays and faults.                           *)
(***************************************************************************)
EXTENDS RelayProofs

USE RelayAssumption DEF Absent, Pending

\* A provider has been told nothing as long as its handler is running.
ToldInv == \A h \in Hook : hook[h] # "done" => answer[h].kind = "none"

\* The constants of the abstract queue.
USE DEF Queue!Dropped, Queue!New, Queue!Pending, Queue!Refused, Queue!Nothing, Queue!Accepted

\* An answer to a provider that has had none is a Say of the queue.
LEMMA ReplyIsSay ==
  ASSUME TypeOK, ToldInv, NEW h \in Hook, hook[h] # "done",
         NEW kind \in {"rejected", "accepted", "error", "local", "repeat"},
         NEW code \in {0} \cup Status, Reply(h, kind, code)
  PROVE  Queue!Say(h, IF kind \in {"rejected", "error"} THEN -2 ELSE code)
<1>1. /\ answer' = [answer EXCEPT ![h] = [kind |-> kind, code |-> code]]
      /\ answer[h].kind = "none"
  BY DEF Reply, ToldInv
<1>2. /\ answer'[h].kind = kind /\ answer'[h].code = code
      /\ \A g \in Hook \ {h} : answer'[g] = answer[g]
  BY <1>1 DEF TypeOK
<1>3. Told[h] = -1
  BY <1>1 DEF Told
<1>4. Told' = [Told EXCEPT ![h] = IF kind \in {"rejected", "error"} THEN -2 ELSE code]
  BY <1>2 DEF Told
<1> QED
  BY <1>3, <1>4 DEF Queue!Say

\* What an item of the queue says about its row.
LEMMA ItemRow ==
  ASSUME IInv, NEW h \in Hook
  PROVE  /\ Kept(h) <=> Item[h] # -1
         /\ row[h] # Absent => Item[h] = row[h]
         /\ Item[h] = -2 <=> (row[h] = Absent /\ h \in purged)
<1>1. row[h] # -2
  <2>1. row[h] \in {-1, 0} \cup Status
    BY DEF IInv, TypeOK
  <2> QED
    BY <2>1
<1>2. Item[h] = IF row[h] = -1 /\ h \in purged THEN -2 ELSE row[h]
  BY DEF Item
<1> QED
  BY <1>1, <1>2 DEF Kept

\* acceptPending is the queue's Accept if the handler's row, or its original's, is in
\* the table, and AcceptInVain if retention has taken it.
LEMMA AcceptIsAccept ==
  ASSUME IInv, ToldInv, NEW h \in Hook, hook[h] # "done", AcceptPending(h),
         NEW g \in Twin[h], g \in Hook, Kept(g), UNCHANGED <<row, purged, served>>
  PROVE  Queue!Next
<1>1. Queue!Say(h, 0)
  BY ReplyIsSay DEF IInv, AcceptPending
<1>2. Queue!Queued(g) /\ Item' = Item
  BY ItemRow DEF Queue!Queued, Item
<1> QED
  BY <1>1, <1>2 DEF Queue!Next, Queue!Queued, Queue!Accept, Queue!AcceptInVain

\* An error, or a rejection, is the queue's Refuse.
LEMMA ErrorIsRefuse ==
  ASSUME IInv, ToldInv, NEW h \in Hook, hook[h] # "done",
         Reply(h, "error", 0) \/ Reply(h, "rejected", 0), UNCHANGED <<row, purged, served>>
  PROVE  Queue!Next
<1>1. Queue!Say(h, -2)
  BY ReplyIsSay DEF IInv
<1>2. Item' = Item
  BY DEF Item
<1> QED
  BY <1>1, <1>2 DEF Queue!Next, Queue!Refuse

\* MarkDelivered settles the item, unless retention has dropped it.
LEMMA MarkSettles ==
  ASSUME IInv, NEW h \in Hook, NEW st \in Status, MarkDelivered(h, st), Kept(h),
         UNCHANGED purged
  PROVE  Item' = Queue!SettledItem(h, st)
<1>1. /\ row'[h] = IF row[h] = Absent THEN Absent ELSE st
      /\ \A g \in Hook \ {h} : row'[g] = row[g]
  BY DEF MarkDelivered, IInv, TypeOK
<1>2. \A g \in Hook : Item'[g] = IF g = h THEN IF Item[h] = -2 THEN -2 ELSE st ELSE Item[g]
  <2>1. /\ h \in purged => row[h] = -1
        /\ \A g \in Hook : Item[g] = IF row[g] = -1 /\ g \in purged THEN -2 ELSE row[g]
        /\ \A g \in Hook : Item'[g] = IF row'[g] = -1 /\ g \in purged THEN -2 ELSE row'[g]
        /\ row[h] # -2 /\ st # -1
    BY DEF Item, IInv, HookInv, TypeOK
  <2> QED
    BY <1>1, <2>1 DEF Kept
<1>3. Item' = [g \in Hook |-> IF g = h THEN IF Item[h] = -2 THEN -2 ELSE st ELSE Item[g]]
  BY <1>2 DEF Item
<1> QED
  BY <1>3 DEF Queue!SettledItem, Item

\* A step that changes neither the table nor what anybody has been told nor what the
\* local app has seen changes nothing for the queue.
LEMMA Stutter ==
  ASSUME UNCHANGED <<row, purged, served, answer>>
  PROVE  UNCHANGED Queue!vars
BY DEF Queue!vars, Item, Told

----------------------------------------------------------------------------
(* One lemma per goroutine. *)

\* Every step of handleHook is a step of the queue, or none.
LEMMA HookRefines ==
  ASSUME IInv, ToldInv, NEW h \in Hook, HookNext(h)
  PROVE  Queue!Next \/ UNCHANGED Queue!vars
<1> USE DEF store, hub, workers, provider
<1>0. h \in Caller /\ h \in Twin[h]
  BY DEF Caller, Twin
<1>1. CASE HookReject(h)
  BY <1>1, ErrorIsRefuse DEF HookReject
<1>2. CASE HookReceive(h)
  BY <1>2, Stutter DEF HookReceive, HookStep
<1>3. CASE HookSave(h)
  <2>1. CASE UNCHANGED <<row, answer>>
    BY <1>3, <2>1, Stutter DEF HookSave
  <2>2. CASE SaveWebhook(h) /\ UNCHANGED answer
    <3>1. row[h] = Absent /\ h \notin purged /\ UNCHANGED <<purged, served>>
      BY <1>3 DEF HookSave, IInv, HookInv, Kept
    <3>2. /\ row'[h] = 0
          /\ \A g \in Hook \ {h} : row'[g] = row[g]
      BY <2>2 DEF SaveWebhook, IInv, TypeOK
    <3>3. Item[h] = -1 /\ Item' = [Item EXCEPT ![h] = 0]
      BY <3>1, <3>2 DEF Item
    <3> QED
      BY <2>2, <3>1, <3>3 DEF Queue!Next, Queue!Put, Told
  <2>3. CASE SaveFailed(h) /\ UNCHANGED row
    BY <1>3, <2>3, ErrorIsRefuse DEF HookSave, SaveFailed
  <2> QED
    BY <1>3, <2>1, <2>2, <2>3 DEF HookSave, HookStep
<1>4. CASE RespondDuplicate(h)
  <2>1. hook[h] = "duplicate" /\ Dedup /\ UNCHANGED <<row, purged, served>>
    BY <1>4 DEF RespondDuplicate, IInv, HookInv
  <2>2. CASE AcceptPending(h)
    <3>1. PICK g \in Hook : Kept(g) /\ KeyOf[g] = KeyOf[h]
      BY <2>1 DEF IInv, HookInv
    <3>2. g \in Twin[h]
      BY <2>1, <3>1 DEF Twin
    <3> QED
      BY <2>1, <2>2, <3>1, <3>2, AcceptIsAccept
  <2>3. CASE \E g \in WebhookByDedupKey(h) : row[g] # Pending /\ RepeatAnswer(h, g)
    <3>1. PICK g \in WebhookByDedupKey(h) : row[g] # Pending /\ RepeatAnswer(h, g)
      BY <2>3
    <3>2. g \in Hook /\ row[g] \in Status /\ row[g] # Absent /\ g \in Twin[h]
      BY <2>1, <3>1 DEF WebhookByDedupKey, Rows, Twin, IInv, TypeOK
    <3>3. Queue!Say(h, row[g])
      BY <2>1, <3>1, <3>2, ReplyIsSay DEF RepeatAnswer, IInv
    <3>4. Item[g] = row[g] /\ Item' = Item
      BY <2>1, <3>2, ItemRow DEF Item
    <3> QED
      BY <2>1, <3>2, <3>3, <3>4 DEF Queue!Next, Queue!Pass
  <2> QED
    BY <1>4, <2>2, <2>3 DEF RespondDuplicate
<1>5. CASE HookConnected(h)
  <2>1. hook[h] = "saved" /\ Kept(h) /\ UNCHANGED <<row, purged, served>>
    BY <1>5 DEF HookConnected, IInv, HookInv
  <2>2. CASE AcceptPending(h)
    BY <1>0, <2>1, <2>2, AcceptIsAccept
  <2>3. CASE UNCHANGED answer
    BY <2>1, <2>3, Stutter
  <2> QED
    BY <1>5, <2>2, <2>3 DEF HookConnected, HookStep
<1>6. CASE HookForward(h)
  <2>1. hook[h] = "connected" /\ Kept(h) /\ UNCHANGED <<row, purged, served>>
    BY <1>6 DEF HookForward, IInv, HookInv
  <2>2. CASE AcceptPending(h)
    BY <1>0, <2>1, <2>2, AcceptIsAccept
  <2>3. CASE UNCHANGED answer
    BY <2>1, <2>3, Stutter
  <2> QED
    BY <1>6, <2>2, <2>3 DEF HookForward, HookStep
<1>7. CASE HookSendFails(h)
  <2>1. hook[h] = "forward" /\ Kept(h) /\ UNCHANGED <<row, purged, served>>
    BY <1>7 DEF HookSendFails, SendFails, IInv, HookInv
  <2> QED
    BY <1>0, <1>7, <2>1, AcceptIsAccept DEF HookSendFails
<1>8. CASE HookSendReturns(h)
  <2>1. hook[h] = "forward" /\ Kept(h) /\ UNCHANGED <<row, purged, served>>
    BY <1>8 DEF HookSendReturns, Unreached, Answered, IInv, HookInv
  <2>2. CASE AcceptPending(h)
    BY <1>0, <2>1, <2>2, AcceptIsAccept
  <2>3. CASE UNCHANGED answer
    BY <2>1, <2>3, Stutter
  <2> QED
    BY <1>8, <2>2, <2>3 DEF HookSendReturns
<1>9. CASE HookMark(h)
  <2>1. /\ hook[h] = "forward" /\ call[h].hook = h /\ Kept(h)
        /\ UNCHANGED <<purged, served>>
    BY <1>0, <1>9 DEF HookMark, IInv, HookInv
  <2>2. call[h].resp \in Status /\ <<h, call[h].resp>> \in served
    BY <1>0, <1>9, <2>1, CallFields DEF HookMark, IInv, CallInv
  <2>3. CASE MarkDelivered(h, call[h].resp) /\ Reply(h, "local", call[h].resp)
    <3>1. Queue!Say(h, call[h].resp)
      BY <2>1, <2>2, <2>3, ReplyIsSay DEF IInv
    <3>2. Queue!Queued(h) /\ Item' = Queue!SettledItem(h, call[h].resp)
      BY <2>1, <2>2, <2>3, ItemRow, MarkSettles DEF Queue!Queued
    <3> QED
      BY <2>1, <2>2, <3>1, <3>2 DEF Queue!Next, Queue!Pass
  <2>4. CASE Reply(h, "error", 0) /\ UNCHANGED row
    BY <2>1, <2>4, ErrorIsRefuse
  <2> QED
    BY <1>9, <2>3, <2>4 DEF HookMark
<1> QED
  BY <1>1, <1>2, <1>3, <1>4, <1>5, <1>6, <1>7, <1>8, <1>9 DEF HookNext

\* A MarkDelivered that answers nobody is the queue's Settle.
LEMMA MarkIsSettle ==
  ASSUME IInv, NEW s \in Caller, call[s].phase = "mark",
         MarkDelivered(call[s].hook, call[s].resp), UNCHANGED <<purged, served, answer>>
  PROVE  Queue!Next
<1>1. /\ call[s].hook \in Hook /\ call[s].resp \in Status /\ Kept(call[s].hook)
      /\ <<call[s].hook, call[s].resp>> \in served
  BY CallFields DEF IInv, CallInv
<1>2. Queue!Queued(call[s].hook)
  BY <1>1, ItemRow DEF Queue!Queued
<1>3. Item' = Queue!SettledItem(call[s].hook, call[s].resp)
  BY <1>1, MarkSettles
<1> QED
  BY <1>1, <1>2, <1>3 DEF Queue!Next, Queue!Settle, Told

\* Every step of drainLoop is a step of the queue, or none.
LEMMA DrainRefines ==
  ASSUME IInv, NEW c \in Conn, DrainNext(c)
  PROVE  Queue!Next \/ UNCHANGED Queue!vars
<1> USE DEF store, provider
<1>0. c \in Caller
  BY DEF Caller
<1>1. CASE DrainMark(c)
  BY <1>0, <1>1, MarkIsSettle, Stutter DEF DrainMark
<1>2. CASE DrainOnConnect(c) \/ DrainSend(c) \/ DrainSendFails(c) \/ DrainSendReturns(c)
  BY <1>2, Stutter DEF DrainOnConnect, DrainSend, DrainSendFails, DrainSendReturns
<1>3. CASE DrainDone(c) \/ DrainStop(c)
  BY <1>3, Stutter DEF DrainDone, DrainStop
<1>4. CASE \E cutoff \in 1..clock + 1 : DrainTick(c, cutoff)
  BY <1>4, Stutter DEF DrainTick
<1> QED
  BY <1>1, <1>2, <1>3, <1>4 DEF DrainNext

\* Every step of ReplayWebhook is a step of the queue, or none.
LEMMA ReplayRefines ==
  ASSUME IInv, NEW p \in Replayer, ReplayNext(p)
  PROVE  Queue!Next \/ UNCHANGED Queue!vars
<1> USE DEF store, provider
<1>0. p \in Caller
  BY DEF Caller
<1>1. CASE ReplayMark(p)
  BY <1>0, <1>1, MarkIsSettle, Stutter DEF ReplayMark
<1>2. CASE \E h \in Hook : ReplayGet(p, h)
  BY <1>2, Stutter DEF ReplayGet
<1>3. CASE ReplayForward(p) \/ ReplaySendFails(p) \/ ReplaySendReturns(p)
  BY <1>3, Stutter DEF ReplayForward, ReplaySendFails, ReplaySendReturns
<1> QED
  BY <1>1, <1>2, <1>3 DEF ReplayNext

\* What the local app sees, the queue has handed to it.
LEMMA AnswerRefines ==
  ASSUME IInv, NEW s \in Caller, LocalAnswer(s) \/ AnswerTooLong(s)
  PROVE  Queue!Next \/ UNCHANGED Queue!vars
<1>1. UNCHANGED <<row, purged, answer>>
  BY DEF LocalAnswer, AnswerTooLong, store, provider
<1>2. CASE UNCHANGED served
  BY <1>1, <1>2, Stutter
<1>3. CASE \E st \in Status : served' = served \cup {<<call[s].hook, st>>}
  <2>1. call[s].hook \in Hook /\ Kept(call[s].hook)
    BY CallFields DEF LocalAnswer, AnswerTooLong, IInv, CallInv
  <2>2. Queue!Queued(call[s].hook)
    BY <2>1, ItemRow DEF Queue!Queued
  <2>3. Item' = Item /\ Told' = Told
    BY <1>1 DEF Item, Told
  <2> QED
    BY <1>3, <2>1, <2>2, <2>3 DEF Queue!Next, Queue!Hand
<1> QED
  BY <1>2, <1>3 DEF LocalAnswer, AnswerTooLong

\* A sweep drops rows of the table.
LEMMA SweepRefines ==
  ASSUME IInv, SweepByAge \/ SweepByCount
  PROVE  Queue!Next
<1>1. PICK S \in SUBSET Rows : DeleteRows(S)
  <2>1. CASE SweepByAge
    BY <2>1 DEF SweepByAge, DeleteWebhooksOlderThan
  <2>2. CASE SweepByCount
    <3>1. PICK max \in {0, MaxRows} : DeleteWebhooksOverCount(max)
      BY <2>2 DEF SweepByCount
    <3> QED
      BY <3>1 DEF DeleteWebhooksOverCount
  <2> QED
    BY <2>1, <2>2
<1>2. S \subseteq Hook /\ \A h \in S : Queue!Queued(h)
  BY ItemRow DEF Rows, Queue!Queued, Kept
<1>3. \A h \in Hook : Item'[h] = IF h \in S THEN -2 ELSE Item[h]
  BY <1>1 DEF DeleteRows, Item
<1>4. Item' = [h \in Hook |-> IF h \in S THEN -2 ELSE Item[h]]
  BY <1>3 DEF Item
<1> QED
  BY <1>1, <1>2, <1>4 DEF Queue!Next, Queue!Drop, Told, DeleteRows, provider

\* A crash is invisible in the queue: the table survives, and a handler that is cut
\* off has told its provider nothing.
LEMMA CrashRefines ==
  ASSUME IInv, ToldInv, Crash
  PROVE  UNCHANGED Queue!vars
<1>1. \A h \in Hook : Told'[h] = Told[h]
  BY DEF Crash, ToldInv, Told
<1>2. Told' = Told
  BY <1>1 DEF Told
<1> QED
  BY <1>2 DEF Crash, Queue!vars, Item

\* Every step of the relay is a step of the queue, or none.
LEMMA NextRefines ==
  ASSUME IInv, ToldInv, [Next]_vars
  PROVE  [Queue!Next]_(Queue!vars)
<1>1. CASE \E h \in Hook : HookNext(h)
  BY <1>1, HookRefines
<1>2. CASE \E c \in Conn : ConnNext(c)
  BY <1>2, Stutter DEF ConnNext, Register, CloseOld, ConnLost, Unregister, store, provider
<1>3. CASE \E c \in Conn : DrainNext(c)
  BY <1>3, DrainRefines
<1>4. CASE \E p \in Replayer : ReplayNext(p)
  BY <1>4, ReplayRefines
<1>5. CASE \E s \in Caller : LocalAnswer(s) \/ AnswerTooLong(s)
  BY <1>5, AnswerRefines
<1>6. CASE SweepByAge \/ SweepByCount
  BY <1>6, SweepRefines
<1>7. CASE Crash
  BY <1>7, CrashRefines
<1>8. CASE UNCHANGED vars
  BY <1>8, Stutter DEF vars, store, provider
<1> QED
  BY <1>1, <1>2, <1>3, <1>4, <1>5, <1>6, <1>7, <1>8 DEF Next

\* Only the last step of a handler, or a crash, tells its provider something.
LEMMA ToldStep ==
  ASSUME IInv, ToldInv, [Next]_vars
  PROVE  ToldInv'
<1>1. ASSUME NEW h \in Hook, HookNext(h) PROVE ToldInv'
  <2>1. CASE UNCHANGED <<hook, answer>>
    BY <2>1 DEF ToldInv
  <2>2. CASE hook[h] # "done" /\ \E from, to : HookStep(h, from, to)
    BY <2>2 DEF HookStep, ToldInv, IInv, TypeOK
  <2>3. CASE \E kind, code : Reply(h, kind, code)
    BY <2>3 DEF Reply, ToldInv, IInv, TypeOK
  <2>4. CASE HookReject(h) \/ HookReceive(h) \/ HookSave(h) \/ RespondDuplicate(h)
    BY <2>2, <2>3, <2>4
       DEF HookReject, HookReceive, HookSave, RespondDuplicate, HookStep, AcceptPending,
           SaveFailed, RepeatAnswer
  <2>5. CASE HookConnected(h)
    BY <2>2, <2>3, <2>5 DEF HookConnected, AcceptPending
  <2>6. CASE HookForward(h)
    BY <2>2, <2>3, <2>6 DEF HookForward, AcceptPending
  <2>7. CASE HookSendFails(h) \/ HookSendReturns(h) \/ HookMark(h)
    BY <2>1, <2>3, <2>7 DEF HookSendFails, HookSendReturns, HookMark, AcceptPending, provider
  <2> QED
    BY <1>1, <2>4, <2>5, <2>6, <2>7 DEF HookNext
<1>2. CASE Crash
  BY <1>2 DEF Crash, ToldInv
<1>3. CASE UNCHANGED <<hook, answer>>
  BY <1>3 DEF ToldInv
<1>4. CASE \E c \in Conn : ConnNext(c) \/ DrainNext(c)
  BY <1>3, <1>4
     DEF ConnNext, Register, CloseOld, ConnLost, Unregister, DrainNext, DrainOnConnect,
         DrainSend, DrainSendFails, DrainSendReturns, DrainMark, DrainDone, DrainTick,
         DrainStop, provider
<1>5. CASE \E p \in Replayer : ReplayNext(p)
  BY <1>3, <1>5
     DEF ReplayNext, ReplayGet, ReplayForward, ReplaySendFails, ReplaySendReturns, ReplayMark,
         provider
<1>6. CASE \E s \in Caller : LocalAnswer(s) \/ AnswerTooLong(s)
  BY <1>3, <1>6 DEF LocalAnswer, AnswerTooLong, provider
<1>7. CASE SweepByAge \/ SweepByCount
  BY <1>3, <1>7
     DEF SweepByAge, SweepByCount, DeleteWebhooksOlderThan, DeleteWebhooksOverCount,
         DeleteRows, provider
<1>8. CASE UNCHANGED vars
  BY <1>3, <1>8 DEF vars, provider
<1> QED
  BY <1>1, <1>2, <1>4, <1>5, <1>6, <1>7, <1>8 DEF Next

\* The relay implements the durable at-least-once queue: whatever the goroutines,
\* the faults and the crashes do, what the table holds, what the local app sees and
\* what providers are told is a behaviour of WebhookQueue.
THEOREM Refinement == Spec => ImplementsQueue
<1>1. Init => ToldInv /\ Queue!Init
  BY DEF Init, ToldInv, NoAnswer, Queue!Init, Item, Told
<1>2. ToldInv /\ IInv /\ [Next]_vars => ToldInv'
  BY ToldStep
<1>3. ToldInv /\ IInv /\ [Next]_vars => [Queue!Next]_(Queue!vars)
  BY NextRefines
<1>4. Spec => []IInv
  BY Invariance
<1> QED
  BY <1>1, <1>2, <1>3, <1>4, PTL DEF Spec, ImplementsQueue, Queue!Spec

=============================================================================
