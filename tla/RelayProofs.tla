---------------------------- MODULE RelayProofs ----------------------------
(***************************************************************************)
(* Safety of the delivery engine for any number of requests, connections,  *)
(* replays and faults.                                                     *)
(***************************************************************************)
EXTENDS Relay, TLAPS

USE RelayAssumption DEF Absent, Pending

(***************************************************************************)
(* Type correctness: what the steps of every goroutine are made of, then   *)
(* one lemma per goroutine.                                                *)
(***************************************************************************)

\* The fields of a call in progress have their types.
LEMMA CallFields ==
  ASSUME TypeOK, NEW s \in Caller
  PROVE  /\ call[s].phase \in {"none", "found", "sent", "handled", "mark"}
         /\ call[s].conn \in Conn \cup {None}
         /\ call[s].phase # "none" => call[s].hook \in Hook
         /\ call[s].resp \in {0} \cup Status
BY DEF TypeOK, Call, NoCall

\* Starting or advancing a Send keeps the type of call.
LEMMA SetCallType ==
  ASSUME TypeOK, NEW s \in Caller, NEW c \in Conn \cup {None}, NEW h \in Hook,
         NEW phase \in {"found", "sent", "handled", "mark"},
         NEW resp \in {0} \cup Status, SetCall(s, phase, c, h, resp)
  PROVE  call' \in [Caller -> Call]
BY DEF TypeOK, SetCall, Call

\* So does returning from it.
LEMMA FinishType ==
  ASSUME TypeOK, NEW s \in Caller, Finish(s)
  PROVE  call' \in [Caller -> Call]
BY DEF TypeOK, Finish, Call

\* And so does going on to MarkDelivered.
LEMMA ToMarkType ==
  ASSUME TypeOK, NEW s \in Caller, Answered(s), ToMark(s)
  PROVE  call' \in [Caller -> Call]
BY CallFields, SetCallType DEF ToMark, Answered

\* Answering a provider keeps the types of hook and answer.
LEMMA ReplyType ==
  ASSUME TypeOK, NEW h \in Hook, NEW code \in {0} \cup Status,
         NEW kind \in {"rejected", "accepted", "error", "local", "repeat"},
         Reply(h, kind, code)
  PROVE  hook' \in [Hook -> HookPC] /\ answer' \in [Hook -> Answer]
BY DEF TypeOK, Reply, HookPC, Answer

\* In particular acceptPending.
LEMMA AcceptType ==
  ASSUME TypeOK, NEW h \in Hook, AcceptPending(h)
  PROVE  hook' \in [Hook -> HookPC] /\ answer' \in [Hook -> Answer]
BY ReplyType DEF AcceptPending

\* A failed Send keeps the types of what it changes.
LEMMA SendFailsType ==
  ASSUME TypeOK, NEW s \in Caller, SendFails(s)
  PROVE  /\ call' \in [Caller -> Call]
         /\ conn' \in [Conn -> {"none", "open", "closed"}]
         /\ faults' \in 0..MaxFaults
<1>1. call' \in [Caller -> Call]
  BY FinishType DEF SendFails
<1>2. QED
  BY <1>1 DEF SendFails, Fault, TypeOK

\* MarkDelivered keeps the type of the table.
LEMMA MarkType ==
  ASSUME TypeOK, NEW h, NEW st \in {0} \cup Status, MarkDelivered(h, st)
  PROVE  row' \in [Hook -> {Absent, Pending} \cup Status]
BY DEF TypeOK, MarkDelivered

\* Every step of handleHook preserves the types.
LEMMA HookTypeOK ==
  ASSUME TypeOK, NEW h \in Hook, HookNext(h)
  PROVE  TypeOK'
<1> USE DEF TypeOK, store, hub, workers, provider
<1>0. h \in Caller
  BY DEF Caller
<1>1. CASE HookReject(h)
  BY <1>1, ReplyType DEF HookReject, Fault
<1>2. CASE HookReceive(h)
  BY <1>2 DEF HookReceive, HookStep, HookPC
<1>3. CASE HookSave(h)
  <2>1. CASE SaveFailed(h) /\ Fault /\ UNCHANGED row
    BY <1>3, <2>1, ReplyType DEF HookSave, SaveFailed, Fault
  <2>2. CASE HookStep(h, "received", "duplicate") /\ UNCHANGED <<row, faults>>
    BY <1>3, <2>2 DEF HookSave, HookStep, HookPC
  <2>3. CASE HookStep(h, "received", "saved") /\ SaveWebhook(h) /\ UNCHANGED faults
    BY <1>3, <2>3 DEF HookSave, HookStep, HookPC, SaveWebhook
  <2> QED
    BY <1>3, <2>1, <2>2, <2>3 DEF HookSave
<1>4. CASE RespondDuplicate(h)
  <2>1. CASE AcceptPending(h)
    BY <1>4, <2>1, AcceptType DEF RespondDuplicate, Fault
  <2>2. CASE /\ \E g \in Rows : row[g] # Pending /\ RepeatAnswer(h, g)
             /\ UNCHANGED faults
    <3>1. PICK g \in Rows : row[g] # Pending /\ RepeatAnswer(h, g)
      BY <2>2
    <3>2. row[g] \in {0} \cup Status
      BY DEF Rows
    <3> QED
      BY <1>4, <2>2, <3>1, <3>2, ReplyType DEF RespondDuplicate, RepeatAnswer
  <2> QED
    BY <1>4, <2>1, <2>2 DEF RespondDuplicate, WebhookByDedupKey
<1>5. CASE HookConnected(h)
  BY <1>5, AcceptType DEF HookConnected, HookStep, HookPC
<1>6. CASE HookForward(h)
  <2>1. CASE Reachable
    <3>1. call' \in [Caller -> Call]
      BY <1>0, <1>6, <2>1, SetCallType DEF HookForward, SendOn, Reachable
    <3>2. hook' \in [Hook -> HookPC] /\ answer' = answer
      BY <1>6, <2>1 DEF HookForward, HookStep, HookPC
    <3> QED
      BY <1>6, <3>1, <3>2 DEF HookForward
  <2>2. CASE ~Reachable
    BY <1>6, <2>2, AcceptType DEF HookForward
  <2> QED
    BY <2>1, <2>2
<1>7. CASE HookSendFails(h)
  BY <1>0, <1>7, AcceptType, SendFailsType DEF HookSendFails
<1>8. CASE HookSendReturns(h)
  BY <1>0, <1>8, AcceptType, FinishType, ToMarkType DEF HookSendReturns
<1>9. CASE HookMark(h)
  <2>1. call' \in [Caller -> Call]
    BY <1>0, <1>9, FinishType DEF HookMark
  <2>2. CASE MarkDelivered(h, call[h].resp) /\ Reply(h, "local", call[h].resp) /\ UNCHANGED faults
    BY <1>0, <1>9, <2>1, <2>2, CallFields, ReplyType, MarkType DEF HookMark
  <2>3. CASE Fault /\ Reply(h, "error", 0) /\ UNCHANGED row
    BY <1>9, <2>1, <2>3, ReplyType DEF HookMark, Fault
  <2> QED
    BY <1>9, <2>2, <2>3 DEF HookMark
<1> QED
  BY <1>1, <1>2, <1>3, <1>4, <1>5, <1>6, <1>7, <1>8, <1>9 DEF HookNext

\* Every step of handleTunnel preserves the types.
LEMMA ConnTypeOK ==
  ASSUME TypeOK, NEW c \in Conn, ConnNext(c)
  PROVE  TypeOK'
<1> USE DEF TypeOK, store, hub, workers, provider, Fault
<1>1. CASE Register(c)
  BY <1>1 DEF Register, DrainPC
<1>2. CASE CloseOld(c)
  BY <1>2 DEF CloseOld, DrainPC
<1>3. CASE ConnLost(c)
  BY <1>3 DEF ConnLost
<1>4. CASE Unregister(c)
  BY <1>4 DEF Unregister
<1> QED
  BY <1>1, <1>2, <1>3, <1>4 DEF ConnNext

\* Every step of drainLoop preserves the types.
LEMMA DrainTypeOK ==
  ASSUME TypeOK, NEW c \in Conn, DrainNext(c)
  PROVE  TypeOK'
<1> USE DEF TypeOK, store, hub, workers, provider
<1>0. c \in Caller
  BY DEF Caller
<1>1. CASE DrainOnConnect(c)
  BY <1>1 DEF DrainOnConnect, DrainStep, DrainPC, PendingWebhooks, Fault
<1>2. CASE DrainSend(c)
  <2>1. PICK h \in queue[c] : IF conn[c] = "open" THEN SendOn(c, c, h) /\ UNCHANGED queue
                               ELSE GiveUp(c) /\ UNCHANGED call
    BY <1>2 DEF DrainSend
  <2> QED
    <3>1. h \in Hook
      OBVIOUS
    <3>2. call' \in [Caller -> Call]
      BY <1>0, <1>2, <2>1, <3>1, SetCallType DEF SendOn
    <3>3. queue' \in [Conn -> SUBSET Hook]
      BY <2>1 DEF GiveUp
    <3> QED
      BY <1>2, <3>2, <3>3 DEF DrainSend
<1>3. CASE DrainSendFails(c)
  BY <1>0, <1>3, SendFailsType DEF DrainSendFails, GiveUp
<1>4. CASE DrainSendReturns(c)
  BY <1>0, <1>4, FinishType, ToMarkType DEF DrainSendReturns, GiveUp
<1>5. CASE DrainMark(c)
  <2>1. call' \in [Caller -> Call]
    BY <1>0, <1>5, FinishType DEF DrainMark
  <2>3. row' \in [Hook -> {Absent, Pending} \cup Status]
    BY <1>0, <1>5, CallFields, MarkType DEF DrainMark
  <2>4. faults' \in 0..MaxFaults
    BY <1>5 DEF DrainMark, Fault
  <2>5. queue' \in [Conn -> SUBSET Hook]
    BY <1>5 DEF DrainMark
  <2>2. sent' \in [Conn -> SUBSET Hook]
    BY <1>0, <1>5, CallFields DEF DrainMark
  <2> QED
    BY <1>5, <2>1, <2>2, <2>3, <2>4, <2>5 DEF DrainMark
<1>6. CASE DrainDone(c)
  <2>1. LastWebhooksExcluding(ReplayLimit, sent[c]) \subseteq Hook
    BY DEF LastWebhooksExcluding, Newest, Rows
  <2> QED
    BY <1>6, <2>1 DEF DrainDone, DrainStep, DrainPC, Fault
<1>7. CASE DrainStop(c)
  BY <1>7 DEF DrainStop, DrainStep, DrainPC
<1>8. CASE \E cutoff \in 1..clock + 1 : DrainTick(c, cutoff)
  BY <1>8 DEF DrainTick, DrainStep, DrainPC, PendingOlderThan, PendingWebhooks
<1> QED
  BY <1>1, <1>2, <1>3, <1>4, <1>5, <1>6, <1>7, <1>8 DEF DrainNext

\* Every step of ReplayWebhook preserves the types.
LEMMA ReplayTypeOK ==
  ASSUME TypeOK, NEW p \in Replayer, ReplayNext(p)
  PROVE  TypeOK'
<1> USE DEF TypeOK, store, hub, workers, provider
<1>0. p \in Caller
  BY DEF Caller
<1>1. CASE \E h \in Hook : ReplayGet(p, h)
  BY <1>0, <1>1, SetCallType DEF ReplayGet
<1>2. CASE ReplayForward(p)
  <2>1. CASE Reachable
    BY <1>0, <1>2, <2>1, CallFields, SetCallType DEF ReplayForward, SendOn, Reachable
  <2>2. CASE ~Reachable
    BY <1>0, <1>2, <2>2, FinishType DEF ReplayForward
  <2> QED
    BY <2>1, <2>2
<1>3. CASE ReplaySendFails(p)
  BY <1>0, <1>3, SendFailsType DEF ReplaySendFails
<1>4. CASE ReplaySendReturns(p)
  BY <1>0, <1>4, FinishType, ToMarkType DEF ReplaySendReturns
<1>5. CASE ReplayMark(p)
  <2>1. call' \in [Caller -> Call]
    BY <1>0, <1>5, FinishType DEF ReplayMark
  <2>2. row' \in [Hook -> {Absent, Pending} \cup Status]
    BY <1>0, <1>5, CallFields, MarkType DEF ReplayMark
  <2>3. faults' \in 0..MaxFaults
    BY <1>5 DEF ReplayMark, Fault
  <2> QED
    BY <1>5, <2>1, <2>2, <2>3 DEF ReplayMark
<1> QED
  BY <1>1, <1>2, <1>3, <1>4, <1>5 DEF ReplayNext

\* The answer of the local app preserves the types.
LEMMA LocalTypeOK ==
  ASSUME TypeOK, NEW s \in Caller, LocalAnswer(s)
  PROVE  TypeOK'
<1> USE DEF TypeOK, store, hub, workers, provider
<1>1. CASE \E st \in Status : /\ SetCall(s, "handled", call[s].conn, call[s].hook, st)
                              /\ served' = served \cup {<<call[s].hook, st>>}
  <2>1. PICK st \in Status : /\ SetCall(s, "handled", call[s].conn, call[s].hook, st)
                             /\ served' = served \cup {<<call[s].hook, st>>}
    BY <1>1
  <2>2. call' \in [Caller -> Call]
    BY <2>1, CallFields, SetCallType DEF LocalAnswer
  <2>3. served' \subseteq Hook \X Status
    BY <2>1, CallFields DEF LocalAnswer
  <2> QED
    BY <2>2, <2>3 DEF LocalAnswer, Fault
<1>2. CASE SetCall(s, "handled", call[s].conn, call[s].hook, 0) /\ UNCHANGED served
  <2>1. call' \in [Caller -> Call]
    BY <1>2, CallFields, SetCallType DEF LocalAnswer
  <2>2. faults' \in 0..MaxFaults
    BY DEF LocalAnswer, Fault
  <2> QED
    BY <1>2, <2>1, <2>2 DEF LocalAnswer
<1> QED
  BY <1>1, <1>2 DEF LocalAnswer

\* An answer that is too long preserves the types.
LEMMA TooLongTypeOK ==
  ASSUME TypeOK, NEW s \in Caller, AnswerTooLong(s)
  PROVE  TypeOK'
<1> USE DEF AnswerTooLong, store, workers, provider
<1>1. call[s].hook \in Hook
  BY CallFields
<1>2. served' \subseteq Hook \X Status
  BY <1>1 DEF TypeOK
<1>3. conn' \in [Conn -> {"none", "open", "closed"}]
  BY DEF TypeOK
<1> QED
  BY <1>2, <1>3 DEF TypeOK

\* The retention sweep and a crash preserve the types.
LEMMA ServerTypeOK ==
  ASSUME TypeOK, SweepByAge \/ SweepByCount \/ Crash
  PROVE  TypeOK'
<1> USE DEF TypeOK, store, hub, workers, provider
<1>1. CASE SweepByAge
  BY <1>1 DEF SweepByAge, DeleteWebhooksOlderThan, DeleteRows, Rows
<1>2. CASE SweepByCount
  BY <1>2 DEF SweepByCount, DeleteWebhooksOverCount, DeleteRows, Rows, Newest
<1>3. CASE Crash
  <2>1. call' \in [Caller -> Call]
    BY <1>3 DEF Crash, NoCall, Call
  <2>2. answer' \in [Hook -> Answer] /\ hook' \in [Hook -> HookPC]
    BY <1>3 DEF Crash, HookPC, Answer
  <2> QED
    BY <1>3, <2>1, <2>2 DEF Crash, DrainPC, Fault
<1> QED
  BY <1>1, <1>2, <1>3

(***************************************************************************)
(* The inductive invariant.  The safety properties are not inductive: what *)
(* a handler answers and what MarkDelivered stores come from the goroutine *)
(* that got there, so the invariant follows each of them.                  *)
(***************************************************************************)

\* A handler past its insert has its row; one that found a duplicate has the
\* original's; and only a handler that is forwarding is in a Send, for its own row.
HookInv ==
  \A h \in Hook :
    /\ Kept(h) => hook[h] \notin {"idle", "received"}
    /\ hook[h] \in {"saved", "connected", "forward"} => Kept(h)
    /\ hook[h] = "duplicate" => Dedup /\ \E g \in Hook : Kept(g) /\ KeyOf[g] = KeyOf[h]
    /\ h \in purged => row[h] = Absent
    /\ call[h].phase # "none" => hook[h] = "forward" /\ call[h].hook = h

\* A Send carries a stored webhook, and what it returns the local app has said.
CallInv ==
  \A s \in Caller :
    /\ call[s].phase # "none" => Kept(call[s].hook)
    /\ call[s].phase \in {"handled", "mark"} /\ call[s].resp # 0
         => <<call[s].hook, call[s].resp>> \in served
    /\ call[s].phase = "mark" => call[s].resp # 0

\* A worker holds stored webhooks; those it has delivered are pending no more.
WorkerInv ==
  \A c \in Conn :
    /\ \A h \in queue[c] : Kept(h) /\ h \notin sent[c]
    /\ \A h \in sent[c] : Kept(h) /\ row[h] # Pending

\* The unique index holds; the table has every webhook the local app has seen, and
\* the answers in it are real.
StoreInv ==
  /\ Dedup => \A g, h \in Rows : KeyOf[g] = KeyOf[h] => g = h
  /\ \A x \in served : Kept(x[1])
  /\ DeliveredWasServed

AnswerInv == AcceptedIsStored /\ PassedThroughIsReal

IInv == TypeOK /\ HookInv /\ CallInv /\ WorkerInv /\ StoreInv /\ AnswerInv

(* What a step that leaves part of the state alone preserves. *)

\* StoreInv depends on the table and its histories only.
LEMMA StoreFrame ==
  ASSUME IInv, UNCHANGED <<row, purged, served>>
  PROVE  StoreInv'
BY DEF IInv, StoreInv, Kept, Rows, DeliveredWasServed

\* AnswerInv survives a step that answers nobody and loses no row.
LEMMA AnswerFrame ==
  ASSUME IInv, UNCHANGED answer, served \subseteq served',
         \A g \in Hook : Kept(g) => Kept(g)'
  PROVE  AnswerInv'
<1>1. AcceptedIsStored'
  BY DEF IInv, AnswerInv, AcceptedIsStored
<1>2. PassedThroughIsReal'
  BY DEF IInv, AnswerInv, PassedThroughIsReal
<1> QED
  BY <1>1, <1>2 DEF AnswerInv

\* WorkerInv survives a step that leaves the workers alone and makes no old row
\* pending again.
LEMMA WorkerFrame ==
  ASSUME IInv, UNCHANGED <<queue, sent>>,
         \A g \in Hook : (Kept(g) => Kept(g)') /\ (row'[g] = Pending => row[g] = Pending \/ ~Kept(g))
  PROVE  WorkerInv'
BY DEF IInv, WorkerInv, TypeOK

\* CallInv survives a step that leaves the calls alone and loses no row.
LEMMA CallFrame ==
  ASSUME IInv, UNCHANGED call, served \subseteq served',
         \A g \in Hook : Kept(g) => Kept(g)'
  PROVE  CallInv'
BY CallFields DEF IInv, CallInv

\* A step that leaves the table, the workers, the handlers and the calls alone, such
\* as one of the hub, disturbs no part of the invariant.
LEMMA UnchangedFrame ==
  ASSUME IInv, UNCHANGED <<row, purged, served, answer, hook, call, queue, sent>>
  PROVE  HookInv' /\ CallInv' /\ WorkerInv' /\ StoreInv' /\ AnswerInv'
<1>1. \A g \in Hook : Kept(g) <=> Kept(g)'
  BY DEF Kept
<1>2. HookInv'
  BY <1>1 DEF IInv, HookInv
<1> QED
  BY <1>1, <1>2, StoreFrame, AnswerFrame, WorkerFrame, CallFrame

(* The steps that goroutines share. *)

\* A provider may be told that its webhook is stored, or what the local app said.
LEMMA ReplySafe ==
  ASSUME IInv, NEW h \in Hook, NEW code \in {0} \cup Status,
         NEW kind \in {"rejected", "accepted", "error", "local", "repeat"},
         Reply(h, kind, code), served \subseteq served',
         \A g \in Hook : Kept(g) => Kept(g)',
         kind = "accepted" =>
           \E g \in Hook : Kept(g) /\ (g = h \/ (Dedup /\ KeyOf[g] = KeyOf[h])),
         kind = "local" => <<h, code>> \in served,
         kind = "repeat" => \E g \in Hook : KeyOf[g] = KeyOf[h] /\ <<g, code>> \in served
  PROVE  AnswerInv'
<1>1. /\ answer'[h].kind = kind /\ answer'[h].code = code
      /\ \A g \in Hook \ {h} : answer'[g] = answer[g]
  BY DEF IInv, TypeOK, Reply
<1>2. AcceptedIsStored'
  BY <1>1 DEF IInv, AnswerInv, AcceptedIsStored
<1>3. PassedThroughIsReal'
  BY <1>1 DEF IInv, AnswerInv, PassedThroughIsReal
<1> QED
  BY <1>2, <1>3 DEF AnswerInv

\* A Send may start, or advance, for a webhook that is in the table.
LEMMA SetCallSafe ==
  ASSUME IInv, NEW s \in Caller, NEW phase, NEW c, NEW h, NEW resp,
         SetCall(s, phase, c, h, resp), Kept(h), UNCHANGED <<row, purged>>,
         served \subseteq served',
         resp # 0 => <<h, resp>> \in served',
         phase = "mark" => resp # 0
  PROVE  CallInv'
<1>1. /\ call'[s] = [phase |-> phase, conn |-> c, hook |-> h, resp |-> resp]
      /\ \A t \in Caller \ {s} : call'[t] = call[t]
  BY DEF IInv, TypeOK, SetCall
<1> QED
  BY <1>1 DEF IInv, CallInv, Kept

\* Going on to MarkDelivered with the answer Send returned keeps CallInv.
LEMMA ToMarkSafe ==
  ASSUME IInv, NEW s \in Caller, Answered(s), ToMark(s), UNCHANGED <<row, purged, served>>
  PROVE  CallInv'
<1>1. /\ Kept(call[s].hook) /\ call[s].resp # 0
      /\ <<call[s].hook, call[s].resp>> \in served
  BY DEF Answered, IInv, CallInv
<1>2. SetCall(s, "mark", call[s].conn, call[s].hook, call[s].resp)
  BY DEF ToMark
<1> QED
  BY <1>1, <1>2, SetCallSafe

\* A Send may return at any time.
LEMMA FinishSafe ==
  ASSUME IInv, NEW s \in Caller, Finish(s), UNCHANGED served,
         \A g \in Hook : Kept(g) => Kept(g)'
  PROVE  CallInv'
<1>1. call'[s].phase = "none" /\ \A t \in Caller \ {s} : call'[t] = call[t]
  BY DEF IInv, TypeOK, Finish, NoCall
<1> QED
  BY <1>1, CallFields DEF IInv, CallInv

\* MarkDelivered keeps every row, and what it stores the local app has said.
LEMMA MarkSafe ==
  ASSUME IInv, NEW s \in Caller, call[s].phase = "mark",
         MarkDelivered(call[s].hook, call[s].resp), UNCHANGED <<purged, served>>
  PROVE  /\ StoreInv'
         /\ \A g \in Hook : /\ Kept(g) <=> Kept(g)'
                            /\ g \in purged /\ row[g] = Absent => row'[g] = Absent
                            /\ row'[g] = Pending => row[g] = Pending
         /\ row'[call[s].hook] # Pending
<1>1. /\ call[s].hook \in Hook /\ call[s].resp \in Status
      /\ <<call[s].hook, call[s].resp>> \in served
  BY CallFields DEF IInv, CallInv
<1>2. /\ \A g \in Hook \ {call[s].hook} : row'[g] = row[g]
      /\ row'[call[s].hook] = IF row[call[s].hook] = Absent THEN Absent ELSE call[s].resp
  BY <1>1 DEF MarkDelivered, IInv, TypeOK
<1>3. \A g \in Hook : row'[g] = Absent <=> row[g] = Absent
  BY <1>1, <1>2
<1>4. StoreInv'
  BY <1>1, <1>2, <1>3 DEF IInv, StoreInv, DeliveredWasServed, Kept, Rows, TypeOK
<1> QED
  BY <1>1, <1>2, <1>3, <1>4 DEF Kept

(* One lemma per goroutine, one case per action. *)

\* Every step of handleHook preserves the invariant.
LEMMA HookSafe ==
  ASSUME IInv, NEW h \in Hook, HookNext(h)
  PROVE  HookInv' /\ CallInv' /\ WorkerInv' /\ StoreInv' /\ AnswerInv'
<1> USE DEF store, hub, workers, provider
<1>0. TypeOK /\ h \in Caller /\ call[h].resp \in {0} \cup Status
  BY CallFields DEF IInv, Caller
<1>1. CASE HookReject(h)
  <2> USE <1>1 DEF HookReject
  <2>1. \A g \in Hook : Kept(g) <=> Kept(g)'
    BY DEF Kept
  <2>2. HookInv'
    BY <1>0, <2>1 DEF Reply, IInv, HookInv, TypeOK
  <2>3. AnswerInv'
    BY <2>1, ReplySafe
  <2> QED
    BY <2>1, <2>2, <2>3, StoreFrame, CallFrame, WorkerFrame
<1>2. CASE HookReceive(h)
  <2> USE <1>2 DEF HookReceive, HookStep
  <2>1. \A g \in Hook : Kept(g) <=> Kept(g)'
    BY DEF Kept
  <2>2. HookInv'
    BY <1>0, <2>1 DEF IInv, HookInv, TypeOK
  <2> QED
    BY <2>1, <2>2, StoreFrame, CallFrame, WorkerFrame, AnswerFrame
<1>3. CASE HookSave(h)
  <2> USE <1>3 DEF HookSave
  <2>0. ~Kept(h) /\ row[h] = Absent /\ call[h].phase = "none"
    BY DEF IInv, HookInv, Kept
  <2>1. CASE SaveFailed(h) /\ Fault /\ UNCHANGED row
    <3>1. \A g \in Hook : Kept(g) <=> Kept(g)'
      BY <2>1 DEF Kept
    <3>2. HookInv'
      BY <1>0, <2>0, <2>1, <3>1 DEF SaveFailed, Reply, IInv, HookInv, TypeOK
    <3>3. AnswerInv'
      BY <2>1, <3>1, ReplySafe DEF SaveFailed
    <3> QED
      BY <2>1, <3>1, <3>2, <3>3, StoreFrame, CallFrame, WorkerFrame
  <2>2. CASE IsDuplicate(h) /\ HookStep(h, "received", "duplicate") /\ UNCHANGED <<row, faults>>
    <3>1. \A g \in Hook : Kept(g) <=> Kept(g)'
      BY <2>2 DEF Kept
    <3>2. HookInv'
      BY <1>0, <2>0, <2>2, <3>1 DEF IsDuplicate, HookStep, IInv, HookInv, TypeOK, Rows, Kept
    <3> QED
      BY <2>2, <3>1, <3>2, StoreFrame, CallFrame, WorkerFrame, AnswerFrame DEF HookStep
  <2>3. CASE ~IsDuplicate(h) /\ SaveWebhook(h) /\ HookStep(h, "received", "saved")
    <3>1. row'[h] = Pending /\ \A g \in Hook \ {h} : row'[g] = row[g]
      BY <1>0, <2>3 DEF SaveWebhook, TypeOK
    <3>2. Kept(h)' /\ \A g \in Hook \ {h} : Kept(g) <=> Kept(g)'
      BY <3>1 DEF Kept
    <3>3. HookInv'
      BY <1>0, <2>0, <2>3, <3>1, <3>2 DEF HookStep, IInv, HookInv, TypeOK, Kept
    <3>4. StoreInv'
      BY <2>0, <2>3, <3>1, <3>2
      DEF IInv, StoreInv, DeliveredWasServed, IsDuplicate, Rows, TypeOK
    <3> QED
      BY <2>0, <2>3, <3>1, <3>2, <3>3, <3>4, CallFrame, WorkerFrame, AnswerFrame DEF HookStep
  <2> QED
    BY <2>1, <2>2, <2>3
<1>4. CASE RespondDuplicate(h)
  <2> USE <1>4 DEF RespondDuplicate, WebhookByDedupKey
  <2>1. \A g \in Hook : Kept(g) <=> Kept(g)'
    BY DEF Kept
  <2>2. CASE AcceptPending(h)
    <3>1. HookInv'
      BY <1>0, <2>1, <2>2 DEF AcceptPending, Reply, IInv, HookInv, TypeOK
    <3>2. AnswerInv'
      BY <2>1, <2>2, ReplySafe DEF AcceptPending, IInv, HookInv
    <3> QED
      BY <2>1, <3>1, <3>2, StoreFrame, CallFrame, WorkerFrame
  <2>3. CASE \E g \in Rows : KeyOf[g] = KeyOf[h] /\ row[g] # Pending /\ RepeatAnswer(h, g)
    <3>0. PICK g \in Rows : KeyOf[g] = KeyOf[h] /\ row[g] # Pending /\ RepeatAnswer(h, g)
      BY <2>3
    <3>1. HookInv'
      BY <1>0, <2>1, <3>0 DEF RepeatAnswer, Reply, IInv, HookInv, TypeOK
    <3>2. g \in Hook /\ row[g] \in Status /\ <<g, row[g]>> \in served
      BY <1>0, <3>0 DEF IInv, StoreInv, DeliveredWasServed, Rows, TypeOK
    <3>3. AnswerInv'
      BY <2>1, <3>0, <3>2, ReplySafe DEF RepeatAnswer
    <3> QED
      BY <2>1, <3>1, <3>3, StoreFrame, CallFrame, WorkerFrame
  <2> QED
    BY <2>2, <2>3
<1>5. CASE HookConnected(h)
  <2> USE <1>5 DEF HookConnected
  <2>1. \A g \in Hook : Kept(g) <=> Kept(g)'
    BY DEF Kept
  <2>2. HookInv'
    BY <1>0, <2>1 DEF HookStep, AcceptPending, Reply, IInv, HookInv, TypeOK
  <2>3. AnswerInv'
    BY <2>1, ReplySafe, AnswerFrame DEF AcceptPending, HookStep, IInv, HookInv
  <2> QED
    BY <2>1, <2>2, <2>3, StoreFrame, CallFrame, WorkerFrame
<1>6. CASE HookForward(h)
  <2> USE <1>6 DEF HookForward
  <2>1. Kept(h) /\ \A g \in Hook : Kept(g) <=> Kept(g)'
    BY DEF IInv, HookInv, Kept
  <2>2. CASE Reachable
    <3>1. SetCall(h, "sent", client, h, 0) /\ HookStep(h, "connected", "forward")
      BY <2>2 DEF SendOn
    <3>2. HookInv'
      BY <1>0, <2>1, <3>1 DEF SetCall, HookStep, IInv, HookInv, TypeOK, Caller
    <3>3. CallInv'
      BY <1>0, <2>1, <3>1, SetCallSafe
    <3> QED
      BY <2>1, <3>1, <3>2, <3>3, StoreFrame, WorkerFrame, AnswerFrame DEF HookStep
  <2>3. CASE ~Reachable
    <3>1. HookInv'
      BY <1>0, <2>1, <2>3 DEF AcceptPending, Reply, IInv, HookInv, TypeOK
    <3>2. AnswerInv'
      BY <2>1, <2>3, ReplySafe DEF AcceptPending
    <3> QED
      BY <2>1, <2>3, <3>1, <3>2, StoreFrame, CallFrame, WorkerFrame
  <2> QED
    BY <2>2, <2>3
<1>7. CASE HookSendFails(h)
  <2> USE <1>7 DEF HookSendFails
  <2>1. hook[h] = "forward" /\ Kept(h) /\ \A g \in Hook : Kept(g) <=> Kept(g)'
    BY DEF SendFails, IInv, HookInv, Kept
  <2>2. HookInv'
    BY <1>0, <2>1 DEF SendFails, Finish, NoCall, AcceptPending, Reply, IInv, HookInv, TypeOK, Caller
  <2>3. CallInv'
    BY <1>0, <2>1, FinishSafe DEF SendFails
  <2>4. AnswerInv'
    BY <2>1, ReplySafe DEF AcceptPending
  <2> QED
    BY <2>1, <2>2, <2>3, <2>4, StoreFrame, WorkerFrame
<1>8. CASE HookSendReturns(h)
  <2> USE <1>8 DEF HookSendReturns
  <2>1. /\ hook[h] = "forward" /\ call[h].hook = h /\ Kept(h)
        /\ \A g \in Hook : Kept(g) <=> Kept(g)'
    BY DEF Unreached, Answered, IInv, HookInv, Kept
  <2>2. CASE Finish(h) /\ AcceptPending(h)
    <3>1. HookInv'
      BY <1>0, <2>1, <2>2 DEF Finish, NoCall, AcceptPending, Reply, IInv, HookInv, TypeOK, Caller
    <3>2. CallInv'
      BY <1>0, <2>1, <2>2, FinishSafe
    <3>3. AnswerInv'
      BY <2>1, <2>2, ReplySafe DEF AcceptPending
    <3> QED
      BY <2>1, <3>1, <3>2, <3>3, StoreFrame, WorkerFrame
  <2>3. CASE Answered(h) /\ ToMark(h) /\ UNCHANGED provider
    <3>1. HookInv'
      BY <1>0, <2>1, <2>3 DEF ToMark, SetCall, IInv, HookInv, TypeOK, Caller
    <3>2. CallInv'
      BY <1>0, <2>1, <2>3, ToMarkSafe
    <3> QED
      BY <2>1, <2>3, <3>1, <3>2, StoreFrame, WorkerFrame, AnswerFrame
  <2> QED
    BY <2>2, <2>3
<1>9. CASE HookMark(h)
  <2> USE <1>9 DEF HookMark
  <2>0. /\ hook[h] = "forward" /\ call[h].hook = h
        /\ call[h].resp \in Status /\ <<h, call[h].resp>> \in served
    BY <1>0 DEF IInv, HookInv, CallInv
  <2>1. /\ StoreInv'
        /\ \A g \in Hook : /\ Kept(g) <=> Kept(g)'
                           /\ g \in purged /\ row[g] = Absent => row'[g] = Absent
                           /\ row'[g] = Pending => row[g] = Pending
    BY <1>0, <2>0, MarkSafe, StoreFrame DEF Kept
  <2>2. HookInv'
    BY <1>0, <2>0, <2>1 DEF Finish, NoCall, Reply, IInv, HookInv, TypeOK, Caller
  <2>3. CallInv'
    BY <1>0, <2>1, FinishSafe
  <2>4. AnswerInv'
    BY <1>0, <2>0, <2>1, ReplySafe
  <2> QED
    BY <2>1, <2>2, <2>3, <2>4, WorkerFrame
<1> QED
  BY <1>1, <1>2, <1>3, <1>4, <1>5, <1>6, <1>7, <1>8, <1>9 DEF HookNext

\* Every step of handleTunnel preserves the invariant.
LEMMA ConnSafe ==
  ASSUME IInv, NEW c \in Conn, ConnNext(c)
  PROVE  HookInv' /\ CallInv' /\ WorkerInv' /\ StoreInv' /\ AnswerInv'
BY UnchangedFrame DEF ConnNext, Register, CloseOld, ConnLost, Unregister, store, workers, provider

\* Every step of drainLoop preserves the invariant.
LEMMA DrainSafe ==
  ASSUME IInv, NEW c \in Conn, DrainNext(c)
  PROVE  HookInv' /\ CallInv' /\ WorkerInv' /\ StoreInv' /\ AnswerInv'
<1> USE DEF store, hub, workers, provider
<1>0. /\ TypeOK /\ c \in Caller /\ c \notin Hook
      /\ call[c].phase # "none" => call[c].hook \in Hook
  BY CallFields DEF IInv, Caller
<1>1. CASE DrainOnConnect(c)
  <2> USE <1>1 DEF DrainOnConnect
  <2>1. \A g \in Hook : Kept(g) <=> Kept(g)'
    BY DEF Kept
  <2>2. HookInv'
    BY <2>1 DEF IInv, HookInv
  <2>3. WorkerInv'
    BY <1>0, <2>1 DEF DrainStep, PendingWebhooks, IInv, WorkerInv, TypeOK, Kept
  <2> QED
    BY <2>1, <2>2, <2>3, StoreFrame, CallFrame, AnswerFrame
<1>2. CASE DrainSend(c)
  <2> USE <1>2 DEF DrainSend
  <2>0. PICK h \in queue[c] : IF conn[c] = "open" THEN SendOn(c, c, h) /\ UNCHANGED queue
                              ELSE GiveUp(c) /\ UNCHANGED call
    OBVIOUS
  <2>1. h \in Hook /\ Kept(h) /\ \A g \in Hook : Kept(g) <=> Kept(g)'
    BY <1>0 DEF IInv, WorkerInv, Kept, TypeOK
  <2>2. CASE conn[c] = "open"
    <3>1. SetCall(c, "sent", c, h, 0) /\ UNCHANGED queue
      BY <2>0, <2>2 DEF SendOn
    <3>2. HookInv'
      BY <1>0, <2>1, <3>1 DEF SetCall, IInv, HookInv, TypeOK, Caller
    <3>3. CallInv'
      BY <1>0, <2>1, <3>1, SetCallSafe
    <3> QED
      BY <2>1, <3>1, <3>2, <3>3, StoreFrame, WorkerFrame, AnswerFrame
  <2>3. CASE conn[c] # "open"
    <3>1. WorkerInv'
      BY <1>0, <2>0, <2>1, <2>3 DEF GiveUp, IInv, WorkerInv, TypeOK
    <3>2. HookInv'
      BY <2>0, <2>1, <2>3 DEF IInv, HookInv
    <3> QED
      BY <2>0, <2>1, <2>3, <3>1, <3>2, StoreFrame, CallFrame, AnswerFrame
  <2> QED
    BY <2>2, <2>3
<1>3. CASE DrainSendFails(c)
  <2> USE <1>3 DEF DrainSendFails
  <2>1. \A g \in Hook : Kept(g) <=> Kept(g)'
    BY DEF Kept
  <2>2. HookInv'
    BY <1>0, <2>1 DEF SendFails, Finish, NoCall, IInv, HookInv, TypeOK, Caller
  <2>3. CallInv'
    BY <1>0, <2>1, FinishSafe DEF SendFails
  <2>4. WorkerInv'
    BY <1>0, <2>1 DEF GiveUp, IInv, WorkerInv, TypeOK
  <2> QED
    BY <2>1, <2>2, <2>3, <2>4, StoreFrame, AnswerFrame
<1>4. CASE DrainSendReturns(c)
  <2> USE <1>4 DEF DrainSendReturns
  <2>1. \A g \in Hook : Kept(g) <=> Kept(g)'
    BY DEF Kept
  <2>2. CASE Finish(c) /\ GiveUp(c)
    <3>1. HookInv'
      BY <1>0, <2>1, <2>2 DEF Finish, NoCall, IInv, HookInv, TypeOK, Caller
    <3>2. CallInv'
      BY <1>0, <2>1, <2>2, FinishSafe
    <3>3. WorkerInv'
      BY <1>0, <2>1, <2>2 DEF GiveUp, IInv, WorkerInv, TypeOK
    <3> QED
      BY <2>1, <3>1, <3>2, <3>3, StoreFrame, AnswerFrame
  <2>3. CASE Answered(c) /\ ToMark(c) /\ UNCHANGED queue
    <3>1. HookInv'
      BY <1>0, <2>1, <2>3 DEF ToMark, SetCall, IInv, HookInv, TypeOK, Caller
    <3>2. CallInv'
      BY <1>0, <2>1, <2>3, ToMarkSafe
    <3> QED
      BY <2>1, <2>3, <3>1, <3>2, StoreFrame, WorkerFrame, AnswerFrame
  <2> QED
    BY <2>2, <2>3
<1>5. CASE DrainMark(c)
  <2> USE <1>5 DEF DrainMark
  <2>1. /\ StoreInv'
        /\ \A g \in Hook : /\ Kept(g) <=> Kept(g)'
                           /\ g \in purged /\ row[g] = Absent => row'[g] = Absent
                           /\ row'[g] = Pending => row[g] = Pending
    BY <1>0, MarkSafe, StoreFrame DEF Kept
  <2>2. HookInv'
    BY <1>0, <2>1 DEF Finish, NoCall, IInv, HookInv, TypeOK, Caller
  <2>3. CallInv'
    BY <1>0, <2>1, FinishSafe
  <2>4. WorkerInv'
    <3>1. CASE UNCHANGED <<row, sent>>
      BY <1>0, <2>1, <3>1 DEF IInv, WorkerInv, TypeOK
    <3>2. CASE /\ MarkDelivered(call[c].hook, call[c].resp)
               /\ sent' = [sent EXCEPT ![c] = @ \cup {call[c].hook}]
      <4>1. Kept(call[c].hook) /\ row'[call[c].hook] # Pending
        BY <1>0, <3>2, MarkSafe DEF IInv, CallInv
      <4> QED
        BY <1>0, <2>1, <3>2, <4>1 DEF IInv, WorkerInv, TypeOK
    <3> QED
      BY <3>1, <3>2
  <2> QED
    BY <2>1, <2>2, <2>3, <2>4, AnswerFrame
<1>6. CASE DrainDone(c)
  <2> USE <1>6 DEF DrainDone
  <2>1. \A g \in Hook : Kept(g) <=> Kept(g)'
    BY DEF Kept
  <2>2. HookInv'
    BY <2>1 DEF IInv, HookInv
  <2>3. LastWebhooksExcluding(ReplayLimit, sent[c]) \subseteq Rows \ sent[c]
    BY DEF LastWebhooksExcluding, Newest
  <2>4. \E q \in SUBSET (Rows \ sent[c]) : queue' = [queue EXCEPT ![c] = q]
    BY <2>3 DEF DrainStep
  <2>5. WorkerInv'
    BY <1>0, <2>1, <2>4 DEF IInv, WorkerInv, TypeOK, Rows, Kept
  <2> QED
    BY <2>1, <2>2, <2>5, StoreFrame, CallFrame, AnswerFrame
<1>7. CASE DrainStop(c)
  <2> USE <1>7 DEF DrainStop
  <2>1. \A g \in Hook : Kept(g) <=> Kept(g)'
    BY DEF Kept
  <2>2. HookInv'
    BY <2>1 DEF IInv, HookInv
  <2>3. WorkerInv'
    BY <1>0, <2>1 DEF DrainStep, IInv, WorkerInv, TypeOK
  <2> QED
    BY <2>1, <2>2, <2>3, StoreFrame, CallFrame, AnswerFrame
<1>8. CASE \E cutoff \in 1..clock + 1 : DrainTick(c, cutoff)
  <2>0. PICK cutoff \in 1..clock + 1 : DrainTick(c, cutoff)
    BY <1>8
  <2> USE <2>0 DEF DrainTick
  <2>1. \A g \in Hook : Kept(g) <=> Kept(g)'
    BY DEF Kept
  <2>2. HookInv'
    BY <2>1 DEF IInv, HookInv
  <2>3. \A g \in PendingOlderThan(cutoff) : Kept(g) /\ g \in Hook /\ row[g] = Pending
    BY DEF PendingOlderThan, PendingWebhooks, Kept
  <2>4. WorkerInv'
    BY <1>0, <2>1, <2>3 DEF DrainStep, IInv, WorkerInv, TypeOK
  <2> QED
    BY <2>1, <2>2, <2>4, StoreFrame, CallFrame, AnswerFrame
<1> QED
  BY <1>1, <1>2, <1>3, <1>4, <1>5, <1>6, <1>7, <1>8 DEF DrainNext

\* Every step of ReplayWebhook preserves the invariant.
LEMMA ReplaySafe ==
  ASSUME IInv, NEW p \in Replayer, ReplayNext(p)
  PROVE  HookInv' /\ CallInv' /\ WorkerInv' /\ StoreInv' /\ AnswerInv'
<1> USE DEF store, hub, workers, provider
<1>0. /\ TypeOK /\ p \in Caller /\ p \notin Hook
      /\ call[p].phase # "none" => call[p].hook \in Hook /\ Kept(call[p].hook)
  BY CallFields DEF IInv, CallInv, Caller
<1>1. CASE \E h \in Hook : ReplayGet(p, h)
  <2>0. PICK h \in Hook : ReplayGet(p, h)
    BY <1>1
  <2> USE <2>0 DEF ReplayGet
  <2>1. Kept(h) /\ \A g \in Hook : Kept(g) <=> Kept(g)'
    BY DEF Kept, Rows
  <2>2. HookInv'
    BY <1>0, <2>1 DEF SetCall, IInv, HookInv, TypeOK, Caller
  <2>3. CallInv'
    BY <1>0, <2>1, SetCallSafe
  <2> QED
    BY <2>1, <2>2, <2>3, StoreFrame, WorkerFrame, AnswerFrame
<1>2. CASE ReplayForward(p)
  <2> USE <1>2 DEF ReplayForward
  <2>1. \A g \in Hook : Kept(g) <=> Kept(g)'
    BY DEF Kept
  <2>2. CASE Reachable
    <3>1. SetCall(p, "sent", client, call[p].hook, 0)
      BY <2>2 DEF SendOn
    <3>2. HookInv'
      BY <1>0, <2>1, <3>1 DEF SetCall, IInv, HookInv, TypeOK, Caller
    <3>3. CallInv'
      BY <1>0, <2>1, <3>1, SetCallSafe
    <3> QED
      BY <2>1, <3>2, <3>3, StoreFrame, WorkerFrame, AnswerFrame
  <2>3. CASE ~Reachable
    <3>1. HookInv'
      BY <1>0, <2>1, <2>3 DEF Finish, NoCall, IInv, HookInv, TypeOK, Caller
    <3>2. CallInv'
      BY <1>0, <2>1, <2>3, FinishSafe
    <3> QED
      BY <2>1, <3>1, <3>2, StoreFrame, WorkerFrame, AnswerFrame
  <2> QED
    BY <2>2, <2>3
<1>3. CASE ReplaySendFails(p)
  <2> USE <1>3 DEF ReplaySendFails
  <2>1. \A g \in Hook : Kept(g) <=> Kept(g)'
    BY DEF Kept
  <2>2. HookInv'
    BY <1>0, <2>1 DEF SendFails, Finish, NoCall, IInv, HookInv, TypeOK, Caller
  <2>3. CallInv'
    BY <1>0, <2>1, FinishSafe DEF SendFails
  <2> QED
    BY <2>1, <2>2, <2>3, StoreFrame, WorkerFrame, AnswerFrame
<1>4. CASE ReplaySendReturns(p)
  <2> USE <1>4 DEF ReplaySendReturns
  <2>1. \A g \in Hook : Kept(g) <=> Kept(g)'
    BY DEF Kept
  <2>2. CASE Finish(p)
    <3>1. HookInv'
      BY <1>0, <2>1, <2>2 DEF Finish, NoCall, IInv, HookInv, TypeOK, Caller
    <3>2. CallInv'
      BY <1>0, <2>1, <2>2, FinishSafe
    <3> QED
      BY <2>1, <3>1, <3>2, StoreFrame, WorkerFrame, AnswerFrame
  <2>3. CASE Answered(p) /\ ToMark(p)
    <3>1. HookInv'
      BY <1>0, <2>1, <2>3 DEF ToMark, SetCall, IInv, HookInv, TypeOK, Caller
    <3>2. CallInv'
      BY <1>0, <2>1, <2>3, ToMarkSafe
    <3> QED
      BY <2>1, <3>1, <3>2, StoreFrame, WorkerFrame, AnswerFrame
  <2> QED
    BY <2>2, <2>3
<1>5. CASE ReplayMark(p)
  <2> USE <1>5 DEF ReplayMark
  <2>1. /\ StoreInv'
        /\ \A g \in Hook : /\ Kept(g) <=> Kept(g)'
                           /\ g \in purged /\ row[g] = Absent => row'[g] = Absent
                           /\ row'[g] = Pending => row[g] = Pending
    BY <1>0, MarkSafe, StoreFrame DEF Kept
  <2>2. HookInv'
    BY <1>0, <2>1 DEF Finish, NoCall, IInv, HookInv, TypeOK, Caller
  <2>3. CallInv'
    BY <1>0, <2>1, FinishSafe
  <2> QED
    BY <2>1, <2>2, <2>3, WorkerFrame, AnswerFrame
<1> QED
  BY <1>1, <1>2, <1>3, <1>4, <1>5 DEF ReplayNext

\* The answer of the local app preserves the invariant.
LEMMA LocalSafe ==
  ASSUME IInv, NEW s \in Caller, LocalAnswer(s)
  PROVE  HookInv' /\ CallInv' /\ WorkerInv' /\ StoreInv' /\ AnswerInv'
<1> USE DEF store, hub, workers, provider, LocalAnswer
<1>0. /\ TypeOK /\ call[s].hook \in Hook /\ Kept(call[s].hook)
      /\ \A g \in Hook : Kept(g) <=> Kept(g)'
  BY CallFields DEF IInv, CallInv, Kept
<1>1. PICK st \in {0} \cup Status :
        /\ SetCall(s, "handled", call[s].conn, call[s].hook, st)
        /\ served' = IF st = 0 THEN served ELSE served \cup {<<call[s].hook, st>>}
  OBVIOUS
<1>2. HookInv'
  BY <1>0, <1>1 DEF SetCall, IInv, HookInv, TypeOK, Caller
<1>3. CallInv'
  BY <1>0, <1>1, SetCallSafe
<1>4. StoreInv'
  <2>1. \A x \in served' : Kept(x[1])'
    BY <1>0, <1>1 DEF IInv, StoreInv, TypeOK
  <2>2. DeliveredWasServed'
    BY <1>1 DEF IInv, StoreInv, DeliveredWasServed
  <2> QED
    BY <2>1, <2>2 DEF IInv, StoreInv, Rows
<1> QED
  BY <1>0, <1>1, <1>2, <1>3, <1>4, WorkerFrame, AnswerFrame

\* An answer that is too long has been given, and goes nowhere.
LEMMA TooLongSafe ==
  ASSUME IInv, NEW s \in Caller, AnswerTooLong(s)
  PROVE  HookInv' /\ CallInv' /\ WorkerInv' /\ StoreInv' /\ AnswerInv'
<1> USE DEF store, hub, workers, provider, AnswerTooLong
<1>0. /\ TypeOK /\ call[s].hook \in Hook /\ Kept(call[s].hook)
      /\ \A g \in Hook : Kept(g) <=> Kept(g)'
  BY CallFields DEF IInv, CallInv, Kept
<1>1. HookInv'
  BY <1>0 DEF IInv, HookInv
<1>2. CallInv' /\ WorkerInv' /\ AnswerInv'
  BY <1>0, CallFrame, WorkerFrame, AnswerFrame
<1>3. StoreInv'
  <2>1. \A x \in served' : Kept(x[1])'
    BY <1>0 DEF IInv, StoreInv, TypeOK
  <2>2. DeliveredWasServed'
    BY DEF IInv, StoreInv, DeliveredWasServed
  <2> QED
    BY <2>1, <2>2 DEF IInv, StoreInv, Rows
<1> QED
  BY <1>1, <1>2, <1>3

\* Deleting rows preserves the invariant.
LEMMA DeleteSafe ==
  ASSUME IInv, NEW S \in SUBSET Rows, DeleteRows(S)
  PROVE  HookInv' /\ CallInv' /\ WorkerInv' /\ StoreInv' /\ AnswerInv'
<1> USE DEF DeleteRows, hub, workers, provider
<1>1. \A g \in Hook : /\ Kept(g) <=> Kept(g)'
                      /\ row'[g] = Absent \/ row'[g] = row[g]
                      /\ g \in purged' => row'[g] = Absent
  BY DEF Rows, Kept, IInv, HookInv, TypeOK
<1>2. HookInv'
  BY <1>1 DEF IInv, HookInv
<1>3. StoreInv'
  BY <1>1 DEF IInv, StoreInv, DeliveredWasServed, Rows, TypeOK
<1> QED
  BY <1>1, <1>2, <1>3, CallFrame, WorkerFrame, AnswerFrame

\* A crash preserves the invariant.
LEMMA CrashSafe ==
  ASSUME IInv, Crash
  PROVE  HookInv' /\ CallInv' /\ WorkerInv' /\ StoreInv' /\ AnswerInv'
<1> USE DEF Crash
<1>1. \A g \in Hook : Kept(g) <=> Kept(g)'
  BY DEF Kept
<1>2. HookInv'
  BY <1>1 DEF IInv, HookInv, NoCall, Caller
<1>3. CallInv' /\ WorkerInv'
  BY DEF CallInv, WorkerInv, NoCall
<1>4. \A g \in Hook : answer'[g] = answer[g] \/ answer'[g].kind = "lost"
  OBVIOUS
<1>5. AcceptedIsStored'
  BY <1>1, <1>4 DEF IInv, AnswerInv, AcceptedIsStored
<1>6. PassedThroughIsReal'
  BY <1>4 DEF IInv, AnswerInv, PassedThroughIsReal
<1> QED
  BY <1>2, <1>3, <1>5, <1>6, StoreFrame DEF AnswerInv

(* The theorems. *)

\* The invariant holds initially.
LEMMA InitInv == Init => IInv
<1> SUFFICES ASSUME Init PROVE IInv
  OBVIOUS
<1> USE DEF Init
<1>1. TypeOK
  BY DEF TypeOK, HookPC, DrainPC, NoAnswer, Answer, NoCall, Call
<1>2. HookInv /\ CallInv /\ WorkerInv /\ StoreInv
  BY DEF HookInv, CallInv, WorkerInv, StoreInv, DeliveredWasServed, Kept, Rows, NoCall, Caller
<1>3. AnswerInv
  BY DEF AnswerInv, AcceptedIsStored, PassedThroughIsReal, NoAnswer
<1> QED
  BY <1>1, <1>2, <1>3 DEF IInv

\* Every step preserves the invariant.
LEMMA NextInv == IInv /\ [Next]_vars => IInv'
<1> SUFFICES ASSUME IInv, [Next]_vars PROVE IInv'
  OBVIOUS
<1>0. TypeOK
  BY DEF IInv
<1>1. ASSUME NEW h \in Hook, HookNext(h) PROVE IInv'
  BY <1>0, <1>1, HookTypeOK, HookSafe DEF IInv
<1>2. ASSUME NEW c \in Conn, ConnNext(c) PROVE IInv'
  BY <1>0, <1>2, ConnTypeOK, ConnSafe DEF IInv
<1>3. ASSUME NEW c \in Conn, DrainNext(c) PROVE IInv'
  BY <1>0, <1>3, DrainTypeOK, DrainSafe DEF IInv
<1>4. ASSUME NEW p \in Replayer, ReplayNext(p) PROVE IInv'
  BY <1>0, <1>4, ReplayTypeOK, ReplaySafe DEF IInv
<1>5. ASSUME NEW s \in Caller, LocalAnswer(s) PROVE IInv'
  BY <1>0, <1>5, LocalTypeOK, LocalSafe DEF IInv
<1>10. ASSUME NEW s \in Caller, AnswerTooLong(s) PROVE IInv'
  BY <1>0, <1>10, TooLongTypeOK, TooLongSafe DEF IInv
<1>6. CASE SweepByAge
  <2>1. \E cutoff \in 0..clock + 1 : DeleteRows({h \in Rows : recv[h] < cutoff})
    BY <1>6 DEF SweepByAge, DeleteWebhooksOlderThan
  <2> QED
    BY <1>0, <1>6, <2>1, ServerTypeOK, DeleteSafe DEF IInv
<1>7. CASE SweepByCount
  <2>1. PICK max \in {0, MaxRows} :
             DeleteRows(IF max > 0 THEN Rows \ Newest(Rows, max) ELSE {})
    BY <1>7 DEF SweepByCount, DeleteWebhooksOverCount
  <2> QED
    BY <1>0, <1>7, <2>1, ServerTypeOK, DeleteSafe DEF IInv
<1>8. CASE Crash
  BY <1>0, <1>8, ServerTypeOK, CrashSafe DEF IInv
<1>9. CASE UNCHANGED vars
  <2>1. TypeOK'
    BY <1>0, <1>9 DEF TypeOK, vars, store, hub, workers, provider
  <2> QED
    BY <1>9, <2>1, UnchangedFrame DEF IInv, vars, store, hub, workers, provider
<1> QED
  BY <1>1, <1>2, <1>3, <1>4, <1>5, <1>6, <1>7, <1>8, <1>9, <1>10 DEF Next

\* The inductive invariant holds in every reachable state.
THEOREM Invariance == Spec => []IInv
BY InitInv, NextInv, PTL DEF Spec

\* Every variable keeps its type, for any number of goroutines.
THEOREM TypeCorrect == Spec => []TypeOK
<1>1. IInv => TypeOK
  BY DEF IInv
<1> QED
  BY <1>1, Invariance, PTL

\* A provider told 202 has its webhook in the table, through any crash, timeout,
\* lost tunnel or failed statement (handleHook, respondDuplicate).
THEOREM Durability == Spec => []AcceptedIsStored
<1>1. IInv => AcceptedIsStored
  BY DEF IInv, AnswerInv
<1> QED
  BY <1>1, Invariance, PTL

\* Every webhook is stored before it is sent over a tunnel (handleHook saves first;
\* drain and replay send what they read from the table).
THEOREM WriteAhead == Spec => []StoredBeforeDelivery
<1>1. IInv => StoredBeforeDelivery
  BY DEF IInv, CallInv, StoreInv, StoredBeforeDelivery
<1> QED
  BY <1>1, Invariance, PTL

\* A delivered row holds an answer of the local app to that webhook, whichever of
\* the three MarkDelivered callers wrote it last.
THEOREM NoFalseDelivery == Spec => []DeliveredWasServed
<1>1. IInv => DeliveredWasServed
  BY DEF IInv, StoreInv
<1> QED
  BY <1>1, Invariance, PTL

\* A provider sees only statuses that the local app returned for its webhook.
THEOREM PassThrough == Spec => []PassedThroughIsReal
<1>1. IInv => PassedThroughIsReal
  BY DEF IInv, AnswerInv
<1> QED
  BY <1>1, Invariance, PTL

\* Under -dedup no second request with the same key reaches the local app, unless
\* retention has forgotten the first.
THEOREM DedupServesOne == Spec => []OneWebhookPerKeyServed
<1>1. IInv => OneWebhookPerKeyServed
  <2> SUFFICES ASSUME IInv, Dedup, NEW x \in served, NEW y \in served,
                      KeyOf[x[1]] = KeyOf[y[1]], x[1] \notin purged, y[1] \notin purged
               PROVE  x[1] = y[1]
    BY DEF OneWebhookPerKeyServed
  <2>1. x[1] \in Rows /\ y[1] \in Rows
    BY DEF IInv, StoreInv, TypeOK, Kept, Rows
  <2> QED
    BY <2>1 DEF IInv, StoreInv
<1> QED
  BY <1>1, Invariance, PTL

\* A drain worker holds no webhook it has already delivered.
THEOREM NoResend == Spec => []WorkerNeverResends
<1>1. IInv => WorkerNeverResends
  BY DEF IInv, WorkerInv, WorkerNeverResends, TypeOK
<1> QED
  BY <1>1, Invariance, PTL

\* What a step does to the table: it inserts a row that was never there, marks one
\* delivered, deletes some for good, or leaves all of them alone.
LEMMA RowStep ==
  ASSUME IInv, [Next]_vars
  PROVE  /\ purged \subseteq purged'
         /\ \A h \in Hook : row[h] \in Status => row'[h] # Pending
<1> USE DEF store, hub, workers, provider
<1>0. TypeOK /\ Hook \subseteq Caller /\ Conn \subseteq Caller /\ Replayer \subseteq Caller
  BY DEF IInv, Caller
<1>1. CASE UNCHANGED <<row, purged>>
  BY <1>0, <1>1 DEF TypeOK
<1>2. ASSUME NEW s \in Caller, call[s].phase = "mark", UNCHANGED <<purged, served>>,
             MarkDelivered(call[s].hook, call[s].resp)
      PROVE  purged \subseteq purged' /\ \A h \in Hook : row[h] \in Status => row'[h] # Pending
  BY <1>2, MarkSafe
<1>3. ASSUME NEW h \in Hook, HookNext(h)
      PROVE  purged \subseteq purged' /\ \A g \in Hook : row[g] \in Status => row'[g] # Pending
  <2>1. CASE HookSave(h)
    <3>1. row[h] = Absent /\ (UNCHANGED row \/ SaveWebhook(h)) /\ UNCHANGED purged
      BY <2>1 DEF HookSave, IInv, HookInv, Kept
    <3> QED
      BY <1>0, <3>1 DEF SaveWebhook, TypeOK
  <2>2. CASE HookMark(h)
    <3>1. call[h].hook = h
      BY <2>2 DEF HookMark, IInv, HookInv
    <3> QED
      BY <1>0, <1>1, <1>2, <2>2, <3>1 DEF HookMark
  <2>3. CASE ~HookSave(h) /\ ~HookMark(h)
    BY <1>1, <1>3, <2>3 DEF HookNext, HookReject, HookReceive, RespondDuplicate, HookConnected,
                            HookForward, HookSendFails, HookSendReturns
  <2> QED
    BY <2>1, <2>2, <2>3
<1>4. ASSUME NEW c \in Conn, ConnNext(c) \/ DrainNext(c)
      PROVE  purged \subseteq purged' /\ \A h \in Hook : row[h] \in Status => row'[h] # Pending
  <2>1. CASE DrainMark(c)
    BY <1>0, <1>1, <1>2, <2>1 DEF DrainMark
  <2>2. CASE ~DrainMark(c)
    BY <1>1, <1>4, <2>2 DEF ConnNext, Register, CloseOld, ConnLost, Unregister, DrainNext,
         DrainOnConnect, DrainSend, DrainSendFails, DrainSendReturns, DrainDone, DrainStop, DrainTick
  <2> QED
    BY <2>1, <2>2
<1>5. ASSUME NEW p \in Replayer, ReplayNext(p)
      PROVE  purged \subseteq purged' /\ \A h \in Hook : row[h] \in Status => row'[h] # Pending
  <2>1. CASE ReplayMark(p)
    BY <1>0, <1>1, <1>2, <2>1 DEF ReplayMark
  <2>2. CASE ~ReplayMark(p)
    BY <1>1, <1>5, <2>2 DEF ReplayNext, ReplayGet, ReplayForward, ReplaySendFails, ReplaySendReturns
  <2> QED
    BY <2>1, <2>2
<1>6. CASE \E s \in Caller : LocalAnswer(s) \/ AnswerTooLong(s)
  BY <1>1, <1>6 DEF LocalAnswer, AnswerTooLong
<1>7. CASE SweepByAge \/ SweepByCount
  BY <1>0, <1>7 DEF SweepByAge, SweepByCount, DeleteWebhooksOlderThan,
                    DeleteWebhooksOverCount, DeleteRows, TypeOK
<1>8. CASE Crash
  BY <1>1, <1>8 DEF Crash
<1>9. CASE UNCHANGED vars
  BY <1>1, <1>9 DEF vars
<1> QED
  BY <1>3, <1>4, <1>5, <1>6, <1>7, <1>8, <1>9 DEF Next

\* Delivered is final, and so is deleted.
THEOREM Monotone == Spec => RowsOnlyAdvance
<1>1. IInv /\ [Next]_vars =>
        [\A h \in Hook : /\ row[h] \in Status => row'[h] # Pending
                         /\ h \in purged => row'[h] = Absent]_vars
  BY NextInv, RowStep DEF IInv, HookInv
<1> QED
  BY <1>1, Invariance, PTL DEF Spec, RowsOnlyAdvance

=============================================================================
