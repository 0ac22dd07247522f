------------------------------- MODULE Relay -------------------------------
(***************************************************************************)
(* The delivery engine of holloway-server for one webhook token: the       *)
(* ingress handler (handleHook), the per-tunnel drain worker (drainLoop),  *)
(* the dashboard replay (ReplayWebhook) and the retention sweep, all       *)
(* working on the SQLite table and on the tunnel registered in the hub.    *)
(* Every goroutine is a process; every database statement and every lock   *)
(* region is one atomic step, and steps of different goroutines interleave.*)
(*                                                                         *)
(* A tunnel Send is a remote call here: "sent" (registered and written),   *)
(* "handled" (the answer is in its channel), then returned.  How WSClient  *)
(* implements that call over a websocket is the subject of WSClient.tla.   *)
(* The hub is reduced to the entry of this token; Hub.tla has all of it.   *)
(***************************************************************************)
EXTENDS Integers, FiniteSets

CONSTANTS
  Hook,        \* webhook requests; a request is also the ID of its row
  Conn,        \* slots for tunnel connections, each with its drain worker
  Replayer,    \* dashboard replay requests in progress
  None,        \* no client, or no webhook
  Status,      \* non-zero (status, body) answers of the local app
  Key,         \* dedup keys: method, path and body of a request
  KeyOf,       \* the key of each request
  Dedup,       \* the -dedup flag
  Poison,      \* requests the client refuses to forward (safeForwardPath)
  Oversized,   \* requests whose answer is beyond the server's read limit
  ReplayLimit, \* the ?replay=N of a connecting client
  MaxAge,      \* is the -retention-max-age flag set?
  MaxRows,     \* the -retention-max-rows flag; 0 disables
  MaxFaults    \* bound: lost connections, timeouts, failed statements, ...

Caller == Hook \cup Conn \cup Replayer

ASSUME RelayAssumption ==
  /\ Hook \cap Conn = {} /\ Hook \cap Replayer = {} /\ Conn \cap Replayer = {}
  /\ None \notin Conn \cup Hook
  /\ Status \subseteq Nat \ {0}
  /\ KeyOf \in [Hook -> Key]
  /\ Dedup \in BOOLEAN /\ MaxAge \in BOOLEAN
  /\ Poison \subseteq Hook /\ Oversized \subseteq Hook
  /\ ReplayLimit \in Nat /\ MaxRows \in Nat /\ MaxFaults \in Nat

Absent  == -1   \* no row with this ID
Pending == 0    \* status_code = 0

VARIABLES
  row,      \* the webhooks table: status_code of each row, or Absent
  recv,     \* received_at of each request (0: not received yet)
  clock,    \* the last received_at handed out
  hook,     \* program counter of each handleHook
  answer,   \* what the provider was told
  client,   \* hub.clients[token]
  conn,     \* each connection: "none", "open" or "closed"
  old,      \* the client each Register took the entry from, until it is closed
  drain,    \* program counter of each drainLoop
  queue,    \* the webhooks deliverStored has still to send
  sent,     \* the webhooks this worker has delivered
  call,     \* the Send each goroutine is in
  sweep,    \* program counter of the retention sweep
  faults,   \* adverse events so far
  served,   \* history: answers of the local app, received or not
  purged    \* history: rows the retention sweep deleted

store    == <<row, recv, clock, sweep, purged>>
hub      == <<client, conn, old>>
workers  == <<drain, queue, sent>>
provider == <<hook, answer>>
vars == <<store, hub, workers, provider, call, faults, served>>

HookPC  == {"idle", "received", "duplicate", "saved", "connected", "forward", "done"}
DrainPC == {"off", "register", "start", "connect", "replay", "ticker", "tick"}
Answer  == [kind: {"none", "rejected", "accepted", "error", "local", "repeat", "lost"},
            code: {0} \cup Status]
NoCall  == [phase |-> "none", conn |-> None, hook |-> None, resp |-> 0]
Call    == {NoCall} \cup [phase: {"found", "sent", "handled", "mark"},
                         conn: Conn \cup {None}, hook: Hook, resp: {0} \cup Status]

NoAnswer == [kind |-> "none", code |-> 0]

Init ==
  /\ row = [h \in Hook |-> Absent]
  /\ recv = [h \in Hook |-> 0]
  /\ clock = 0
  /\ hook = [h \in Hook |-> "idle"]
  /\ answer = [h \in Hook |-> NoAnswer]
  /\ client = None
  /\ conn = [c \in Conn |-> "none"]
  /\ old = [c \in Conn |-> None]
  /\ drain = [c \in Conn |-> "off"]
  /\ queue = [c \in Conn |-> {}]
  /\ sent = [c \in Conn |-> {}]
  /\ call = [s \in Caller |-> NoCall]
  /\ sweep = "age"
  /\ faults = 0
  /\ served = {}
  /\ purged = {}

\* Something goes wrong: a connection is lost, a timeout expires, a statement
\* fails, the local app is down, a second client takes the token over, the
\* process dies.
Fault == faults < MaxFaults /\ faults' = faults + 1

----------------------------------------------------------------------------
(* The statements of the store. *)

Rows == {h \in Hook : row[h] # Absent}

\* PendingWebhooks: the undelivered rows (the worker takes them oldest first).
PendingWebhooks == {h \in Hook : row[h] = Pending}

\* The n most recently received of the rows in S.
Newest(S, n) == {h \in S : Cardinality({g \in S : recv[g] > recv[h]}) < n}

\* Mutant: the delivered rows are not skipped.
LastWebhooksKept(limit, excluded) == Newest(Rows, limit)

\* Mutant: only limit rows are fetched before the delivered ones are skipped.
LastWebhooksShort(limit, excluded) == Newest(Rows, limit) \ excluded

\* LastWebhooksForTokenExcluding.
LastWebhooksExcluding(limit, excluded) ==
  Newest(Newest(Rows, limit + Cardinality(excluded)) \ excluded, limit)

\* Mutant: the index covers only the rows still pending.
IsPendingDuplicate(h) == Dedup /\ \E g \in PendingWebhooks : KeyOf[g] = KeyOf[h]

\* The partial unique index on (token_id, dedup_key) rejects the insert.
IsDuplicate(h) == Dedup /\ \E g \in Rows : KeyOf[g] = KeyOf[h]

\* Mutant: the insert is lost.
SaveNothing(h) == UNCHANGED row

SaveWebhook(h) == row' = [row EXCEPT ![h] = Pending]

\* Mutants: the row is written back if it is gone, the WHERE clause is missing,
\* the status class is stored.
MarkUpsert(h, st)  == row' = [row EXCEPT ![h] = st]
MarkPending(h, st) == row' = [g \in Hook |-> IF row[g] = Pending THEN st ELSE row[g]]
MarkClass(h, st)   == row' = [row EXCEPT ![h] = st \div 100]

\* UPDATE ... WHERE id = h: no row, no update, and no error either.
MarkDelivered(h, st) == row' = [row EXCEPT ![h] = IF @ = Absent THEN Absent ELSE st]

\* sweepRetention: by age, then by count, one statement each, and both take
\* pending rows like any other.  A cutoff or a max of 0 stands for a statement
\* that is disabled or fails.
DeleteRows(S) ==
  /\ row' = [h \in Hook |-> IF h \in S THEN Absent ELSE row[h]]
  /\ purged' = purged \cup S
  /\ UNCHANGED <<recv, clock, hub, workers, provider, call, faults, served>>

DeleteWebhooksOlderThan(cutoff) == DeleteRows({h \in Rows : recv[h] < cutoff})

DeleteWebhooksOverCount(max) ==
  DeleteRows(IF max > 0 THEN Rows \ Newest(Rows, max) ELSE {})

SweepByAge ==
  /\ MaxAge \/ MaxRows > 0
  /\ sweep = "age" /\ sweep' = "count"
  /\ \E cutoff \in 0..clock + 1 :
       (cutoff = 0 \/ MaxAge) /\ DeleteWebhooksOlderThan(cutoff)

SweepByCount ==
  /\ sweep = "count" /\ sweep' = "age"
  /\ \E max \in {0, MaxRows} : DeleteWebhooksOverCount(max)

----------------------------------------------------------------------------
(* Send on a tunnel, as its callers see it. *)

SetCall(s, phase, c, h, resp) ==
  call' = [call EXCEPT ![s] = [phase |-> phase, conn |-> c, hook |-> h, resp |-> resp]]

SendOn(s, c, h) == SetCall(s, "sent", c, h, 0)

Finish(s) == call' = [call EXCEPT ![s] = NoCall]

\* The client forwards the request to the local app and its answer reaches the
\* channel of the Send: a real answer, or status 0 when the app could not be
\* reached or the client refused the request.  The read loop may deliver an answer
\* it already holds after the connection has closed.  An app that answers a Send which
\* fails, or has failed, takes this step before it does: nothing but the history
\* depends on when it answers.
LocalAnswer(s) ==
  /\ call[s].phase = "sent"
  /\ \/ /\ call[s].hook \notin Poison \cup Oversized
        /\ \E st \in Status :
             /\ SetCall(s, "handled", call[s].conn, call[s].hook, st)
             /\ served' = served \cup {<<call[s].hook, st>>}
        /\ UNCHANGED faults
     \/ /\ IF call[s].hook \in Poison THEN UNCHANGED faults ELSE Fault
        /\ SetCall(s, "handled", call[s].conn, call[s].hook, 0)
        /\ UNCHANGED served
  /\ UNCHANGED <<store, hub, workers, provider>>

\* The local app has handled the request, but its answer, up to 1 MiB and longer
\* once it is JSON, exceeds maxTunnelResponseMessage: the read loop ends and closes
\* the connection, every time.
AnswerTooLong(s) ==
  /\ call[s].phase = "sent" /\ call[s].hook \in Oversized \ Poison
  /\ conn[call[s].conn] = "open"
  /\ conn' = [conn EXCEPT ![call[s].conn] = "closed"]
  /\ \E st \in Status : served' = served \cup {<<call[s].hook, st>>}
  /\ UNCHANGED <<store, client, old, workers, provider, call, faults>>

\* Mutant: Send does not notice that its connection has closed.
SendOnlyTimesOut(s) ==
  /\ call[s].phase \in {"sent", "handled"} /\ conn[call[s].conn] = "open"
  /\ Fault
  /\ conn' = [conn EXCEPT ![call[s].conn] = "closed"]
  /\ Finish(s)

\* Send returns an error: the connection closed under it, or its 30 second
\* context expired, and then Send closes the connection itself.
SendFails(s) ==
  /\ call[s].phase \in {"sent", "handled"}
  /\ \/ conn[call[s].conn] # "open" /\ UNCHANGED <<conn, faults>>
     \/ /\ conn[call[s].conn] = "open"
        /\ Fault
        /\ conn' = [conn EXCEPT ![call[s].conn] = "closed"]
  /\ Finish(s)

\* A Send started now gets through to the registered client.
Reachable == client # None /\ conn[client] = "open"

\* Send returns a response; a non-zero status goes on to MarkDelivered.
Answered(s)  == call[s].phase = "handled" /\ call[s].resp # 0
Unreached(s)  == call[s].phase = "handled" /\ call[s].resp = 0
ToMark(s)    == SetCall(s, "mark", call[s].conn, call[s].hook, call[s].resp)

----------------------------------------------------------------------------
(* handleHook. *)

Reply(h, kind, code) ==
  /\ answer' = [answer EXCEPT ![h] = [kind |-> kind, code |-> code]]
  /\ hook' = [hook EXCEPT ![h] = "done"]

AcceptPending(h) == Reply(h, "accepted", 0)

HookStep(h, from, to) ==
  /\ hook[h] = from
  /\ hook' = [hook EXCEPT ![h] = to]
  /\ UNCHANGED answer

\* Unknown token, rate limit or unreadable body; or the token cannot be looked
\* up, or no ID generated.
HookReject(h) ==
  /\ hook[h] = "idle"
  /\ \/ Reply(h, "rejected", 0) /\ UNCHANGED faults
     \/ Fault /\ Reply(h, "error", 0)
  /\ UNCHANGED <<store, hub, workers, call, served>>

HookReceive(h) ==
  /\ HookStep(h, "idle", "received")
  /\ clock' = clock + 1
  /\ recv' = [recv EXCEPT ![h] = clock']
  /\ UNCHANGED <<row, sweep, purged, hub, workers, call, faults, served>>

\* Mutant: a failed insert is accepted all the same.
SaveFailedAccepted(h) == AcceptPending(h)

SaveFailed(h) == Reply(h, "error", 0)

HookSave(h) ==
  /\ hook[h] = "received"
  /\ \/ /\ IsDuplicate(h)
        /\ HookStep(h, "received", "duplicate")
        /\ UNCHANGED <<row, faults>>
     \/ /\ ~IsDuplicate(h)
        /\ SaveWebhook(h)
        /\ HookStep(h, "received", "saved")
        /\ UNCHANGED faults
     \/ /\ Fault
        /\ SaveFailed(h)
        /\ UNCHANGED row
  /\ UNCHANGED <<recv, clock, sweep, purged, hub, workers, call, served>>

\* Mutant: a duplicate of a delivered webhook is always told 200.
RepeatOK(h, g) == Reply(h, "repeat", 200)

RepeatAnswer(h, g) == Reply(h, "repeat", row[g])

\* The rows with the key of h; the unique index leaves one at most.
WebhookByDedupKey(h) == {g \in Rows : KeyOf[g] = KeyOf[h]}

\* The lookup runs after the insert failed: by then the original may have been
\* delivered, or swept away.
RespondDuplicate(h) ==
  /\ hook[h] = "duplicate"
  /\ \/ /\ \A g \in Rows : KeyOf[g] = KeyOf[h] => row[g] = Pending
        /\ AcceptPending(h)
        /\ UNCHANGED faults
     \/ /\ \E g \in WebhookByDedupKey(h) : row[g] # Pending /\ RepeatAnswer(h, g)
        /\ UNCHANGED faults
     \/ Fault /\ AcceptPending(h)
  /\ UNCHANGED <<store, hub, workers, call, served>>

HookConnected(h) ==
  /\ hook[h] = "saved"
  /\ IF client = None THEN AcceptPending(h) ELSE HookStep(h, "saved", "connected")
  /\ UNCHANGED <<store, hub, workers, call, faults, served>>

\* hub.Forward looks the client up again; it may be gone or closed by now.
HookForward(h) ==
  /\ hook[h] = "connected"
  /\ IF Reachable
     THEN SendOn(h, client, h) /\ HookStep(h, "connected", "forward")
     ELSE AcceptPending(h) /\ UNCHANGED call
  /\ UNCHANGED <<store, hub, workers, faults, served>>

HookSendFails(h) ==
  /\ SendFails(h)
  /\ AcceptPending(h)
  /\ UNCHANGED <<store, client, old, workers, served>>

HookSendReturns(h) ==
  /\ \/ Unreached(h) /\ Finish(h) /\ AcceptPending(h)
     \/ Answered(h) /\ ToMark(h) /\ UNCHANGED provider
  /\ UNCHANGED <<store, hub, workers, faults, served>>

HookMark(h) ==
  /\ call[h].phase = "mark"
  /\ \/ /\ MarkDelivered(h, call[h].resp)
        /\ Reply(h, "local", call[h].resp)
        /\ UNCHANGED faults
     \/ Fault /\ Reply(h, "error", 0) /\ UNCHANGED row
  /\ Finish(h)
  /\ UNCHANGED <<recv, clock, sweep, purged, hub, workers, served>>

----------------------------------------------------------------------------
(* handleTunnel: register, wait for the connection to end, unregister. *)

\* A client connects: the hub entry is swapped under the lock, and the client
\* that held it is closed after the unlock, before the drain worker starts.  Taking
\* the entry over counts as a fault: two clients with one token evict each other.
Register(c) ==
  /\ conn[c] = "none" /\ drain[c] = "off"
  /\ \A s \in Caller : call[s].conn # c
  /\ \A d \in Conn : old[d] # c
  /\ IF client = None THEN UNCHANGED faults ELSE Fault
  /\ client' = c
  /\ old' = [old EXCEPT ![c] = client]
  /\ conn' = [conn EXCEPT ![c] = "open"]
  /\ drain' = [drain EXCEPT ![c] = "register"]
  /\ UNCHANGED <<store, queue, sent, provider, call, served>>

CloseOld(c) ==
  /\ drain[c] = "register"
  /\ conn' = [d \in Conn |-> IF d = old[c] /\ conn[d] = "open" THEN "closed" ELSE conn[d]]
  /\ old' = [old EXCEPT ![c] = None]
  /\ drain' = [drain EXCEPT ![c] = "start"]
  /\ UNCHANGED <<store, client, queue, sent, provider, call, faults, served>>

\* The peer or the network ends the connection: the read loop closes it.
ConnLost(c) ==
  /\ conn[c] = "open"
  /\ Fault
  /\ conn' = [conn EXCEPT ![c] = "closed"]
  /\ UNCHANGED <<store, client, old, workers, provider, call, served>>

\* The deferred unregister: only the entry's own connection removes it.
Unregister(c) ==
  /\ conn[c] = "closed" /\ drain[c] # "register"
  /\ conn' = [conn EXCEPT ![c] = "none"]
  /\ client' = IF client = c THEN None ELSE client
  /\ UNCHANGED <<store, old, workers, provider, call, faults, served>>

----------------------------------------------------------------------------
(* drainLoop: drainOnConnect, then deliverStored on every tick. *)

DrainStep(c, pc, q) ==
  /\ drain' = [drain EXCEPT ![c] = pc]
  /\ queue' = [queue EXCEPT ![c] = q]

\* A failed query delivers nothing.
DrainOnConnect(c) ==
  /\ drain[c] = "start"
  /\ \/ DrainStep(c, "connect", PendingWebhooks) /\ UNCHANGED faults
     \/ Fault /\ DrainStep(c, "connect", {})
  /\ sent' = [sent EXCEPT ![c] = {}]
  /\ UNCHANGED <<store, hub, provider, call, served>>

\* deliverStored iterates over the snapshot it was given, pending rows oldest
\* first and replays newest first, and looks at no row again before sending it.
InOrder(c, h) == \A g \in queue[c] : IF drain[c] = "replay" THEN recv[g] <= recv[h]
                                                            ELSE recv[h] <= recv[g]

\* The first failure, or status 0, ends this deliverStored.
GiveUp(c) == queue' = [queue EXCEPT ![c] = {}]

DrainSend(c) ==
  /\ call[c].phase = "none"
  /\ \E h \in queue[c] :
       /\ InOrder(c, h)
       /\ IF conn[c] = "open"
          THEN SendOn(c, c, h) /\ UNCHANGED queue
          ELSE GiveUp(c) /\ UNCHANGED call
  /\ UNCHANGED <<store, hub, drain, sent, provider, faults, served>>

DrainSendFails(c) ==
  /\ SendFails(c)
  /\ GiveUp(c)
  /\ UNCHANGED <<store, client, old, drain, sent, provider, served>>

DrainSendReturns(c) ==
  /\ \/ Unreached(c) /\ Finish(c) /\ GiveUp(c)
     \/ Answered(c) /\ ToMark(c) /\ UNCHANGED queue
  /\ UNCHANGED <<store, hub, drain, sent, provider, faults, served>>

DrainMark(c) ==
  /\ call[c].phase = "mark"
  /\ queue' = [queue EXCEPT ![c] = @ \ {call[c].hook}]
  /\ \/ /\ MarkDelivered(call[c].hook, call[c].resp)
        /\ sent' = [sent EXCEPT ![c] = @ \cup {call[c].hook}]
        /\ UNCHANGED faults
     \/ Fault /\ UNCHANGED <<row, sent>>
  /\ Finish(c)
  /\ UNCHANGED <<recv, clock, sweep, purged, hub, drain, provider, served>>

\* deliverStored has returned.
DrainDone(c) ==
  /\ call[c].phase = "none" /\ queue[c] = {}
  /\ \/ /\ drain[c] = "connect" /\ ReplayLimit > 0
        /\ \/ /\ DrainStep(c, "replay", LastWebhooksExcluding(ReplayLimit, sent[c]))
              /\ UNCHANGED faults
           \/ Fault /\ DrainStep(c, "ticker", {})
     \/ /\ drain[c] \in {"replay", "tick"} \/ (drain[c] = "connect" /\ ReplayLimit = 0)
        /\ DrainStep(c, "ticker", {})
        /\ UNCHANGED faults
  /\ UNCHANGED <<store, hub, sent, provider, call, served>>

\* Mutant: the comparison is the wrong way round.
PendingYoungerThan(cutoff) == {h \in PendingWebhooks : recv[h] >= cutoff}

\* The pending rows received before the cutoff, a point one minute back in the
\* order of arrival.
PendingOlderThan(cutoff) == {h \in PendingWebhooks : recv[h] < cutoff}

\* A tick that finds nothing to send, or comes when the connection has closed and
\* Send fails at once, changes nothing.
DrainTick(c, cutoff) ==
  /\ drain[c] = "ticker" /\ conn[c] = "open"
  /\ PendingOlderThan(cutoff) # {}
  /\ DrainStep(c, "tick", PendingOlderThan(cutoff))
  /\ UNCHANGED <<store, hub, sent, provider, call, faults, served>>

\* The drain context is cancelled once the connection has closed.
DrainStop(c) ==
  /\ drain[c] = "ticker" /\ conn[c] # "open"
  /\ DrainStep(c, "off", {})
  /\ UNCHANGED <<store, hub, sent, provider, call, faults, served>>

----------------------------------------------------------------------------
(* ReplayWebhook, from the dashboard. *)

ReplayGet(p, h) ==
  /\ call[p].phase = "none"
  /\ h \in Rows
  /\ SetCall(p, "found", None, h, 0)
  /\ UNCHANGED <<store, hub, workers, provider, faults, served>>

ReplayForward(p) ==
  /\ call[p].phase = "found"
  /\ IF Reachable THEN SendOn(p, client, call[p].hook) ELSE Finish(p)
  /\ UNCHANGED <<store, hub, workers, provider, faults, served>>

ReplaySendFails(p) ==
  /\ SendFails(p)
  /\ UNCHANGED <<store, client, old, workers, provider, served>>

ReplaySendReturns(p) ==
  /\ \/ Unreached(p) /\ Finish(p)
     \/ Answered(p) /\ ToMark(p)
  /\ UNCHANGED <<store, hub, workers, provider, faults, served>>

ReplayMark(p) ==
  /\ call[p].phase = "mark"
  /\ \/ MarkDelivered(call[p].hook, call[p].resp) /\ UNCHANGED faults
     \/ Fault /\ UNCHANGED row
  /\ Finish(p)
  /\ UNCHANGED <<recv, clock, sweep, purged, hub, workers, provider, served>>

----------------------------------------------------------------------------
\* The process dies: the table survives, everything else is lost, and every
\* request in progress ends without an answer.
Crash ==
  /\ Fault
  /\ hook' = [h \in Hook |-> IF hook[h] = "idle" THEN "idle" ELSE "done"]
  /\ answer' = [h \in Hook |-> IF hook[h] \in {"idle", "done"} THEN answer[h]
                               ELSE [kind |-> "lost", code |-> 0]]
  /\ client' = None
  /\ conn' = [c \in Conn |-> "none"]
  /\ old' = [c \in Conn |-> None]
  /\ drain' = [c \in Conn |-> "off"]
  /\ queue' = [c \in Conn |-> {}]
  /\ sent' = [c \in Conn |-> {}]
  /\ call' = [s \in Caller |-> NoCall]
  /\ sweep' = "age"
  /\ UNCHANGED <<row, recv, clock, purged, served>>

HookNext(h) ==
  \/ HookReject(h) \/ HookReceive(h) \/ HookSave(h) \/ RespondDuplicate(h)
  \/ HookConnected(h) \/ HookForward(h) \/ HookSendFails(h)
  \/ HookSendReturns(h) \/ HookMark(h)

ConnNext(c) ==
  \/ Register(c) \/ CloseOld(c) \/ ConnLost(c) \/ Unregister(c)

DrainNext(c) ==
  \/ DrainOnConnect(c) \/ DrainSend(c) \/ DrainSendFails(c)
  \/ DrainSendReturns(c) \/ DrainMark(c) \/ DrainDone(c) \/ DrainStop(c)
  \/ \E cutoff \in 1..clock + 1 : DrainTick(c, cutoff)

ReplayNext(p) ==
  \/ \E h \in Hook : ReplayGet(p, h)
  \/ ReplayForward(p) \/ ReplaySendFails(p) \/ ReplaySendReturns(p) \/ ReplayMark(p)

Next ==
  \/ \E h \in Hook : HookNext(h)
  \/ \E c \in Conn : ConnNext(c) \/ DrainNext(c)
  \/ \E p \in Replayer : ReplayNext(p)
  \/ \E s \in Caller : LocalAnswer(s) \/ AnswerTooLong(s)
  \/ SweepByAge
  \/ SweepByCount
  \/ Crash

Spec == Init /\ [][Next]_vars

----------------------------------------------------------------------------
(* Fairness.  The scheduler runs every goroutine that can run, a Send ends *)
(* after 30 seconds at the latest, the client reconnects for ever          *)
(* (connectLoop), its local app answers, and a pending row does become a   *)
(* minute old, so ticks that see every pending row keep coming.  Nothing   *)
(* forces a request, a replay, a second client or a fault to happen, and   *)
(* faults are finitely many.                                               *)

HookProgress(h) ==
  \/ HookSave(h) \/ RespondDuplicate(h) \/ HookConnected(h) \/ HookForward(h)
  \/ HookSendFails(h) \/ HookSendReturns(h) \/ HookMark(h)

DrainProgress(c) ==
  \/ DrainOnConnect(c) \/ DrainSend(c) \/ DrainSendFails(c)
  \/ DrainSendReturns(c) \/ DrainMark(c) \/ DrainDone(c) \/ DrainStop(c)

ReplayProgress(p) ==
  ReplayForward(p) \/ ReplaySendFails(p) \/ ReplaySendReturns(p) \/ ReplayMark(p)

\* The client answers in time, over a connection that is up.
AnswerInTime(s) ==
  \/ call[s].phase = "sent" /\ conn[call[s].conn] = "open" /\ LocalAnswer(s)
  \/ AnswerTooLong(s)

Fairness ==
  /\ \A h \in Hook : WF_vars(HookProgress(h))
  /\ \A c \in Conn : /\ WF_vars(DrainProgress(c))
                     /\ SF_vars(DrainTick(c, clock + 1))
                     /\ WF_vars(CloseOld(c))
                     /\ WF_vars(Unregister(c))
  /\ \A p \in Replayer : WF_vars(ReplayProgress(p))
  /\ \A s \in Caller : WF_vars(AnswerInTime(s))
  /\ WF_vars(\E c \in Conn : client = None /\ Register(c))

FairSpec == Spec /\ Fairness

----------------------------------------------------------------------------
(* Properties. *)

\* Every variable has its type.
TypeOK ==
  /\ row \in [Hook -> {Absent, Pending} \cup Status]
  /\ recv \in [Hook -> Nat] /\ clock \in Nat
  /\ hook \in [Hook -> HookPC] /\ answer \in [Hook -> Answer]
  /\ client \in Conn \cup {None}
  /\ conn \in [Conn -> {"none", "open", "closed"}]
  /\ old \in [Conn -> Conn \cup {None}]
  /\ drain \in [Conn -> DrainPC]
  /\ queue \in [Conn -> SUBSET Hook] /\ sent \in [Conn -> SUBSET Hook]
  /\ call \in [Caller -> Call]
  /\ sweep \in {"age", "count"}
  /\ faults \in 0..MaxFaults
  /\ served \subseteq Hook \X Status
  /\ purged \subseteq Hook

\* The webhook is in the table, or was until retention took it.
Kept(h) == row[h] # Absent \/ h \in purged

\* A provider that was told 202 accepted has its webhook in the table (or, under
\* -dedup, the original it repeats), whatever crashed, timed out or failed since, until
\* retention takes it, which may be before the provider is told.
AcceptedIsStored ==
  \A h \in Hook : answer[h].kind = "accepted" =>
    \E g \in Hook : Kept(g) /\ (g = h \/ (Dedup /\ KeyOf[g] = KeyOf[h]))

\* Every webhook is in the table before it is sent over a tunnel, so the local app
\* sees nothing that a crash in the middle of the delivery could lose.
StoredBeforeDelivery ==
  /\ \A s \in Caller : call[s].phase # "none" => Kept(call[s].hook)
  /\ \A x \in served : Kept(x[1])

\* A row marked delivered holds an answer the local app gave to that very webhook.
DeliveredWasServed ==
  \A h \in Hook : row[h] \in Status => <<h, row[h]>> \in served

\* A status passed through to a provider is one the local app gave to its webhook
\* (for a duplicate: to the original).
PassedThroughIsReal ==
  \A h \in Hook :
    /\ answer[h].kind = "local" => <<h, answer[h].code>> \in served
    /\ answer[h].kind = "repeat" =>
         \E g \in Hook : KeyOf[g] = KeyOf[h] /\ <<g, answer[h].code>> \in served

\* Under -dedup the local app is given two of the requests with the same method, path
\* and body only if retention has deleted the row of one of them, and with it the key:
\* the rows that are left have all been given to it under keys of their own.
OneWebhookPerKeyServed ==
  Dedup => \A x, y \in served :
    KeyOf[x[1]] = KeyOf[y[1]] /\ x[1] # y[1] => x[1] \in purged \/ y[1] \in purged

\* A drain worker never holds a webhook it has already delivered: --replay skips
\* what the drain on connect has sent, and a tick only takes what is pending.
WorkerNeverResends == \A c \in Conn : queue[c] \cap sent[c] = {}

\* Fetching limit + |excluded| rows and filtering afterwards yields the newest
\* limit rows among those not excluded.
ReplayPicksNewest ==
  \A c \in Conn :
    LastWebhooksExcluding(ReplayLimit, sent[c]) = Newest(Rows \ sent[c], ReplayLimit)

\* A delivered webhook never becomes pending again, and one that retention
\* deleted never comes back, however late MarkDelivered runs.
RowsOnlyAdvance ==
  [][\A h \in Hook : /\ row[h] \in Status => row'[h] # Pending
                     /\ h \in purged => row'[h] = Absent]_vars

\* Every request is answered: no handler waits for ever on a tunnel.
EveryRequestAnswered == \A h \in Hook : (hook[h] = "received") ~> (hook[h] = "done")

\* Once faults stop, every pending webhook that the client can forward leaves the
\* queue.
PendingDrains ==
  \A h \in Hook \ Poison : (row[h] = Pending) ~> (row[h] # Pending)

\* A request the client can never deliver, because it refuses the path or because
\* the answer is too long and costs the tunnel each time, holds up no request that
\* came before it.
UndeliverableBlocksOnlyLater ==
  \A h \in Hook \ (Poison \cup Oversized) :
    (row[h] = Pending) ~>
      \/ row[h] # Pending
      \/ \E g \in Poison \cup Oversized : row[g] = Pending /\ recv[g] < recv[h]

\* What the relay's state is as a WebhookQueue.  A request that a crash cut off has
\* been told nothing.
Item == [h \in Hook |-> IF row[h] = Absent /\ h \in purged THEN -2 ELSE row[h]]
Told == [h \in Hook |-> IF answer[h].kind \in {"none", "lost"} THEN -1
                        ELSE IF answer[h].kind \in {"rejected", "error"} THEN -2
                        ELSE answer[h].code]
Twin == [h \in Hook |-> IF Dedup THEN {g \in Hook : KeyOf[g] = KeyOf[h]} ELSE {h}]

Queue == INSTANCE WebhookQueue WITH item <- Item, handed <- served, told <- Told

\* The relay is a durable at-least-once queue: every step is one of WebhookQueue's, or
\* none.
ImplementsQueue == Queue!Spec

\* What the local app has answered to a webhook.
LocalStatus(h) == {st \in Status : <<h, st>> \in served}

\* The repository's README: a 5xx only reaches the provider when the local app is
\* reachable and returned one.  Of a webhook that the local app has answered:
ServerErrorIsLocal ==
  \A h \in Hook : answer[h].kind = "error" /\ LocalStatus(h) # {} =>
    \E st \in LocalStatus(h) : st >= 500

=============================================================================
