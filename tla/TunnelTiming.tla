---------------------------- MODULE TunnelTiming ----------------------------
(***************************************************************************)
(* The clocks of a delivery.  A live forward saves its row, waits up to    *)
(* SendTimeout for an answer and marks the row; the client handles one     *)
(* request at a time and gives the local app LocalTimeout; the worker of   *)
(* the tunnel looks every DrainInterval for pending rows older than        *)
(* DrainMinAge.  A Send that runs out of time closes the tunnel under      *)
(* everybody.  Do these four durations fit together?                       *)
(*                                                                         *)
(* Time advances in discrete units, and not while something is due: a      *)
(* deadline reached, or a step that takes no time to speak of.  Who sends  *)
(* what over which connection, and with what outcome, is in Relay.tla and  *)
(* WSClient.tla; here a tunnel that closes fails all its Sends at once, and*)
(* the worker's statements take no time.                                   *)
(*                                                                         *)
(* That a statement of a handler takes DBDelay at most is an assumption on *)
(* the load, not a bound of the code: busy_timeout limits the wait for     *)
(* SQLite's lock, but the pool has a single connection (SetMaxOpenConns)   *)
(* and Exec, called without a context, waits for it without limit.         *)
(***************************************************************************)
EXTENDS Integers, Sequences

CONSTANTS
  Hook,           \* webhook requests; a request is also the ID of its row
  Worker,         \* the drain worker of the tunnel
  None,           \* the client is not working on a request
  SendTimeout,    \* 30 s
  LocalTimeout,   \* 25 s
  DrainInterval,  \* periodicDrainInterval, 10 s
  DrainMinAge,    \* periodicDrainMinAge, 1 min
  DBDelay,        \* assumed: the longest a statement takes, 5 s
  MaxFaults       \* bound: local timeouts and lost connections

Sender == Hook \cup {Worker}

ASSUME TimingAssumption ==
  /\ Worker \notin Hook /\ None \notin Sender
  /\ SendTimeout \in Nat /\ LocalTimeout \in Nat /\ DBDelay \in Nat
  /\ DrainInterval \in Nat /\ DrainMinAge \in Nat /\ MaxFaults \in Nat
  /\ LocalTimeout < SendTimeout /\ DBDelay <= SendTimeout
  /\ DBDelay + SendTimeout + DBDelay <= DrainMinAge

VARIABLES
  row,      \* the webhooks table: "absent", "pending" or "delivered"
  age,      \* time since received_at, as far as it matters
  handler,  \* program counter of each handleHook
  timer,    \* time left for the statement or the Send each sender is in
  tunnel,   \* "open", "closed" by the server, or "down" until the client reconnects
  inbox,    \* senders whose requests the client has not read yet
  busy,     \* the sender whose request the client works on
  work,     \* the time left for it
  drain,    \* the worker: "off", in its drain on "connect", or on its "tick"s
  queue,    \* the rows it has still to send
  current,  \* the row it has sent
  ticker,   \* time to the next tick
  queued,   \* history: the senders that did not find the client idle
  faults    \* faults so far

client == <<tunnel, inbox, busy, work>>
worker == <<drain, queue, current, ticker>>
vars   == <<row, age, handler, timer, client, worker, queued, faults>>

Init ==
  /\ row = [h \in Hook |-> "absent"]
  /\ age = [h \in Hook |-> 0]
  /\ handler = [h \in Hook |-> "idle"]
  /\ timer = [s \in Sender |-> 0]
  /\ tunnel = "down"
  /\ inbox = <<>>
  /\ busy = None
  /\ work = 0
  /\ drain = "off" /\ queue = {} /\ current = None /\ ticker = 0
  /\ queued = {}
  /\ faults = 0

Fault == faults < MaxFaults /\ faults' = faults + 1

\* The rows a sender is waiting for an answer on.
Sending(s) == IF s = Worker THEN current # None ELSE handler[s] = "send"
Waiting    == {s \in Sender : Sending(s)}

----------------------------------------------------------------------------
(* handleHook. *)

HookReceive(h) ==
  /\ handler[h] = "idle"
  /\ handler' = [handler EXCEPT ![h] = "save"]
  /\ timer' = [timer EXCEPT ![h] = DBDelay]
  /\ UNCHANGED <<row, age, client, worker, queued, faults>>

HookSave(h) ==
  /\ handler[h] = "save"
  /\ row' = [row EXCEPT ![h] = "pending"]
  /\ handler' = [handler EXCEPT ![h] = "forward"]
  /\ UNCHANGED <<age, timer, client, worker, queued, faults>>

\* Mutant: one unit too many.
SendLonger(s) ==
  /\ inbox' = Append(inbox, s)
  /\ timer' = [timer EXCEPT ![s] = SendTimeout + 1]
  /\ queued' = IF busy = None /\ inbox = <<>> THEN queued \ {s} ELSE queued \cup {s}
  /\ UNCHANGED <<tunnel, busy, work>>

\* WSClient.Send by s: the request is on its way before time passes.
Send(s) ==
  /\ inbox' = Append(inbox, s)
  /\ timer' = [timer EXCEPT ![s] = SendTimeout]
  /\ queued' = IF busy = None /\ inbox = <<>> THEN queued \ {s} ELSE queued \cup {s}
  /\ UNCHANGED <<tunnel, busy, work>>

HookForward(h) ==
  /\ handler[h] = "forward"
  /\ IF tunnel = "open"
     THEN handler' = [handler EXCEPT ![h] = "send"] /\ Send(h)
     ELSE handler' = [handler EXCEPT ![h] = "done"] /\ UNCHANGED <<client, timer, queued>>
  /\ UNCHANGED <<row, age, worker, faults>>

HookMark(h) ==
  /\ handler[h] = "mark"
  /\ row' = [row EXCEPT ![h] = "delivered"]
  /\ handler' = [handler EXCEPT ![h] = "done"]
  /\ UNCHANGED <<age, timer, client, worker, queued, faults>>

----------------------------------------------------------------------------
(* The tunnel. *)

\* Every Send fails: handlers accept their webhook as pending, the worker ends.
CloseTunnel ==
  /\ tunnel = "open" /\ tunnel' = "closed"
  /\ handler' = [h \in Hook |-> IF handler[h] = "send" THEN "done" ELSE handler[h]]
  /\ drain' = "off" /\ queue' = {} /\ current' = None /\ ticker' = 0
  /\ queued' = {}
  /\ UNCHANGED <<row, age, timer, inbox, busy, work>>

\* The context of a Send ends.
Expire(s) ==
  /\ Sending(s) /\ timer[s] = 0
  /\ CloseTunnel
  /\ UNCHANGED faults

ConnLost == Fault /\ CloseTunnel

\* connectLoop.
Reconnect ==
  /\ tunnel = "down" /\ tunnel' = "open"
  /\ drain' = "connect"
  /\ queue' = {h \in Hook : row[h] = "pending"}
  /\ UNCHANGED <<row, age, handler, timer, inbox, busy, work, current, ticker, queued, faults>>

----------------------------------------------------------------------------
(* The client: connectOnce reads a request, forwards it, writes the answer. *)

\* Mutant: the local app may take as long as it likes.
NoTimeout == SendTimeout + 1

LocalLimit == LocalTimeout

\* What the server has closed may still be in the socket.
ClientRead ==
  /\ tunnel # "down" /\ busy = None /\ inbox # <<>>
  /\ busy' = Head(inbox) /\ inbox' = Tail(inbox)
  /\ work' = LocalLimit
  /\ UNCHANGED <<row, age, handler, timer, tunnel, worker, queued, faults>>

\* A read, or the write of an answer, fails.
ClientDrops ==
  /\ tunnel = "closed" /\ tunnel' = "down"
  /\ inbox' = <<>>
  /\ busy' = None /\ work' = 0
  /\ UNCHANGED <<row, age, handler, timer, worker, queued, faults>>

\* The local app answers.  Over a closed tunnel the write may seem to succeed.
ClientAnswers ==
  /\ busy # None
  /\ busy' = None /\ work' = 0
  /\ IF tunnel # "open"
     THEN UNCHANGED <<row, handler, timer, worker>>
     ELSE IF busy = Worker
          THEN /\ row' = [row EXCEPT ![current] = "delivered"]
               /\ current' = None
               /\ UNCHANGED <<handler, timer, drain, queue, ticker>>
          ELSE /\ handler' = [handler EXCEPT ![busy] = "mark"]
               /\ timer' = [timer EXCEPT ![busy] = DBDelay]
               /\ UNCHANGED <<row, worker>>
  /\ UNCHANGED <<age, tunnel, inbox, queued, faults>>

\* It does not in time: status 0, on which deliverStored returns.
ClientTimesOut ==
  /\ busy # None /\ work = 0
  /\ busy' = None
  /\ IF tunnel = "open" THEN Fault ELSE UNCHANGED faults
  /\ IF tunnel # "open"
     THEN UNCHANGED <<handler, worker>>
     ELSE IF busy = Worker
          THEN current' = None /\ queue' = {} /\ UNCHANGED <<handler, drain, ticker>>
          ELSE handler' = [handler EXCEPT ![busy] = "done"] /\ UNCHANGED worker
  /\ UNCHANGED <<row, age, timer, tunnel, inbox, work, queued>>

----------------------------------------------------------------------------
(* drainLoop. *)

\* deliverStored, oldest row first.
DrainSend(h) ==
  /\ current = None /\ h \in queue
  /\ \A g \in queue : age[g] <= age[h]
  /\ current' = h /\ queue' = queue \ {h}
  /\ Send(Worker)
  /\ UNCHANGED <<row, age, handler, drain, ticker, faults>>

\* Mutants: a row is stale at one moment only; once its Send must be over.
StaleAt(h) == age[h] = DrainMinAge
StalePastTimeout(h) == age[h] > SendTimeout

\* pendingOlderThan.
Stale(h) == age[h] > DrainMinAge

\* drainOnConnect is over; the ticker starts.
DrainStart ==
  /\ drain = "connect" /\ current = None /\ queue = {}
  /\ drain' = "tick"
  /\ ticker' = DrainInterval
  /\ UNCHANGED <<row, age, handler, timer, client, queue, current, queued, faults>>

\* The ticker holds one tick that comes while the worker is sending.
DrainTick ==
  /\ drain = "tick" /\ current = None /\ queue = {} /\ ticker = 0
  /\ queue' = {h \in Hook : row[h] = "pending" /\ Stale(h)}
  /\ ticker' = DrainInterval
  /\ UNCHANGED <<row, age, handler, timer, client, drain, current, queued, faults>>

----------------------------------------------------------------------------
(* Time. *)

\* Something happens before time goes on.
Due ==
  \/ \E h \in Hook : handler[h] \in {"save", "mark"} /\ timer[h] = 0
  \/ \E h \in Hook : handler[h] = "forward"
  \/ \E s \in Waiting : timer[s] = 0
  \/ tunnel = "open" /\ busy = None /\ inbox # <<>>
  \/ busy # None /\ work = 0

\* One unit less, 0 at the least.
Less(n) == IF n = 0 THEN 0 ELSE n - 1

Tick ==
  /\ ~Due
  /\ age' = [h \in Hook |-> IF handler[h] = "idle" \/ row[h] = "delivered" THEN 0
                            ELSE IF age[h] > DrainMinAge THEN age[h] ELSE age[h] + 1]
  /\ timer' = [s \in Sender |-> Less(timer[s])]
  /\ work' = Less(work)
  /\ ticker' = Less(ticker)
  /\ UNCHANGED <<row, handler, tunnel, inbox, busy, drain, queue, current, queued, faults>>

HookNext(h) == HookSave(h) \/ HookForward(h) \/ HookMark(h)

Next ==
  \/ \E h \in Hook : HookReceive(h) \/ HookNext(h) \/ DrainSend(h)
  \/ \E s \in Sender : Expire(s)
  \/ ConnLost \/ Reconnect
  \/ ClientRead \/ ClientDrops \/ ClientAnswers \/ ClientTimesOut
  \/ DrainStart \/ DrainTick \/ Tick

Spec == Init /\ [][Next]_vars

\* Time goes on, every goroutine runs, the client reconnects for ever, and the local
\* app answers in time but for MaxFaults requests.  No request has to come and no
\* connection has to be lost.
FairSpec ==
  /\ Spec
  /\ WF_vars(Tick)
  /\ \A h \in Hook : WF_vars(HookNext(h)) /\ WF_vars(DrainSend(h))
  /\ \A s \in Sender : WF_vars(Expire(s))
  /\ WF_vars(Reconnect)
  /\ WF_vars(ClientRead) /\ WF_vars(ClientDrops) /\ WF_vars(ClientAnswers)
  /\ WF_vars(DrainStart) /\ WF_vars(DrainTick)

----------------------------------------------------------------------------
(* Properties. *)

\* Every variable has its type.
TypeOK ==
  /\ row \in [Hook -> {"absent", "pending", "delivered"}]
  /\ age \in [Hook -> 0..DrainMinAge + 1]
  /\ handler \in [Hook -> {"idle", "save", "forward", "send", "mark", "done"}]
  /\ timer \in [Sender -> 0..SendTimeout]
  /\ tunnel \in {"open", "closed", "down"}
  /\ inbox \in Seq(Sender)
  /\ busy \in Sender \cup {None} /\ work \in Nat
  /\ drain \in {"off", "connect", "tick"}
  /\ queue \subseteq Hook /\ current \in Hook \cup {None}
  /\ ticker \in 0..DrainInterval
  /\ queued \subseteq Sender
  /\ faults \in 0..MaxFaults

\* server.go on periodicDrainMinAge: the periodic drain never sends a row whose live
\* forward is still in flight, from the insert to the end of MarkDelivered, provided
\* no statement of its handler takes longer than DBDelay.
TickSparesLiveForward ==
  drain = "tick" => \A h \in queue \cup ({current} \ {None}) : handler[h] = "done"

\* A Send only runs out of time behind another request: the client gives up on a
\* slow local app before the server gives up on the client, so one slow request
\* never closes the tunnel.
OnlyQueuedExpires == \A s \in Waiting : timer[s] = 0 => s \in queued

\* Slow requests that close the tunnel under each other do not starve each other:
\* once no more arrive, every pending row is delivered.
SlowAppDrains == \A h \in Hook : (row[h] = "pending") ~> (row[h] = "delivered")

=============================================================================
