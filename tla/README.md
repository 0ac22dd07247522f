# A verification of holloway in TLA+

holloway is a webhook relay: `holloway-server` accepts webhooks for a token, stores
them in SQLite, and forwards them over a websocket tunnel to a `holloway` client,
which passes them on to an app on localhost. This directory models its delivery
machinery in TLA+, model-checks it with TLC and proves the main safety properties
with TLAPS.

## 1. The system

| Component | State | Operations | Talks to |
|---|---|---|---|
| Ingress `handleHook`, `respondDuplicate` (`relay/handlers.go`) | one goroutine per request | reject, save, answer a duplicate, forward live, mark delivered, answer the provider | store, hub, rate limiter, broker |
| Drain worker `drainLoop`, `drainOnConnect`, `deliverStored` (`relay/delivery.go`) | a snapshot of rows, the set delivered on connect | drain on connect, `--replay`, drain on every tick | store, its own tunnel, broker |
| Replay `ReplayWebhook` (`relay/delivery.go`) | one goroutine per click | load a row, forward, mark delivered | store, hub, broker |
| Webhook store (`store/webhooks.go`, `db.go`) | the table `webhooks`; one connection, so statements are serial | insert with a partial unique index, mark delivered, queries, two retention deletes | |
| Token store (`store/tokens.go`) | the table `tokens` | create, ensure, delete, look up, compare secret | |
| Hub (`relay/hub.go`) | `clients`: token to client, under a mutex | Register and the unregister closure, Forward, Disconnect, Connected | tunnels |
| Tunnel connection `WSClient` (`relay/ws_client.go`) | `seq`, `pending` map, `closed` channel | Send, readLoop, Close, closePending | the websocket |
| Tunnel and token handlers (`relay/handlers.go`) | one goroutine per tunnel | check secret, accept, register, wait, unregister; create and delete tokens | hub, token store |
| holloway client (`cmd/holloway`) | one connection | connect with backoff, read a request, forward it, write the response | the local app |
| Retention sweep (`cmd/holloway-server`) | | delete by age, then by count, every hour | store |
| Rate limiter (`relay/ratelimit.go`) | one fixed window per token | Allow, prune | |
| Broker and live view (`dashboard/broker.go`, `handler.go`, `static/app.js`) | subscribers with buffers of 16; the rows a browser shows | Publish, Subscribe, unsubscribe, server-sent events, update or add a row | ingress, drain and replay publish to it |
| Listing (`dashboard/handler.go`, `store/webhooks.go`) | the page, filter and count of a request | filter, count, select a page, link to the next | store |
| Admin gate, flags, migrations | | authenticate; parse; create tables | store |

What is hard in it. Three kinds of goroutine (ingress, drain, replay) may have the
same webhook in flight at once and write the same row. Every one of them reads state
(the hub entry, a snapshot of rows, the dedup original) that another may change before
it is used. A tunnel may close under any of them at any point, and a Send that times
out closes it for all, while the client works through its requests one by one. Tunnels supersede each other, a token may be deleted under
them, retention deletes rows under everyone, statements may fail one by one, and the
process may stop between any two of them. Every write is published after it was
committed, by whoever made it, into buffers that drop. PROJECT.json lists these hazards at their
lines, each with the properties that would catch it going wrong or the reason why none does.

What makes each component correct:

- *ingress, drain, replay*: what was accepted is stored; nothing is sent before it
  is stored; a row is marked delivered only with an answer the local app gave to that
  webhook; providers see real answers only; with `-dedup` the app gets one of several
  identical requests; every provider is answered; everything pending is delivered in
  the end;
- *store*: delivered rows do not become pending again, deleted ones do not come back;
- *hub*: a live tunnel is always found, or about to be closed; no dead client is found
  for ever; unregistering never hits a successor; deleting a token disconnects it; no
  tunnel outlives the secret it was opened with;
- *tunnel connection*: a Send returns the response to its own request or an error, and
  always returns; the `pending` map holds the Sends in flight and nothing else;
- *client*: one response per request, under the request's ID; a slow app does not cost
  the tunnel, and the drain does not send what is still being forwarded;
- *rate limiter*: bursts are bounded whatever the order of the callers, and pruning
  resets no count;
- *broker and listing*: the live view never runs ahead of the table and keeps up with
  it as far as events arrive; paging to the end skips no row that stays where it was.

## 2. The modules

| Module | Models |
|---|---|
| `Relay` | ingress, drain, replay, retention, crash and the webhook table, for one token; the hub is this token's entry, a Send is a remote call |
| `Hub` | the hub and the handlers that write to it, for several tokens |
| `WSClient` | one tunnel connection and the client at its other end |
| `TunnelCall` | the abstract remote call: what `WSClient` implements and `Relay` uses |
| `RateLimiter` | the per-token limit: fixed windows, callers that read the clock before the lock |
| `TunnelTiming` | one tunnel with its deadlines, its client and its drain ticker, in discrete time |
| `Dashboard` | the listing, the broker and the live view of browsers, against the goroutines that write the table |
| `WebhookQueue` | the abstract durable queue that `Relay` implements |
| `MCRelay`, `MCHub`, `MCWSClient`, `MCRateLimiter`, `MCTunnelTiming`, `MCDashboard` | instances for TLC |
| `RelayProofs`, `ReplayProofs`, `RelayRefinement` | theorems about `Relay`: its safety, what `--replay` selects, the refinement of `WebhookQueue` |
| `HubProofs`, `WSClientProofs`, `RateLimiterProofs`, `DashboardProofs`, `TimingProofs` | theorems about the module they extend |

**Relay.** `row[h]` is `status_code` of the row of request `h` (`Absent` when there is
none), `recv[h]` its `received_at`, a number handed out in order of arrival. Each
`handleHook` is a program counter `hook[h]` with one action per database statement,
hub lookup or wait: `HookReceive`, `HookSave`, `RespondDuplicate`, `HookConnected`,
`HookForward`, `HookSendFails`, `HookSendReturns`, `HookMark`; early returns are
`HookReject` and the alternatives inside these. `client` is `hub.clients[token]`,
`conn[c]` a tunnel, `drain[c]` and `queue[c]` its worker with the rows that
`deliverStored` has still to send, `sent[c]` what it has delivered. `call[s]` is the
Send that goroutine `s` is in: `sent` while it waits, `handled` when its answer is in
the channel, `mark` between its return and `MarkDelivered`. `LocalAnswer` is the client
and the local app: an answer, or status 0. `AnswerTooLong` is an answer of up to 1 MiB
that exceeds the server's read limit of 2 MiB once it is a JSON string (a control
character takes six bytes): the app has handled the request, the server closes the
tunnel. An app that handles a request only after its Send has failed does so before
the failure in the model; only `served` could tell the difference. `served` and `purged` are histories, read by
properties only. Paths, headers and bodies are abstract: `KeyOf` gives the dedup key,
`Poison` the requests that `safeForwardPath` refuses, `Oversized` those with too long an
answer. A slot of `Conn` is used again
when nobody refers to its last client any more.

**Hub.** One action per lock region and per Close: `Register` swaps under the lock,
`CloseOld` closes the old client after it; `Disconnect` and `CloseVictim` likewise. Any
number of goroutines (`Deleter`) delete tokens, also the same one at once: deleting a
token that is gone is no error, and its client is disconnected all the same.
`ConnLost` is whatever closes a client from inside (the read loop, a Send that timed
out), possible from the moment the websocket is accepted, before Register. Secrets are
abstract values: `ValidTunnel` compares the one of the request with the one in the
table, and `key[c]` remembers it. `Restart` is the end of the process and the next
start: the token table survives, and with `-bootstrap-token` `EnsureToken` creates a
token or sets its secret anew.

**WSClient.** Send is split where other goroutines can get in: draw the ID, register
under the lock, write, the three cases of the `select`, the deferred `removePending`.
The read loop reads, looks the channel up under the lock and delivers outside it.
`Close` has two halves, `closePending` and `CloseNow`. The websocket is a FIFO in each
direction; a lost link drops what the client has not read, while responses that have
arrived can still be read.
The client reads one request, forwards it and writes the response before the next.

**TunnelCall** is a call per goroutine (`none`, `sent`, `handled`) and a flag `up`: a
call fails only if the tunnel is down or is taken down by that very failure, and a
tunnel that is down stays down. `ImplementsCall` says that `WSClient` implements it, under
the mapping `Up` (nobody has closed it, and the link is there) and `Phase` (where a Send is),
and the Send steps of `Relay` (`SendOn`, `LocalAnswer`, `SendFails`, ...) are its steps.

**WebhookQueue** says what the relay promises and nothing about how: a webhook is put
once; only what has been put is handed to the local app, any number of times; it is
settled with an answer the app gave to it; retention may drop it, for good; and its
provider is told one thing at most: to try again, that the webhook (or the one it
repeats) is queued, or an answer the app gave to it. `Accept` is the 202 for a webhook
in the queue; `AcceptInVain` is the 202 for one that retention has dropped before it was
told, which the code allows (`respondDuplicate` answers 202 when it finds no original any
more, `acceptPending` does not look at the row). `Relay` maps to it by `Item`
(the row, or dropped), `served` and `Told` (a crash tells nobody anything).

**RateLimiter.** `entries` is the map of windows, `ask[c]` the key and the time a
caller of Allow has in hand before it gets the mutex. `Tick` lets no caller wait longer
than `Delay`: without such a bound on scheduling, any number of callers with an old
clock could be admitted at once. `admitted` is a history: the requests let through in the
last `Window` ticks, each with the start of its window and its number in it.

**TunnelTiming.** `age[h]` is the time since `received_at`, `timer[s]` what is left of
the statement or the Send of a sender (a handler or the worker), `work` what is left of
the local app's 25 s, `ticker` the time to the next tick. `inbox` and `busy` are the
requests the client has not read and the one it works on. `Tick` advances all clocks and
waits for whatever is due. A Send that expires closes the tunnel under everybody
(`CloseTunnel`); the client notices (`ClientDrops`), reconnects, and the worker drains
everything pending on connect and then what is older than the minimum age. The network
takes less than a unit, a statement of a handler at most `DBDelay`, a statement of the
worker no time. `DBDelay` is an assumption: `busy_timeout` (5 s) bounds the wait for
SQLite's lock, but the pool has one connection (`SetMaxOpenConns(1)`, `db.go:70`), `Exec`
is called without a context, and the wait for that connection is not bounded by anything.

**Dashboard.** Writers commit first and publish later (`task[w]`): `SaveWebhook` and
`MarkDelivered` change `row`, `Publish` offers the event to every subscribed channel and
drops it where the channel is full. A tab loads a page with `Count` and `Select`, the two
statements of `ListWebhooks`, with the links of `newPagination`; an unfiltered first page
then subscribes, and `UpsertRow` is what `app.js` does with an event. A stream is lost
and reconnects without loading the page again. `unseen`, `slip` and `stale` are
histories: rows a reader who pages has not been shown, rows that left the listing (or
came between the two statements) meanwhile, and rows of which the last event did not
reach the tab in order. The filter `"all"` stands for the code's empty one. `received_at` is distinct for distinct requests.

## 3. The runs

| Run | Instance | Checks |
|---|---|---|
| `relay_race` | 2 requests, 2 tunnels, `--replay 1`, 1 fault | `TypeOK`, `AcceptedIsStored`, `DeliveredWasServed`, `WorkerNeverResends`, `ReplayPicksNewest` |
| `relay_retention` | 2 requests, 1 tunnel, 1 replay, both deletes, 1 fault | `StoredBeforeDelivery`, `RowsOnlyAdvance` |
| `relay_dedup` | 2 identical requests, `-dedup`, max-age, answers 200 and 500, 2 faults | `AcceptedIsStored`, `OneWebhookPerKeyServed`, `PassedThroughIsReal`, `ImplementsQueue` |
| `relay_live` | 2 requests, one with too long an answer, 1 tunnel slot, 2 faults, fair | `EveryRequestAnswered`, `UndeliverableBlocksOnlyLater` |
| `relay_poison` | one request that the client refuses, no fault, fair | `PendingDrains` is violated |
| `relay_5xx` | 1 request, 1 fault | `ServerErrorIsLocal` is violated |
| `hub` | 1 token, 2 secrets, 3 connections, 2 deletions at once, restarts, fair | `TypeOK`, `NoOrphanTunnel`, `NoDeadEntry`, `SecretInForce`, `ClosedLeavesHub`, `SupersededEnds` |
| `hub_delete` | 1 token, 2 connections | `DeletedTokenDisconnected` is violated |
| `wsclient` | 2 goroutines, 1 webhook, 4 Sends, fair | `TypeOK`, `OwnResponse`, `PendingIsInFlight`, `SendReturns`, `ImplementsCall` |
| `ratelimit` | 2 tokens, 2 callers, limit 2, window 3 ticks, delay 2, 7 ticks | `TypeOK`, `BurstBounded`, `PruneForgetsNothing` |
| `timing` | 2 requests, 1 worker, the code's durations in units of 5 s, 1 fault, fair | `TypeOK`, `TickSparesLiveForward`, `OnlyQueuedExpires`, `SlowAppDrains` |
| `dashboard` | 3 webhooks, 2 of them old rows, 1 drain worker or replay, 1 tab, 4 filters, pages of 1 row, buffers of 1 event | `TypeOK`, `ShownDeliveredIsDelivered`, `LivePageIsCurrent`, `WalkSkipsAtMostSlips` |

*Bounds.* Two requests are enough for one to overtake the other, to repeat it or to
starve behind it; two tunnels for one to supersede the other while both drain; one
replay for a third writer of the same row. `MaxFaults` bounds what goes wrong: a lost
connection, a timeout, a failed statement, an unreachable app, a takeover by a second
client, a crash. One fault at every possible point, with everything else interleaving
freely, is what the races need (in `relay_race` a takeover is that fault); the smaller instances
allow two, and the theorems any number. In `wsclient`
four Sends by two goroutines let a goroutine come back while an answer to its last
Send is under way. The clock of `Relay` needs no bound: it counts arrivals. The state of
a request that is done never changes, so the relay runs end in states without
successors and do not check deadlock; `hub` does, and the liveness properties say
that nobody waits for ever.

In `ratelimit` seven ticks are as long as it takes for an entry to be pruned, and the
delay of two ticks is the least for which the bound of `BurstBounded` is attained: with a
limit of 2, five requests pass within one window's length. The repository's README
(`src/README.md:120`) promises a number of requests per token per minute. The code counts
in fixed windows, so that this holds of each window, which `TypeOK` says, and not of every
minute: what remains is `BurstBounded`, fewer than three times the limit in any stretch of
a window's length (twice because windows are fixed, and once more because callers read the
clock before the lock).

In `hub` all goroutines work on one token, the only one they can race for: an entry, a
tunnel and a deletion concern a single token each, and the theorems have any number. Three
connections are enough for one to be superseded while another is still unregistering;
two deletions, for one to disconnect what registered after the other had done so.

In `timing` a unit of 5 s is the greatest common divisor of the code's durations: Send 6
units, local app 5, drain interval 2, minimum age 12, and 1 for a statement (an
assumption, see section 2). Two requests are enough for one to wait behind the other until its Send
expires; the one fault is a local timeout or a lost connection. The run checks the
constants of the code; `TimingProofs` shows which inequalities between them matter.

In `dashboard` three rows in pages of one make three pages, so that a row can move over
a boundary before and behind the reader; a buffer of one is full as soon as one event
waits. The new request, its live forward and the deliverer are the two writers a row
needs for their events to overtake each other. The filters are none, pending, 2xx and a
search term that occurs in the old requests and in every answer.

*Fairness.* Weak fairness for every step of a goroutine that can run: Go's scheduler
runs it, and each of its waits ends (a Send by its deadline, `Wait` by the close of the
tunnel). No fairness for requests, replays, takeovers or faults. The client
reconnects for ever (`connectLoop`), so a tunnel is registered whenever there is none
for long enough, and its app answers over a tunnel that is up. A tick that sees every
pending row is given strong fairness: a row does become a minute old, the ticker fires every ten seconds as long as the worker lives,
but a worker may be busy, or gone, in between. Faults are finitely many: without that
nothing need ever be delivered. In `TunnelTiming` time goes on, and the local app answers
in time but for `MaxFaults` requests; each answer may come at any moment before its
deadline, so that requests can go on closing the tunnel under each other, and
`SlowAppDrains` holds because requests are finitely many: the drain on connect sends one
row at a time. Steady slow traffic is another matter, for live forwards queue up beside
the worker. In `WSClient` no deadline is ever forced: `SendReturns`
holds although none may pass.

*What the violations show.* `relay_poison`: `deliverStored` stops at the first status 0
and always starts with the oldest row, so one webhook the client refuses for good
blocks every webhook behind it, on reconnect and on every tick. (The server stores the
decoded path; one that no longer parses as a request URI is refused by
`safeForwardPath` every time.) `relay_5xx`: the local app has answered 200, `MarkDelivered`
fails, and the server answers 500 itself (`handlers.go:95`), which the repository's README
rules out: a 5xx is to reach the provider only if the local app returned one. `hub_delete`: a token deleted
between the check of the tunnel secret and `Register` keeps its tunnel.

*What is not promised.* `LivePageIsCurrent` names the cases in which a live page stays
wrong until it is loaded again: an event dropped by a full channel, lost with its
stream or published before the subscription, and two writers whose events overtake each
other between commit and publish. The code prevents none of the four; the property says
that nothing else makes a page wrong, and that those four harm the rows they concern only.
`AcceptedIsStored` holds a 202 to the table until retention takes the row, pending or not.
`OneWebhookPerKeyServed` forgets a key with its row: of several identical requests that
the app was given, retention has deleted the rows of all but one. A webhook may be sent
more than once: after a `MarkDelivered` that failed, from a snapshot that another goroutine
has delivered meanwhile, or after a crash; the queue is at-least-once. `WalkSkipsAtMostSlips` likewise counts what paging by
offset may skip: a row for every row that is delivered under the filter `pending`.
`UndeliverableBlocksOnlyLater` is what is left of "pending webhooks drain" when one of
them cannot be delivered: it holds up those behind it and nobody else.

*Symmetry* is used in the safety runs only: requests are interchangeable as long as
their keys are (all distinct or all equal), and so are connection slots.

Every property of a passing run has a mutant, an operator beside the one it replaces,
that breaks it.

## 4. The theorems

`RelayProofs` proves, for any sets of requests, connections and replays, any
flags and any number of faults: `TypeCorrect`, `Durability` (`AcceptedIsStored`),
`WriteAhead` (`StoredBeforeDelivery`), `NoFalseDelivery` (`DeliveredWasServed`),
`PassThrough` (`PassedThroughIsReal`), `DedupServesOne` (`OneWebhookPerKeyServed`),
`NoResend` (`WorkerNeverResends`) and `Monotone` (`RowsOnlyAdvance`). The only
assumption is `RelayAssumption`: the kinds of goroutine are disjoint, `None` is none of
them, statuses are positive.

None of these is inductive. What a provider is told and what `MarkDelivered` stores
is decided several steps earlier, in a goroutine that has since waited for a tunnel.
The invariant `IInv` follows each goroutine: `HookInv` (a handler past its insert has
its row, or a duplicate's original; only a handler that is forwarding is in a Send, for
its own row), `CallInv` (a Send is for a stored row, and the answer in its hands is
in `served`), `WorkerInv` (a worker's queue holds stored rows, and none that it has
delivered), `StoreInv` (rows, histories and keys agree) and `AnswerInv`
(`AcceptedIsStored` and `PassedThroughIsReal`). There is one lemma per goroutine, one
case per action, and frame lemmas for what an action leaves alone. `Monotone` follows
from `IInv` and a lemma (`RowStep`) that says what any step may do to the table.

`RelayRefinement` proves `Refinement`: `Spec => ImplementsQueue`. Every step of `Relay`
is a step of `WebhookQueue` or leaves the queue as it is, from `IInv` and `ToldInv` (a
handler that is running has told its provider nothing). `MarkIsSettle` needs `CallInv`:
the answer in hand was handed out by the queue; `AcceptIsAccept` needs `HookInv`: the
handler's row is, or was, in the table; `CrashRefines` says that a crash is invisible.

`HubProofs` proves, for any tokens, secrets, connections and deletions, from `HubAssumption` (`None`
is none of them): `TypeCorrect`, `NoOrphans` (`NoOrphanTunnel`), `NoDeadEntries`
(`NoDeadEntry`) and `SecretsInForce` (`SecretInForce`). The invariants need each other and
`HandlerInv`: a handler past validation serves a token that has been created (so that no
`CreateToken` can give it another secret), and a goroutine that owes a Close (`old`,
`victim`) is at the step where it pays it.

`TimingProofs` proves, for any number of requests and faults and any durations that
satisfy `TimingAssumption` (the local timeout is shorter than that of a Send, which is no
shorter than a statement; two statements and a Send take no longer than the minimum age):
`TypeCorrect`, `TickWaitsForForward` (`TickSparesLiveForward`; conditional on `DBDelay`, which
the code does not enforce) and `SlowAppKeepsTunnel`
(`OnlyQueuedExpires`). `AgeInv` bounds the age of a row by what its handler has had time
for; `FirstInv` says that a Send that found the client idle has more time left than the
local app has for it; `InboxInv` (over an open tunnel the client holds requests of
waiting senders, no two of the same) and `ClosedInv` (nobody waits on a closed one) carry
it from step to step.

`ReplayProofs` proves `ReplayIsExact` (`ReplayPicksNewest`) for any limit and any table.
`FetchThenDrop` is the counting lemma: of a finite set of rows, the newest `k + |X|` without
those in X, cut to `k`, are the newest `k` of the rows not in X, because X can hide at most
`|X|` of them. That the table and what a worker has delivered are finite is itself an
invariant (`FiniteInv`), not an assumption: a step adds one row at most.

`WSClientProofs` proves, for any goroutines, webhooks and number of Sends, `TypeCorrect`,
`NoMixUp` (`OwnResponse`), `NoLeak` (`PendingIsInFlight`) and `Refinement`
(`Spec => ImplementsCall`). A response is delivered into a channel that was looked up
earlier, for a Send that may be gone by then, so the invariant is about identity: `NumInv` (no
two Sends share a number), `MsgInv` (everything on the wire or in somebody's hands carries
the number of a Send that has been written), `LoopInv` (the channel in the read loop's
hands is that of the response in its hands) and `ChanInv` (a channel holds the response to
its own Send only). The refinement needs them: the call of the goroutine that is answered
must be the one that was sent.

`RateLimiterProofs` proves `TypeCorrect`, `BurstIsBounded` (`BurstBounded`) and `PruneIsSafe`
(`PruneForgetsNothing`) for any limit, window and delay that satisfy `LimiterAssumption`
(`2 * Delay <= Window + 1`). An entry is stamped by its last caller, not by its latest:
`WindowInv` says how far that stamp can be behind the window's start, which is what makes a
cutoff of two windows safe. `LogInv` relates each request of the last `Window` ticks to the
entry of its key: it is in the entry's window, under a number of its own, or in a window
that was over when that one began, and the request that opened a window came within `Delay`
of its start. Hence at most three windows are among those requests (`ThreeWindows`), each
with at most `Limit` numbers, and if there are three, number 1 of the first is not
among them: less than `3 * Limit`.

`DashboardProofs` proves, for any webhooks, writers and tabs, any filters, page size and
buffer, `TypeCorrect`, `NeverAhead` (`ShownDeliveredIsDelivered`), `LivePageKeepsUp`
(`LivePageIsCurrent`) and `WalkSkipsFew` (`WalkSkipsAtMostSlips`). `BackInv` follows a status from the commit to the page: whatever a
task, a buffer or a view holds about a row is not ahead of the table, and belongs to a
row that has been inserted. `CurrentInv` says where the present state of a row is: of the
places where a change of it may be on its way (an unpublished task, the buffer, the view)
the last that is not empty holds the row as it is. `WalkInv` counts the rows a reader has
missed for good: those not shown yet that are above the reader's place in the listing, or
out of it but in the table. A row that leaves adds one at most (itself, or the one that
moves up over the page boundary, `LeaveMissed`), and so does its slip; one that enters adds
none, not even when it had left before (`EnterMissed`), and the sweep takes rows from the end
(`SweepMissed`). Between COUNT and SELECT the invariant also bounds how much longer the
listing may be than the count, because that is what the last page does not reach. It needs
distinct `received_at`, which is part of it. `DashboardAssumption` (finitely many webhooks,
positive statuses, the filter `"all"`, a page of at least one row) is all it assumes.

Every invariant, action property and refinement of the runs that pass is proved. Only
model-checked are the liveness properties (`EveryRequestAnswered`,
`UndeliverableBlocksOnlyLater`, `ClosedLeavesHub`, `SupersededEnds`, `SendReturns`,
`SlowAppDrains`): fairness is beyond the prover.

## 5. Not modelled

- Contents: paths, headers, bodies and the filters on them (`safeForwardPath`, hop-by-hop
  headers) are sets of requests that pass or do not; HTML, the inspector page and the
  order of rows on a page.
- The admin gate and the same-origin check: decisions on one request's headers, without
  state. Flag parsing and the migrations of `Open`, which run before anything else.
- The length of the backoff. Two clients with one token evict each other for ever; how
  much gets delivered between two takeovers is a race the code does not decide, so
  `Relay` allows finitely many takeovers for its liveness properties and any number for
  its theorems.
- In `TunnelTiming`: replays, a second client, and the time of the worker's own statements.
- Token deletion in `Relay`: `handleHook` checks the token once, at the start, and the
  relay's properties do not depend on it.

## 6. Plan

Left to do, in this order:

1. The Sends of `Relay` over one tunnel, shown to be those of `TunnelCall`, as `WSClient`'s
   are.
2. The entry of the hub that `Relay` keeps, shown to be a part of `Hub`.

The composition: `TunnelCall` is what `WSClient` implements and `Relay` uses; `Hub` has
the whole registry of which `Relay` keeps one entry; `WebhookQueue` is what `Relay`
promises; `Dashboard` shows what its writers commit and publish; `TunnelTiming` has the
clocks that `Relay` leaves out.
