----------------------------- MODULE Dashboard -----------------------------
(***************************************************************************)
(* The dashboard: what a browser shows of the webhooks table, and how far  *)
(* behind the table it may be.                                             *)
(*                                                                         *)
(* The goroutines that write the table (handleHook, deliverStored,         *)
(* ReplayWebhook) commit first and publish to the broker afterwards.  A    *)
(* browser loads a page of the listing with two statements, a COUNT and a  *)
(* SELECT; page 1 without filters then opens an event stream, whose events *)
(* update or add single rows.  Delivery itself is the subject of Relay.tla:*)
(* here a writer simply holds a webhook until an answer comes back.        *)
(***************************************************************************)
EXTENDS Integers, FiniteSets, Sequences, FiniteSetsExt

CONSTANTS
  Hook,       \* webhook requests; a request is also the ID of its row
  Old,        \* those whose rows are there from before this start of the server
  Deliverer,  \* drain workers and dashboard replays
  Browser,    \* open tabs
  Status,     \* non-zero status codes of the local app
  Filter,     \* the filters in use; "all" stands for none
  Found,      \* the <<row, status>> that the search term, path and dates select; of
              \*   these only the response_body, which comes with the status, changes
  PageSize,   \* dashboardPageSize
  Buffer      \* capacity of a subscriber's channel

Absent  == -1   \* no row with this ID, or none on the page
Pending == 0    \* status_code = 0

Writer == Hook \cup Deliverer

ASSUME DashboardAssumption ==
  /\ IsFiniteSet(Hook) /\ Old \subseteq Hook /\ Hook \cap Deliverer = {}
  /\ Status \subseteq Nat \ {0}
  /\ Found \subseteq Hook \X ({Pending} \cup Status)
  /\ \A x \in Found, st \in Status : x[2] = Pending => <<x[1], st>> \in Found
  /\ "all" \in Filter /\ PageSize \in Nat \ {0} /\ Buffer \in Nat \ {0}

VARIABLES
  row,     \* the webhooks table: status_code of each row, or Absent
  recv,    \* received_at of each request (0: not received yet)
  task,    \* what each writer is doing, and with which webhook
  pc,      \* each tab: nothing loaded, page counted, page shown
  filter,  \* the filter of its page
  page,    \* the number of its page
  total,   \* the COUNT of its page
  view,    \* the rows it shows and their status, or Absent
  stream,  \* is its channel subscribed?
  buf,     \* the events in its channel
  unseen,  \* history: the rows listed when it loaded page 1, but not shown since
  slip,    \* history: how many rows have left the listing since, or entered it
           \*   between a COUNT and its SELECT
  stale    \* history: the rows whose last event did not reach it in order

table   == <<row, recv>>
listing == <<pc, filter, page, total>>
live    == <<stream, buf>>
walk    == <<unseen, slip>>
vars    == <<table, task, listing, view, live, walk, stale>>

Event   == [id: Hook, st: {Pending} \cup Status]
NoTask  == [phase |-> "none"]
Task    == {NoTask} \cup [phase: {"save", "job", "publish"}, id: Hook,
                         st: {Pending} \cup Status]

Init ==
  /\ row \in {t \in [Hook -> {Absent, Pending} \cup Status] :
               \A h \in Hook : h \in Old <=> t[h] # Absent}
  /\ recv \in {t \in [Hook -> 0..Cardinality(Old)] :
                \A h \in Hook : /\ h \in Old <=> t[h] # 0
                                /\ \A g \in Old \ {h} : t[h] # t[g]}
  /\ task = [w \in Writer |-> NoTask]
  /\ pc = [b \in Browser |-> "closed"]
  /\ filter = [b \in Browser |-> "all"]
  /\ page = [b \in Browser |-> 1]
  /\ total = [b \in Browser |-> 0]
  /\ view = [b \in Browser |-> [h \in Hook |-> Absent]]
  /\ stream = [b \in Browser |-> FALSE]
  /\ buf = [b \in Browser |-> <<>>]
  /\ unseen = [b \in Browser |-> {}]
  /\ slip = [b \in Browser |-> 0]
  /\ stale = [b \in Browser |-> {}]

----------------------------------------------------------------------------
(* ListWebhooks and newPagination. *)

\* webhookWhere, on a row h with status st.
Matches(f, h, st) ==
  CASE f = "pending"   -> st = Pending
    [] f = "delivered" -> st > 0
    [] f = "2xx"       -> st \in 200..299
    [] f = "3xx"       -> st \in 300..399
    [] f = "4xx"       -> st \in 400..499
    [] f = "5xx"       -> st \in 500..599
    [] f = "search"    -> <<h, st>> \in Found
    [] OTHER           -> TRUE

\* The rows of table t that filter f selects.
Listed(t, f) == {h \in Hook : t[h] # Absent /\ Matches(f, h, t[h])}

\* Mutant: the listing starts with the oldest row.
SliceOldest(S, offset) ==
  LET before(h) == Cardinality({g \in S : recv[g] < recv[h]})
  IN  {h \in S : before(h) \in offset..offset + PageSize - 1}

\* ORDER BY received_at DESC LIMIT ... OFFSET ....
Slice(S, offset) ==
  LET before(h) == Cardinality({g \in S : recv[g] > recv[h]})
  IN  {h \in S : before(h) \in offset..offset + PageSize - 1}

Offset(n) == (n - 1) * PageSize

HasNext(b) == Offset(page[b]) + PageSize < total[b]

\* Mutant: the first page links to the one before it.
HasPrevAlways(b) == TRUE

HasPrev(b) == page[b] > 1

\* Only an unfiltered first page opens an event stream.
LiveEnabled(b) == page[b] = 1 /\ filter[b] = "all"
Live(b)        == pc[b] = "shown" /\ LiveEnabled(b)

\* The tabs of which the step that leads to table t changes the listing: a row
\* that leaves other than at the end, or enters between COUNT and SELECT, may push
\* another one over a page boundary.
Slips(t) ==
  slip' = [b \in Browser |->
    LET before == Listed(row, filter[b])
        after  == Listed(t, filter[b])
        left   == Cardinality({h \in before \ after : t[h] # Absent})
        came   == IF pc[b] = "counted" THEN Cardinality(after \ before) ELSE 0
    IN  IF pc[b] = "closed" THEN 0 ELSE Min({slip[b] + left + came, Cardinality(Hook)})]

----------------------------------------------------------------------------
(* The writers: commit, then publish. *)

\* Another writer has committed a change to h that it has not published yet.
Unpublished(h) == {w \in Writer : task[w].phase = "publish" /\ task[w].id = h}

\* The events on h now reach every tab in order, unless an earlier one is still to
\* be published.
Commit(w, h, st, t) ==
  /\ row' = t
  /\ task' = [task EXCEPT ![w] = [phase |-> "publish", id |-> h, st |-> st]]
  /\ stale' = [b \in Browser |-> IF Live(b) /\ Unpublished(h) # {}
                                 THEN stale[b] \cup {h} ELSE stale[b] \ {h}]
  /\ Slips(t)
  /\ UNCHANGED <<recv, listing, view, live, unseen>>

\* received_at is taken before the insert, so rows need not appear in its order.
Receive(h) ==
  /\ recv[h] = 0
  /\ recv' = [recv EXCEPT ![h] = 1 + Max({recv[g] : g \in Hook})]
  /\ task' = [task EXCEPT ![h] = [phase |-> "save", id |-> h, st |-> Pending]]
  /\ UNCHANGED <<row, listing, view, live, walk, stale>>

SaveWebhook(h) ==
  /\ task[h].phase = "save"
  /\ Commit(h, h, Pending, [row EXCEPT ![h] = Pending])

\* deliverStored and ReplayWebhook read a row some time before they deliver it.
GetWebhook(d, h) ==
  /\ task[d].phase = "none" /\ row[h] # Absent
  /\ task' = [task EXCEPT ![d] = [phase |-> "job", id |-> h, st |-> Pending]]
  /\ UNCHANGED <<table, listing, view, live, walk, stale>>

\* Mutant: published before it is committed.
PublishFirst(w, st) ==
  LET h == task[w].id
      e == [id |-> h, st |-> st]
  IN  /\ task[w].phase = "job"
      /\ buf' = [b \in Browser |-> IF stream[b] /\ Len(buf[b]) < Buffer
                                   THEN Append(buf[b], e) ELSE buf[b]]
      /\ UNCHANGED <<table, task, listing, view, stream, walk, stale>>

\* No row, no update, and no error either: the event is published all the same.
MarkDelivered(w, st) ==
  /\ task[w].phase = "job"
  /\ LET h == task[w].id
     IN  Commit(w, h, st, [row EXCEPT ![h] = IF @ = Absent THEN Absent ELSE st])

\* No answer, or the statement fails.
GiveUp(w) ==
  /\ task[w].phase \in {"save", "job"}
  /\ task' = [task EXCEPT ![w] = NoTask]
  /\ UNCHANGED <<table, listing, view, live, walk, stale>>

\* A full channel drops the event.
Offer(b, e) == IF Len(buf[b]) < Buffer THEN Append(buf[b], e) ELSE buf[b]

\* Broker.Publish: every subscriber is offered the event, under the lock.  handleHook
\* goes on to forward the webhook it has just published as pending.
Publish(w) ==
  /\ task[w].phase = "publish"
  /\ LET h == task[w].id
         e == [id |-> h, st |-> task[w].st]
     IN  /\ buf' = [b \in Browser |-> IF stream[b] THEN Offer(b, e) ELSE buf[b]]
         /\ stale' = [b \in Browser |->
              IF Live(b) /\ ~(stream[b] /\ Len(buf[b]) < Buffer)
              THEN stale[b] \cup {h} ELSE stale[b]]
  /\ task' = [task EXCEPT ![w] = IF w \in Hook /\ task[w].st = Pending
                                 THEN [@ EXCEPT !.phase = "job"] ELSE NoTask]
  /\ UNCHANGED <<table, listing, view, stream, walk>>

\* The retention sweep, by age or by count: the oldest rows go.
Sweep(cutoff) ==
  LET t == [h \in Hook |-> IF recv[h] < cutoff THEN Absent ELSE row[h]]
  IN  /\ row' = t
      /\ Slips(t)
      /\ UNCHANGED <<recv, task, listing, view, live, unseen, stale>>

----------------------------------------------------------------------------
(* The tab. *)

\* showDashboard counts first.  The old page, its stream included, is gone: events
\* closes its channel when the request's context ends.
Count(b, f, n) ==
  /\ pc' = [pc EXCEPT ![b] = "counted"]
  /\ filter' = [filter EXCEPT ![b] = f]
  /\ page' = [page EXCEPT ![b] = n]
  /\ total' = [total EXCEPT ![b] = Cardinality(Listed(row, f))]
  /\ view' = [view EXCEPT ![b] = [h \in Hook |-> Absent]]
  /\ stream' = [stream EXCEPT ![b] = FALSE]
  /\ buf' = [buf EXCEPT ![b] = <<>>]
  /\ unseen' = [unseen EXCEPT ![b] = IF n = 1 THEN {} ELSE @]
  /\ slip' = [slip EXCEPT ![b] = IF n = 1 THEN 0 ELSE @]
  /\ stale' = [stale EXCEPT ![b] = {}]
  /\ UNCHANGED <<table, task>>

Open(b, f) == pc[b] # "counted" /\ Count(b, f, 1)

\* The links at the foot of the page.
Follow(b) ==
  /\ pc[b] = "shown"
  /\ \/ HasNext(b) /\ Count(b, filter[b], page[b] + 1)
     \/ HasPrev(b) /\ Count(b, filter[b], page[b] - 1)

\* The events still to be published will overwrite what the page shows.
Select(b) ==
  LET listed == Listed(row, filter[b])
      shown  == Slice(listed, Offset(page[b]))
  IN  /\ pc[b] = "counted"
      /\ pc' = [pc EXCEPT ![b] = "shown"]
      /\ view' = [view EXCEPT ![b] = [h \in Hook |-> IF h \in shown THEN row[h] ELSE Absent]]
      /\ unseen' = [unseen EXCEPT ![b] = (IF page[b] = 1 THEN listed ELSE @) \ shown]
      /\ stale' = [stale EXCEPT ![b] =
           {h \in Hook : LiveEnabled(b) /\ \E w \in Unpublished(h) : task[w].st # row[h]}]
      /\ UNCHANGED <<table, task, filter, page, total, live, slip>>

LoadFails(b) ==
  /\ pc[b] = "counted"
  /\ pc' = [pc EXCEPT ![b] = "closed"]
  /\ UNCHANGED <<table, task, filter, page, total, view, live, walk, stale>>

\* events: the EventSource connects, or connects again by itself; the page is not
\* loaded again.
Subscribe(b) ==
  /\ Live(b) /\ ~stream[b]
  /\ stream' = [stream EXCEPT ![b] = TRUE]
  /\ UNCHANGED <<table, task, listing, view, buf, walk, stale>>

\* The tabs of B lose their channels with the events in them; those events, and the
\* ones in lost, reach them no more.
Drop(B, lost) ==
  /\ stream' = [b \in Browser |-> IF b \in B THEN FALSE ELSE stream[b]]
  /\ buf' = [b \in Browser |-> IF b \in B THEN <<>> ELSE buf[b]]
  /\ stale' = [b \in Browser |->
       IF b \in B /\ Live(b) THEN stale[b] \cup lost \cup {buf[b][i].id : i \in DOMAIN buf[b]}
       ELSE stale[b]]

StreamLost(b) ==
  /\ stream[b]
  /\ Drop({b}, {})
  /\ UNCHANGED <<table, task, listing, view, walk>>

\* Mutant: an event only updates a row that is on the page.
UpdateRow(v, e) == [v EXCEPT ![e.id] = IF @ = Absent THEN Absent ELSE e.st]

\* The row is found by its ID and overwritten, or added on top.
UpsertRow(v, e) == [v EXCEPT ![e.id] = e.st]

ReceiveEvent(b) ==
  /\ stream[b] /\ buf[b] # <<>>
  /\ view' = [view EXCEPT ![b] = UpsertRow(@, Head(buf[b]))]
  /\ buf' = [buf EXCEPT ![b] = Tail(@)]
  /\ UNCHANGED <<table, task, listing, stream, walk, stale>>

\* The process dies or is shut down: what was not published never will be, and a
\* page that was being loaded does not come.
Restart ==
  /\ task' = [w \in Writer |-> NoTask]
  /\ pc' = [b \in Browser |-> IF pc[b] = "counted" THEN "closed" ELSE pc[b]]
  /\ Drop(Browser, {h \in Hook : Unpublished(h) # {}})
  /\ UNCHANGED <<table, filter, page, total, view, walk>>

----------------------------------------------------------------------------

WriterNext ==
  \/ \E h \in Hook : Receive(h) \/ SaveWebhook(h)
  \/ \E d \in Deliverer, h \in Hook : GetWebhook(d, h)
  \/ \E w \in Writer : Publish(w) \/ GiveUp(w) \/ \E st \in Status : MarkDelivered(w, st)
  \/ \E cutoff \in 2..Cardinality(Hook) + 1 : Sweep(cutoff)
  \/ Restart

TabNext(b) ==
  \/ \E f \in Filter : Open(b, f)
  \/ Follow(b) \/ Select(b) \/ LoadFails(b)
  \/ Subscribe(b) \/ StreamLost(b) \/ ReceiveEvent(b)

Next == WriterNext \/ \E b \in Browser : TabNext(b)

Spec == Init /\ [][Next]_vars

----------------------------------------------------------------------------
(* Properties. *)

\* Every variable has its type.
TypeOK ==
  /\ row \in [Hook -> {Absent, Pending} \cup Status]
  /\ recv \in [Hook -> Nat]
  /\ task \in [Writer -> Task]
  /\ pc \in [Browser -> {"closed", "counted", "shown"}]
  /\ filter \in [Browser -> Filter]
  /\ page \in [Browser -> Nat \ {0}] /\ total \in [Browser -> Nat]
  /\ view \in [Browser -> [Hook -> {Absent, Pending} \cup Status]]
  /\ stream \in [Browser -> BOOLEAN]
  /\ buf \in [Browser -> Seq(Event)]
  /\ unseen \in [Browser -> SUBSET Hook] /\ slip \in [Browser -> Nat]
  /\ stale \in [Browser -> SUBSET Hook]

\* A row that a page, live or not, shows as delivered is delivered, or retention
\* has deleted it: an event never runs ahead of its commit.
ShownDeliveredIsDelivered ==
  \A b \in Browser, h \in Hook : view[b][h] \in Status => row[h] # Pending

\* No change of h is on its way to the tab.
Settled(b, h) ==
  Unpublished(h) = {} /\ \A i \in DOMAIN buf[b] : buf[b][i].id # h

\* A live page keeps up with the table.  Once no event on a row is on its way, the
\* page shows the row as it is, or not at all if the row was below the page when it
\* was loaded.  The exceptions are the rows in stale: an event found the channel
\* full or not subscribed, was lost with it, or was overtaken by that of a later
\* commit, and no commit has followed.
LivePageIsCurrent ==
  \A b \in Browser, h \in Hook :
    Live(b) /\ row[h] # Absent /\ h \notin stale[b] /\ Settled(b, h) =>
      \/ view[b][h] = row[h]
      \/ view[b][h] = Absent /\ h \in unseen[b]

\* A reader who follows Next from page 1 to the end has seen every row that was
\* listed at the start and still is, except for one row at most for every row that
\* left the listing on the way (delivered under "pending") or entered it between a
\* COUNT and its SELECT.  New rows and retention make the reader skip nothing.
WalkSkipsAtMostSlips ==
  \A b \in Browser :
    pc[b] = "shown" /\ ~HasNext(b) =>
      Cardinality(unseen[b] \cap Listed(row, filter[b])) <= slip[b]

=============================================================================
