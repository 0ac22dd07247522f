-------------------------- MODULE DashboardProofs --------------------------
(***************************************************************************)
(* What a page shows, for any number of webhooks, writers and tabs, any    *)
(* filters, page size and channel capacity: nothing that is not committed, *)
(* and, on a live page, nothing old once the events have arrived, except   *)
(* for the rows named in stale; and what a reader who pages to the end has *)
(* missed: no more rows than have left their place in the listing.         *)
(***************************************************************************)
EXTENDS Dashboard, FiniteSetTheorems, WellFoundedInduction, TLAPS

\* received_at has a latest value, as there are only finitely many requests.
RecvInv == \E n \in Nat : \A h \in Hook : recv[h] <= n

TypeInv == TypeOK /\ RecvInv

----------------------------------------------------------------------------
(* No event runs ahead of its commit. *)

\* The insert of h is behind us: it is done, or will never be.
Saved(h) == recv[h] # 0 /\ task[h].phase # "save"

\* Status st of row h may be about: h is in the table, or was, and st is not ahead
\* of it.
Backed(h, st) == Saved(h) /\ (st \in Status => row[h] # Pending)

\* Only requests that have come in are saved, each by its own handler, and before
\* anybody else works on them.
TaskInv ==
  \A w \in Writer :
    /\ task[w].phase = "save" => w \in Hook /\ task[w].id = w /\ recv[w] # 0
    /\ task[w].phase = "job" => Saved(task[w].id)
    /\ task[w].phase = "publish" => Backed(task[w].id, task[w].st)

\* The same for what tabs have received, and are going to.
TabInv ==
  \A b \in Browser :
    /\ \A i \in DOMAIN buf[b] : Backed(buf[b][i].id, buf[b][i].st)
    /\ \A h \in Hook : view[b][h] # Absent => Backed(h, view[b][h])

RowInv == \A h \in Hook : row[h] # Absent => Saved(h)

BackInv == TaskInv /\ TabInv /\ RowInv

----------------------------------------------------------------------------
(* A live page catches up. *)

\* Only a live page is subscribed, and events wait only for subscribers.
StreamInv == \A b \in Browser : /\ stream[b] => Live(b)
                                /\ ~stream[b] => buf[b] = <<>>

\* The latest event on h in the tab's channel.
Last(b, h, i) ==
  /\ i \in DOMAIN buf[b] /\ buf[b][i].id = h
  /\ \A j \in DOMAIN buf[b] : j > i => buf[b][j].id # h

\* What the row is at the end of the way to the tab: of the places where a change
\* of h may be, the last that is not empty holds the row as it is.
Current(b, h) ==
  Live(b) /\ row[h] # Absent /\ h \notin stale[b] =>
    /\ \A w \in Unpublished(h) : task[w].st = row[h]
    /\ Unpublished(h) = {} => \A i \in DOMAIN buf[b] : Last(b, h, i) => buf[b][i].st = row[h]
    /\ Settled(b, h) => view[b][h] = row[h] \/ (view[b][h] = Absent /\ h \in unseen[b])

\* A handler works only on a request that has come in.
BusyInv == \A h \in Hook : task[h].phase # "none" => recv[h] # 0

CurrentInv == StreamInv /\ BusyInv /\ \A b \in Browser, h \in Hook : Current(b, h)

----------------------------------------------------------------------------
(* Types. *)

Cell == {Absent, Pending} \cup Status

\* The kinds of cells are different.
LEMMA StatusNotPending == Pending \notin Status /\ Absent \notin Status /\ Absent # Pending
<1>1. Status \subseteq Nat \ {0}
  BY DashboardAssumption
<1> QED
  BY <1>1 DEF Pending, Absent

\* Rows and subsets of them can be counted.
LEMMA CountNat == \A S \in SUBSET Hook : Cardinality(S) \in Nat
BY DashboardAssumption, FS_Subset, FS_CardinalityType

\* A bounded set of naturals has a maximum.
LEMMA HasMax ==
  ASSUME NEW S \in SUBSET Nat, S # {}, NEW n \in Nat, \A x \in S : x <= n
  PROVE  Max(S) \in S /\ \A x \in S : x <= Max(S)
<1> DEFINE T == {u \in Nat : \A x \in S : x <= u}
<1>1. PICK m \in T : \A u \in T : ~(u < m)
  <2>1. IsWellFoundedOn(OpToRel(<, Nat), Nat)
    BY NatLessThanWellFounded
  <2>2. T \subseteq Nat /\ n \in T
    OBVIOUS
  <2>3. \E m \in T : \A u \in T : ~(<<u, m>> \in OpToRel(<, Nat))
    <3> HIDE DEF T
    <3> QED
      BY <2>1, <2>2, WFMin, Zenon
  <2> QED
    BY <2>2, <2>3 DEF OpToRel
<1>2. m \in S
  <2> SUFFICES ASSUME m \notin S PROVE FALSE
    OBVIOUS
  <2>1. \A x \in S : x <= m - 1
    OBVIOUS
  <2>2. PICK x \in S : TRUE
    OBVIOUS
  <2>3. m - 1 \in Nat
    BY <2>1, <2>2
  <2> QED
    BY <1>1, <2>1, <2>3
<1>3. \A x \in S : m >= x
  BY <1>1
<1> QED
  BY <1>2, <1>3 DEF Max

\* The smaller of two naturals is one.
LEMMA MinNat ==
  ASSUME NEW x \in Nat, NEW y \in Nat
  PROVE  Min({x, y}) \in Nat
<1>1. \E u \in {x, y} : \A v \in {x, y} : u <= v
  <2>1. CASE x <= y
    BY <2>1
  <2>2. CASE y <= x
    BY <2>2
  <2> QED
    BY <2>1, <2>2
<1>2. Min({x, y}) \in {x, y}
  BY <1>1 DEF Min
<1> QED
  BY <1>2

\* Slips counts rows.
LEMMA SlipsType ==
  ASSUME TypeOK, NEW t, Slips(t)
  PROVE  slip' \in [Browser -> Nat]
<1> DEFINE before(b) == Listed(row, filter[b])
           after(b)  == Listed(t, filter[b])
           left(b)   == Cardinality({h \in before(b) \ after(b) : t[h] # Absent})
           came(b)   == IF pc[b] = "counted" THEN Cardinality(after(b) \ before(b)) ELSE 0
<1>1. ASSUME NEW b \in Browser
      PROVE  left(b) \in Nat /\ came(b) \in Nat /\ slip[b] \in Nat
  <2>1. before(b) \in SUBSET Hook /\ after(b) \in SUBSET Hook
    BY DEF Listed
  <2>2. slip[b] \in Nat
    BY DEF TypeOK
  <2> HIDE DEF before, after
  <2>3. left(b) \in Nat
    BY <2>1, CountNat
  <2>4. came(b) \in Nat
    BY <2>1, CountNat
  <2> QED
    BY <2>2, <2>3, <2>4
<1>2. Cardinality(Hook) \in Nat
  BY CountNat
<1>3. slip' = [b \in Browser |->
        IF pc[b] = "closed" THEN 0 ELSE Min({slip[b] + left(b) + came(b), Cardinality(Hook)})]
  BY DEF Slips
<1> HIDE DEF left, came
<1>4. \A b \in Browser : slip[b] + left(b) + came(b) \in Nat
  BY <1>1
<1>5. \A b \in Browser : Min({slip[b] + left(b) + came(b), Cardinality(Hook)}) \in Nat
  BY <1>2, <1>4, MinNat
<1> QED
  BY <1>3, <1>5

\* A commit keeps the types, if its table has them.
LEMMA CommitType ==
  ASSUME TypeOK, NEW w \in Writer, NEW h \in Hook, NEW st \in {Pending} \cup Status,
         NEW t \in [Hook -> Cell], Commit(w, h, st, t)
  PROVE  TypeOK' /\ UNCHANGED recv
<1> USE DEF Commit
<1>1. slip' \in [Browser -> Nat]
  BY SlipsType
<1>2. task' \in [Writer -> Task]
  <2>1. [phase |-> "publish", id |-> h, st |-> st] \in Task
    BY DEF Task
  <2> QED
    BY <2>1 DEF TypeOK
<1>3. stale' \in [Browser -> SUBSET Hook]
  BY DEF TypeOK
<1>4. UNCHANGED <<recv, pc, filter, page, total, view, stream, buf, unseen>>
  BY DEF listing, live
<1> HIDE DEF Commit
<1>5. row' = t
  BY DEF Commit
<1> QED
  BY <1>1, <1>2, <1>3, <1>4, <1>5 DEF TypeOK, Cell

\* What a writer holds.
LEMMA TaskFields ==
  ASSUME TypeOK, NEW w \in Writer, task[w].phase # "none"
  PROVE  /\ task[w] \in [phase: {"save", "job", "publish"}, id: Hook, st: {Pending} \cup Status]
         /\ task[w].id \in Hook /\ task[w].st \in {Pending} \cup Status
<1>1. task[w] \in Task
  BY DEF TypeOK
<1>2. task[w] # NoTask
  BY DEF NoTask
<1> QED
  BY <1>1, <1>2 DEF Task

\* The channels keep to events.
LEMMA OfferType ==
  ASSUME TypeOK, NEW b \in Browser, NEW e \in Event
  PROVE  Offer(b, e) \in Seq(Event)
<1>1. buf[b] \in Seq(Event)
  BY DEF TypeOK
<1> QED
  BY <1>1 DEF Offer

LEMMA DropType ==
  ASSUME TypeOK, NEW B, NEW lost \in SUBSET Hook, Drop(B, lost)
  PROVE  /\ stream' \in [Browser -> BOOLEAN] /\ buf' \in [Browser -> Seq(Event)]
         /\ stale' \in [Browser -> SUBSET Hook]
<1>1. stream' \in [Browser -> BOOLEAN]
  BY DEF TypeOK, Drop
<1>2. buf' \in [Browser -> Seq(Event)]
  <2>1. <<>> \in Seq(Event)
    OBVIOUS
  <2> QED
    BY <2>1 DEF TypeOK, Drop
<1>3. stale' \in [Browser -> SUBSET Hook]
  <2>1. ASSUME NEW b \in Browser PROVE {buf[b][i].id : i \in DOMAIN buf[b]} \subseteq Hook
    <3>1. buf[b] \in Seq(Event)
      BY DEF TypeOK
    <3>2. \A i \in DOMAIN buf[b] : buf[b][i] \in Event
      BY <3>1
    <3> QED
      BY <3>2 DEF Event
  <2>2. \A b \in Browser : stale[b] \cup lost \cup {buf[b][i].id : i \in DOMAIN buf[b]} \in SUBSET Hook
    BY <2>1 DEF TypeOK
  <2> QED
    BY <2>2 DEF TypeOK, Drop
<1> QED
  BY <1>1, <1>2, <1>3

\* received_at has a latest value.
LEMMA LatestRecv ==
  ASSUME TypeInv, NEW h \in Hook
  PROVE  /\ Max({recv[g] : g \in Hook}) \in Nat
         /\ \A g \in Hook : recv[g] <= Max({recv[f] : f \in Hook})
<1> DEFINE S == {recv[g] : g \in Hook}
<1>1. S \in SUBSET Nat /\ S # {}
  BY DEF TypeInv, TypeOK
<1>2. PICK n \in Nat : \A x \in S : x <= n
  BY DEF TypeInv, RecvInv
<1>3. Max(S) \in S /\ \A x \in S : x <= Max(S)
  <2> HIDE DEF S
  <2> QED
    BY <1>1, <1>2, HasMax
<1> QED
  BY <1>1, <1>3

\* A request that comes in gets its received_at, and no other does.
LEMMA ReceiveRecv ==
  ASSUME TypeInv, NEW h \in Hook, Receive(h)
  PROVE  recv[h] = 0 /\ recv'[h] # 0 /\ \A g \in Hook : g # h => recv'[g] = recv[g]
<1> DEFINE m == Max({recv[g] : g \in Hook})
<1>1. recv[h] = 0 /\ recv' = [recv EXCEPT ![h] = 1 + m]
  BY DEF Receive
<1>2. m \in Nat /\ recv \in [Hook -> Nat]
  BY LatestRecv DEF TypeInv, TypeOK
<1> HIDE DEF m
<1>3. recv'[h] = 1 + m /\ \A g \in Hook : g # h => recv'[g] = recv[g]
  BY <1>1, <1>2
<1> QED
  BY <1>1, <1>2, <1>3

\* Every step of the writers keeps the types.
LEMMA WriterType ==
  ASSUME TypeInv, WriterNext
  PROVE  TypeInv'
<1> USE DEF TypeInv
<1>1. ASSUME NEW h \in Hook, Receive(h) PROVE TypeInv'
  <2> USE <1>1 DEF Receive
  <2> DEFINE m == Max({recv[g] : g \in Hook})
  <2>1. m \in Nat /\ \A g \in Hook : recv[g] <= m
    BY LatestRecv
  <2> HIDE DEF m
  <2>2. recv' = [recv EXCEPT ![h] = 1 + m]
    BY DEF m
  <2>3. recv' \in [Hook -> Nat]
    BY <2>1, <2>2 DEF TypeOK
  <2>4. RecvInv'
    <3> HIDE DEF Receive
    <3>1. 1 + m \in Nat /\ \A g \in Hook : recv[g] \in Nat /\ recv[g] <= 1 + m
      BY <2>1 DEF TypeOK
    <3>2. \A g \in Hook : recv'[g] = IF g = h THEN 1 + m ELSE recv[g]
      BY <2>2 DEF TypeOK
    <3>3. \A g \in Hook : recv'[g] <= 1 + m
      BY <3>1, <3>2
    <3> QED
      BY <3>1, <3>3 DEF RecvInv
  <2>5. task' \in [Writer -> Task]
    <3>1. [phase |-> "save", id |-> h, st |-> Pending] \in Task
      BY DEF Task
    <3> QED
      BY <3>1 DEF TypeOK
  <2>6. UNCHANGED <<row, pc, filter, page, total, view, stream, buf, unseen, slip, stale>>
    BY DEF listing, live, walk
  <2> QED
    BY <2>3, <2>4, <2>5, <2>6 DEF TypeOK
<1>2. ASSUME NEW h \in Hook, SaveWebhook(h) PROVE TypeInv'
  <2>1. [row EXCEPT ![h] = Pending] \in [Hook -> Cell]
    BY DEF TypeOK, Cell
  <2>2. TypeOK' /\ UNCHANGED recv
    BY <1>2, <2>1, CommitType DEF SaveWebhook, Writer
  <2> QED
    BY <2>2 DEF RecvInv
<1>3. ASSUME NEW w \in Writer, NEW h \in Hook, GetWebhook(w, h) PROVE TypeInv'
  <2>1. task' \in [Writer -> Task]
    <3>1. [phase |-> "job", id |-> h, st |-> Pending] \in Task
      BY DEF Task
    <3> QED
      BY <1>3, <3>1 DEF GetWebhook, TypeOK
  <2>2. UNCHANGED <<table, listing, view, live, walk, stale>>
    BY <1>3 DEF GetWebhook
  <2> QED
    BY <2>1, <2>2 DEF TypeOK, RecvInv, table, listing, live, walk
<1>4. ASSUME NEW w \in Writer, NEW st \in Status, MarkDelivered(w, st) PROVE TypeInv'
  <2> DEFINE h == task[w].id
  <2>1. h \in Hook
    BY <1>4, TaskFields DEF MarkDelivered
  <2>2. [row EXCEPT ![h] = IF @ = Absent THEN Absent ELSE st] \in [Hook -> Cell]
    BY <2>1 DEF TypeOK, Cell
  <2>3. Commit(w, h, st, [row EXCEPT ![h] = IF @ = Absent THEN Absent ELSE st])
    BY <1>4 DEF MarkDelivered
  <2>4. TypeOK' /\ UNCHANGED recv
    <3> HIDE DEF h
    <3> QED
      BY <2>1, <2>2, <2>3, CommitType
  <2> QED
    BY <2>4 DEF RecvInv
<1>5. ASSUME NEW w \in Writer, GiveUp(w) PROVE TypeInv'
  <2>1. task' \in [Writer -> Task]
    BY <1>5 DEF GiveUp, TypeOK, Task
  <2>2. UNCHANGED <<table, listing, view, live, walk, stale>>
    BY <1>5 DEF GiveUp
  <2> QED
    BY <2>1, <2>2 DEF TypeOK, RecvInv, table, listing, live, walk
<1>6. ASSUME NEW w \in Writer, Publish(w) PROVE TypeInv'
  <2> DEFINE e == [id |-> task[w].id, st |-> task[w].st]
  <2>0. /\ task[w] \in [phase: {"save", "job", "publish"}, id: Hook, st: {Pending} \cup Status]
        /\ task[w].id \in Hook /\ e \in Event
    BY <1>6, TaskFields DEF Publish, Event
  <2>1. buf' \in [Browser -> Seq(Event)]
    <3>1. buf' = [b \in Browser |-> IF stream[b] THEN Offer(b, e) ELSE buf[b]]
      BY <1>6 DEF Publish
    <3>2. \A b \in Browser : Offer(b, e) \in Seq(Event) /\ buf[b] \in Seq(Event)
      <4> HIDE DEF e
      <4> QED
        BY <2>0, OfferType DEF TypeOK
    <3> QED
      BY <3>1, <3>2
  <2>2. stale' \in [Browser -> SUBSET Hook]
    BY <1>6, <2>0 DEF Publish, TypeOK
  <2>3. task' \in [Writer -> Task]
    <3>1. [task[w] EXCEPT !.phase = "job"] \in Task /\ NoTask \in Task
      BY <2>0 DEF Task
    <3> QED
      BY <1>6, <3>1 DEF Publish, TypeOK
  <2>4. UNCHANGED <<table, listing, view, stream, walk>>
    BY <1>6 DEF Publish
  <2> QED
    BY <2>1, <2>2, <2>3, <2>4 DEF TypeOK, RecvInv, table, listing, walk
<1>7. ASSUME NEW cutoff, Sweep(cutoff) PROVE TypeInv'
  <2>1. slip' \in [Browser -> Nat]
    BY <1>7, SlipsType DEF Sweep
  <2>2. row' \in [Hook -> {Absent, Pending} \cup Status]
    BY <1>7 DEF Sweep, TypeOK
  <2>3. UNCHANGED <<recv, task, listing, view, live, unseen, stale>>
    BY <1>7 DEF Sweep
  <2> QED
    BY <2>1, <2>2, <2>3 DEF TypeOK, RecvInv, listing, live
<1>8. CASE Restart
  <2>1. /\ stream' \in [Browser -> BOOLEAN] /\ buf' \in [Browser -> Seq(Event)]
        /\ stale' \in [Browser -> SUBSET Hook]
    BY <1>8, DropType DEF Restart
  <2>2. /\ pc' \in [Browser -> {"closed", "counted", "shown"}] /\ task' \in [Writer -> Task]
    BY <1>8 DEF Restart, TypeOK, Task
  <2>3. UNCHANGED <<table, filter, page, total, view, walk>>
    BY <1>8 DEF Restart
  <2> QED
    BY <2>1, <2>2, <2>3 DEF TypeOK, RecvInv, table, walk
<1> QED
  BY <1>1, <1>2, <1>3, <1>4, <1>5, <1>6, <1>7, <1>8 DEF WriterNext, Writer

\* Every step of a tab keeps the types.
LEMMA TabType ==
  ASSUME TypeInv, NEW b \in Browser, TabNext(b)
  PROVE  TypeInv'
<1> USE DEF TypeInv
<1>1. ASSUME NEW f \in Filter, NEW n \in Nat \ {0}, Count(b, f, n) PROVE TypeInv'
  <2>0. Cardinality(Listed(row, f)) \in Nat
    BY CountNat DEF Listed
  <2> USE <1>1 DEF Count
  <2>1. /\ pc' \in [Browser -> {"closed", "counted", "shown"}]
        /\ filter' \in [Browser -> Filter] /\ page' \in [Browser -> Nat \ {0}]
        /\ total' \in [Browser -> Nat]
    BY <2>0 DEF TypeOK
  <2>2. /\ view' \in [Browser -> [Hook -> {Absent, Pending} \cup Status]]
        /\ stream' \in [Browser -> BOOLEAN]
    BY DEF TypeOK
  <2>3. buf' \in [Browser -> Seq(Event)]
    <3>1. <<>> \in Seq(Event)
      OBVIOUS
    <3> QED
      BY <3>1 DEF TypeOK
  <2>4. /\ unseen' \in [Browser -> SUBSET Hook] /\ slip' \in [Browser -> Nat]
        /\ stale' \in [Browser -> SUBSET Hook]
    BY DEF TypeOK
  <2>5. UNCHANGED <<table, task>>
    OBVIOUS
  <2> HIDE DEF Count
  <2> QED
    BY <2>1, <2>2, <2>3, <2>4, <2>5 DEF TypeOK, RecvInv, table
<1>2. ASSUME NEW f \in Filter, Open(b, f) PROVE TypeInv'
  BY <1>1, <1>2 DEF Open
<1>3. CASE Follow(b)
  <2>1. filter[b] \in Filter /\ page[b] \in Nat \ {0}
    BY DEF TypeOK
  <2>2. page[b] + 1 \in Nat \ {0} /\ (HasPrev(b) => page[b] - 1 \in Nat \ {0})
    BY <2>1 DEF HasPrev
  <2> QED
    BY <1>1, <1>3, <2>1, <2>2 DEF Follow
<1>4. CASE Select(b)
  <2> DEFINE shown == Slice(Listed(row, filter[b]), Offset(page[b]))
  <2>1. Listed(row, filter[b]) \subseteq Hook
    BY DEF Listed
  <2>2. unseen' \in [Browser -> SUBSET Hook]
    BY <1>4, <2>1 DEF Select, TypeOK
  <2>3. view' \in [Browser -> [Hook -> {Absent, Pending} \cup Status]]
    <3>1. \A h \in Hook : row[h] \in {Absent, Pending} \cup Status
      BY DEF TypeOK
    <3>2. [h \in Hook |-> IF h \in shown THEN row[h] ELSE Absent]
            \in [Hook -> {Absent, Pending} \cup Status]
      BY <3>1
    <3> QED
      BY <1>4, <3>2 DEF Select, TypeOK
  <2>4. /\ pc' \in [Browser -> {"closed", "counted", "shown"}]
        /\ stale' \in [Browser -> SUBSET Hook]
    BY <1>4 DEF Select, TypeOK
  <2>5. UNCHANGED <<table, task, filter, page, total, live, slip>>
    BY <1>4 DEF Select
  <2> QED
    BY <2>2, <2>3, <2>4, <2>5 DEF TypeOK, RecvInv, table, live
<1>5. CASE LoadFails(b) \/ Subscribe(b)
  <2>1. /\ pc' \in [Browser -> {"closed", "counted", "shown"}] /\ stream' \in [Browser -> BOOLEAN]
        /\ UNCHANGED <<table, task, filter, page, total, view, buf, walk, stale>>
    BY <1>5 DEF LoadFails, Subscribe, TypeOK, listing, live
  <2> QED
    BY <2>1 DEF TypeOK, RecvInv, table, walk
<1>6. CASE StreamLost(b)
  <2>1. /\ stream' \in [Browser -> BOOLEAN] /\ buf' \in [Browser -> Seq(Event)]
        /\ stale' \in [Browser -> SUBSET Hook]
    BY <1>6, DropType DEF StreamLost
  <2>2. UNCHANGED <<table, task, listing, view, walk>>
    BY <1>6 DEF StreamLost
  <2> QED
    BY <2>1, <2>2 DEF TypeOK, RecvInv, table, listing, walk
<1>7. CASE ReceiveEvent(b)
  <2>1. buf[b] \in Seq(Event) /\ buf[b] # <<>>
    BY <1>7 DEF ReceiveEvent, TypeOK
  <2>2. Head(buf[b]) \in Event /\ Tail(buf[b]) \in Seq(Event)
    BY <2>1
  <2>3. buf' \in [Browser -> Seq(Event)]
    BY <1>7, <2>2 DEF ReceiveEvent, TypeOK
  <2>4. view' \in [Browser -> [Hook -> {Absent, Pending} \cup Status]]
    <3>1. view[b] \in [Hook -> {Absent, Pending} \cup Status]
      BY DEF TypeOK
    <3>2. UpsertRow(view[b], Head(buf[b])) \in [Hook -> {Absent, Pending} \cup Status]
      BY <2>2, <3>1 DEF UpsertRow, Event
    <3> QED
      BY <1>7, <3>2 DEF ReceiveEvent, TypeOK
  <2>5. UNCHANGED <<table, task, listing, stream, walk, stale>>
    BY <1>7 DEF ReceiveEvent
  <2> QED
    BY <2>3, <2>4, <2>5 DEF TypeOK, RecvInv, table, listing, walk
<1> QED
  BY <1>2, <1>3, <1>4, <1>5, <1>6, <1>7 DEF TabNext

----------------------------------------------------------------------------
(* No event runs ahead of its commit: the steps. *)

\* What was backed stays so, as long as no saved request is saved again, or becomes
\* pending again.
LEMMA BackedStays ==
  ASSUME \A h \in Hook : Saved(h) => Saved(h)' /\ (row'[h] = Pending => row[h] = Pending)
  PROVE  \A h \in Hook : \A st : Backed(h, st) => Backed(h, st)'
BY DEF Backed

\* A step that keeps what is backed, and gives tabs nothing new.
LEMMA TabFrame ==
  ASSUME TypeOK, TabInv, \A h \in Hook : \A st : Backed(h, st) => Backed(h, st)', UNCHANGED <<buf, view>>
  PROVE  TabInv'
<1> SUFFICES ASSUME NEW b \in Browser
             PROVE  /\ \A i \in DOMAIN buf[b] : Backed(buf[b][i].id, buf[b][i].st)'
                    /\ \A h \in Hook : view[b][h] # Absent => Backed(h, view[b][h])'
  BY DEF TabInv
<1>1. \A i \in DOMAIN buf[b] : buf[b][i].id \in Hook
  <2>1. buf[b] \in Seq(Event)
    BY DEF TypeOK
  <2>2. \A i \in DOMAIN buf[b] : buf[b][i] \in Event
    BY <2>1
  <2> QED
    BY <2>2 DEF Event
<1>2. ASSUME NEW i \in DOMAIN buf[b] PROVE Backed(buf[b][i].id, buf[b][i].st)'
  BY <1>1 DEF TabInv
<1>3. ASSUME NEW h \in Hook, view[b][h] # Absent PROVE Backed(h, view[b][h])'
  BY <1>3 DEF TabInv
<1> QED
  BY <1>2, <1>3

\* One writer takes up task x.
LEMMA TaskStep ==
  ASSUME TypeOK, TaskInv,
         \A h \in Hook : Saved(h) => Saved(h)' /\ (row'[h] = Pending => row[h] = Pending),
         \A h \in Hook : recv[h] # 0 => recv'[h] # 0,
         NEW w \in Writer, NEW x, task' = [task EXCEPT ![w] = x],
         x.phase = "save" => w \in Hook /\ x.id = w /\ recv'[w] # 0,
         x.phase = "job" => Saved(x.id)',
         x.phase = "publish" => Backed(x.id, x.st)'
  PROVE  TaskInv'
<1>1. \A v \in Writer : task'[v] = IF v = w THEN x ELSE task[v]
  BY DEF TypeOK
<1>2. \A h \in Hook : \A st : Backed(h, st) => Backed(h, st)'
  BY BackedStays
<1> SUFFICES ASSUME NEW v \in Writer
             PROVE  /\ task'[v].phase = "save" => v \in Hook /\ task'[v].id = v /\ recv'[v] # 0
                    /\ task'[v].phase = "job" => Saved(task[v].id)'
                    /\ task'[v].phase = "publish" => Backed(task[v].id, task[v].st)'
  BY DEF TaskInv
<1>3. CASE v = w
  <2>1. task'[v] = x
    BY <1>1, <1>3
  <2> QED
    BY <1>3, <2>1 DEF Saved, Backed
<1>4. CASE v # w
  <2>1. task'[v] = task[v]
    BY <1>1, <1>4
  <2>2. task[v].phase # "none" => task[v].id \in Hook
    BY TaskFields
  <2>3. task[v].phase = "save" => v \in Hook /\ task[v].id = v /\ recv'[v] # 0
    BY DEF TaskInv
  <2>4. task[v].phase = "job" => Saved(task[v].id)'
    BY <2>1, <2>2 DEF TaskInv, Saved
  <2>5. task[v].phase = "publish" => Backed(task[v].id, task[v].st)'
    BY <2>1, <2>2, <1>2 DEF TaskInv, Saved, Backed
  <2> QED
    BY <2>1, <2>3, <2>4, <2>5
<1> QED
  BY <1>3, <1>4

\* A commit on h is backed by itself.
LEMMA CommitBacked ==
  ASSUME TypeOK, BackInv, NEW w \in Writer, NEW h \in Hook, NEW st \in {Pending} \cup Status, NEW t,
         Commit(w, h, st, t), task[w].phase # "none",
         \A g \in Hook : g # h => t[g] = row[g],
         st \in Status => t[h] # Pending, Saved(h) => t[h] # Pending,
         w = h \/ Saved(h), recv[h] # 0
  PROVE  BackInv'
<1> DEFINE x == [phase |-> "publish", id |-> h, st |-> st]
<1>0. TaskInv /\ TabInv /\ RowInv
  BY DEF BackInv
<1>1. row' = t /\ task' = [task EXCEPT ![w] = x] /\ UNCHANGED <<recv, buf, view>>
  BY DEF Commit, live
<1>2. \A v \in Writer : task'[v] = IF v = w THEN x ELSE task[v]
  BY <1>1 DEF TypeOK
<1>3. Saved(h)'
  BY <1>1, <1>2 DEF Saved, Writer
<1>4. \A g \in Hook : Saved(g) => Saved(g)' /\ (row'[g] = Pending => row[g] = Pending)
  BY <1>1, <1>2, <1>3 DEF Saved, Writer
<1>5. \A g \in Hook : \A s : Backed(g, s) => Backed(g, s)'
  BY <1>4, BackedStays
<1>6. TabInv'
  BY <1>0, <1>1, <1>5, TabFrame
<1>7. Backed(h, st)'
  BY <1>1, <1>3 DEF Backed
<1>8. TaskInv'
  <2>1. x.phase = "publish" /\ x.id = h /\ x.st = st
    OBVIOUS
  <2>2. Backed(x.id, x.st)'
    BY <1>7
  <2> HIDE DEF x
  <2> QED
    BY <1>0, <1>1, <1>4, <2>1, <2>2, TaskStep
<1>9. RowInv'
  BY <1>0, <1>1, <1>3, <1>4 DEF RowInv
<1> QED
  BY <1>6, <1>8, <1>9 DEF BackInv

\* Every step of the writers keeps BackInv.
LEMMA WriterBack ==
  ASSUME TypeInv, BackInv, WriterNext
  PROVE  BackInv'
<1> USE DEF TypeInv
<1>0. TaskInv /\ TabInv /\ RowInv
  BY DEF BackInv
<1>a. Pending \notin Status /\ Absent # Pending
  BY StatusNotPending
<1>b. Hook \subseteq Writer
  BY DEF Writer
<1>1. ASSUME NEW h \in Hook, Receive(h) PROVE BackInv'
  <2> DEFINE x == [phase |-> "save", id |-> h, st |-> Pending]
  <2>1. task' = [task EXCEPT ![h] = x] /\ UNCHANGED <<row, buf, view>>
    BY <1>1 DEF Receive, live
  <2>2. recv[h] = 0 /\ recv'[h] # 0 /\ \A g \in Hook : g # h => recv'[g] = recv[g]
    BY <1>1, ReceiveRecv
  <2>3. \A v \in Writer : task'[v] = IF v = h THEN x ELSE task[v]
    BY <2>1 DEF TypeOK
  <2>4. \A g \in Hook : Saved(g) => Saved(g)' /\ (row'[g] = Pending => row[g] = Pending)
    BY <1>b, <2>1, <2>2, <2>3 DEF Saved
  <2>5. TabInv'
    BY <1>0, <2>1, <2>4, BackedStays, TabFrame
  <2>6. TaskInv'
    <3>1. x.phase = "save" /\ x.id = h
      OBVIOUS
    <3> HIDE DEF x
    <3> QED
      BY <1>0, <1>b, <2>1, <2>2, <2>4, <3>1, TaskStep
  <2>7. RowInv'
    BY <1>0, <2>1, <2>4 DEF RowInv
  <2> QED
    BY <2>5, <2>6, <2>7 DEF BackInv
<1>2. ASSUME NEW h \in Hook, SaveWebhook(h) PROVE BackInv'
  <2> DEFINE t == [row EXCEPT ![h] = Pending]
  <2>1. /\ task[h].phase = "save" /\ recv[h] # 0 /\ ~Saved(h)
        /\ Commit(h, h, Pending, t)
    BY <1>0, <1>2, <1>b DEF SaveWebhook, TaskInv, Saved
  <2>2. \A g \in Hook : g # h => t[g] = row[g]
    BY DEF TypeOK
  <2> HIDE DEF t
  <2> QED
    BY <1>a, <1>b, <2>1, <2>2, CommitBacked
<1>3. ASSUME NEW w \in Writer, NEW h \in Hook, GetWebhook(w, h) PROVE BackInv'
  <2> DEFINE x == [phase |-> "job", id |-> h, st |-> Pending]
  <2>1. task' = [task EXCEPT ![w] = x] /\ UNCHANGED <<row, recv, buf, view>> /\ Saved(h)
    BY <1>0, <1>3 DEF GetWebhook, live, table, RowInv
  <2>2. \A v \in Writer : task'[v] = IF v = w THEN x ELSE task[v]
    BY <2>1 DEF TypeOK
  <2>3. \A g \in Hook : Saved(g) => Saved(g)' /\ (row'[g] = Pending => row[g] = Pending)
    BY <1>b, <2>1, <2>2 DEF Saved
  <2>4. TabInv'
    BY <1>0, <2>1, <2>3, BackedStays, TabFrame
  <2>5. TaskInv'
    <3>1. x.phase = "job" /\ Saved(x.id)'
      BY <2>1, <2>3
    <3> HIDE DEF x
    <3> QED
      BY <1>0, <2>1, <2>3, <3>1, TaskStep
  <2>6. RowInv'
    BY <1>0, <2>1, <2>3 DEF RowInv
  <2> QED
    BY <2>4, <2>5, <2>6 DEF BackInv
<1>4. ASSUME NEW w \in Writer, NEW st \in Status, MarkDelivered(w, st) PROVE BackInv'
  <2> DEFINE h == task[w].id
             t == [row EXCEPT ![h] = IF @ = Absent THEN Absent ELSE st]
  <2>1. h \in Hook /\ task[w].phase = "job" /\ Saved(h) /\ recv[h] # 0
    BY <1>0, <1>4, TaskFields DEF MarkDelivered, TaskInv, Saved
  <2>2. t[h] # Pending /\ \A g \in Hook : g # h => t[g] = row[g]
    BY <1>a, <2>1 DEF TypeOK
  <2>3. Commit(w, h, st, t)
    BY <1>4 DEF MarkDelivered
  <2> HIDE DEF h, t
  <2> QED
    BY <2>1, <2>2, <2>3, CommitBacked
<1>5. ASSUME NEW w \in Writer, GiveUp(w) PROVE BackInv'
  <2>1. task' = [task EXCEPT ![w] = NoTask] /\ UNCHANGED <<row, recv, buf, view>>
    BY <1>5 DEF GiveUp, live, table
  <2>2. \A v \in Writer : task'[v] = IF v = w THEN NoTask ELSE task[v]
    BY <2>1 DEF TypeOK
  <2>3. NoTask.phase = "none"
    BY DEF NoTask
  <2>4. \A g \in Hook : Saved(g) => Saved(g)' /\ (row'[g] = Pending => row[g] = Pending)
    BY <1>b, <2>1, <2>2, <2>3 DEF Saved
  <2>5. TabInv'
    BY <1>0, <2>1, <2>4, BackedStays, TabFrame
  <2>6. TaskInv'
    BY <1>0, <2>1, <2>3, <2>4, TaskStep
  <2>7. RowInv'
    BY <1>0, <2>1, <2>4 DEF RowInv
  <2> QED
    BY <2>5, <2>6, <2>7 DEF BackInv
<1>6. ASSUME NEW w \in Writer, Publish(w) PROVE BackInv'
  <2> DEFINE h == task[w].id
             e == [id |-> h, st |-> task[w].st]
             after == IF w \in Hook /\ task[w].st = Pending
                      THEN [task[w] EXCEPT !.phase = "job"] ELSE NoTask
  <2>0. PICK x : x = after
    OBVIOUS
  <2>1. /\ h \in Hook /\ Saved(h) /\ Backed(h, task[w].st)
    BY <1>0, <1>6, TaskFields DEF Publish, TaskInv, Backed
  <2>2. task' = [task EXCEPT ![w] = x] /\ UNCHANGED <<row, recv, view>>
    BY <1>6, <2>0 DEF Publish, table
  <2>3. x = NoTask \/ (x.phase = "job" /\ x.id = h)
    BY <1>6, <2>0, TaskFields DEF Publish
  <2>4. buf' = [b \in Browser |-> IF stream[b] THEN Offer(b, e) ELSE buf[b]]
    BY <1>6 DEF Publish
  <2>5. \A v \in Writer : task'[v] = IF v = w THEN x ELSE task[v]
    BY <2>2 DEF TypeOK
  <2>6. x.phase \in {"none", "job"}
    BY <2>3 DEF NoTask
  <2>7. \A g \in Hook : Saved(g) => Saved(g)' /\ (row'[g] = Pending => row[g] = Pending)
    BY <1>b, <2>2, <2>5, <2>6 DEF Saved
  <2>8. \A g \in Hook : \A s : Backed(g, s) => Backed(g, s)'
    BY <2>7, BackedStays
  <2>9. TaskInv'
    <3>1. x.phase = "job" => Saved(x.id)'
      BY <2>1, <2>3, <2>7 DEF NoTask, Saved
    <3> QED
      BY <1>0, <2>2, <2>6, <2>7, <3>1, TaskStep
  <2>10. RowInv'
    BY <1>0, <2>2, <2>7 DEF RowInv
  <2>11. TabInv'
    <3> SUFFICES ASSUME NEW b \in Browser
                 PROVE  /\ \A i \in DOMAIN buf'[b] : Backed(buf[b][i].id, buf[b][i].st)'
                        /\ \A g \in Hook : view'[b][g] # Absent => Backed(g, view[b][g])'
      BY DEF TabInv
    <3>1. \A g \in Hook : view'[b][g] # Absent => Backed(g, view[b][g])'
      BY <1>0, <2>2, <2>8 DEF TabInv, Backed, Saved
    <3>2. buf[b] \in Seq(Event) /\ \A i \in DOMAIN buf[b] : buf[b][i] \in Event
      BY DEF TypeOK
    <3>3. ASSUME NEW i \in DOMAIN buf'[b] PROVE Backed(buf[b][i].id, buf[b][i].st)'
      <4>1. buf'[b][i] = e \/ (i \in DOMAIN buf[b] /\ buf'[b][i] = buf[b][i])
        BY <2>4, <3>2 DEF Offer
      <4>2. CASE buf'[b][i] = e
        BY <2>1, <2>8, <4>2 DEF Backed, Saved
      <4>3. CASE i \in DOMAIN buf[b] /\ buf'[b][i] = buf[b][i]
        <5>1. Backed(buf[b][i].id, buf[b][i].st) /\ buf[b][i].id \in Hook
          BY <1>0, <3>2, <4>3 DEF TabInv, Event
        <5> QED
          BY <2>8, <4>3, <5>1 DEF Backed, Saved
      <4> QED
        BY <4>1, <4>2, <4>3
    <3> QED
      BY <3>1, <3>3
  <2> QED
    BY <2>9, <2>10, <2>11 DEF BackInv
<1>7. ASSUME NEW cutoff, Sweep(cutoff) PROVE BackInv'
  <2>1. /\ UNCHANGED <<task, recv, buf, view>>
        /\ \A h \in Hook : row'[h] = Absent \/ row'[h] = row[h]
    BY <1>7 DEF Sweep, live
  <2>2. \A g \in Hook : Saved(g) => Saved(g)' /\ (row'[g] = Pending => row[g] = Pending)
    BY <1>a, <2>1 DEF Saved
  <2>3. \A g \in Hook : \A s : Backed(g, s) => Backed(g, s)'
    BY <2>2, BackedStays
  <2>4. TabInv'
    BY <1>0, <2>1, <2>3, TabFrame
  <2>5. TaskInv'
    <3>1. \A v \in Writer : task[v].phase # "none" => task[v].id \in Hook
      BY TaskFields
    <3> QED
      BY <1>0, <2>1, <2>2, <2>3, <3>1 DEF TaskInv, Backed, Saved
  <2>6. RowInv'
    BY <1>0, <2>1, <2>2 DEF RowInv
  <2> QED
    BY <2>4, <2>5, <2>6 DEF BackInv
<1>8. CASE Restart
  <2>1. /\ \A w \in Writer : task'[w] = NoTask
        /\ \A b \in Browser : buf'[b] = <<>>
        /\ UNCHANGED <<row, recv, view>>
    BY <1>8 DEF Restart, Drop, table
  <2>2. NoTask.phase = "none"
    BY DEF NoTask
  <2>3. \A g \in Hook : Saved(g) => Saved(g)' /\ (row'[g] = Pending => row[g] = Pending)
    BY <1>b, <2>1, <2>2 DEF Saved
  <2>4. \A g \in Hook : \A s : Backed(g, s) => Backed(g, s)'
    BY <2>3, BackedStays
  <2>5. TabInv'
    BY <1>0, <2>1, <2>4 DEF TabInv, Backed, Saved
  <2>6. TaskInv'
    BY <2>1, <2>2 DEF TaskInv
  <2>7. RowInv'
    BY <1>0, <2>1, <2>3 DEF RowInv
  <2> QED
    BY <2>5, <2>6, <2>7 DEF BackInv
<1> QED
  BY <1>1, <1>2, <1>3, <1>4, <1>5, <1>6, <1>7, <1>8 DEF WriterNext, Writer

\* Every step of a tab keeps BackInv: it brings only events on their way, and rows.
LEMMA TabBack ==
  ASSUME TypeOK, BackInv, NEW b \in Browser, TabNext(b)
  PROVE  BackInv'
<1>0. TaskInv /\ TabInv /\ RowInv
  BY DEF BackInv
<1>1. UNCHANGED <<row, recv, task>>
  BY DEF TabNext, Open, Follow, Count, Select, LoadFails, Subscribe, StreamLost, ReceiveEvent, table
<1>2. TaskInv' /\ RowInv'
  BY <1>0, <1>1 DEF TaskInv, RowInv, Backed, Saved
<1>3. \A h, st : Backed(h, st) <=> (recv'[h] # 0 /\ task'[h].phase # "save"
                                    /\ (st \in Status => row'[h] # Pending))
  BY <1>1 DEF Backed, Saved
<1>4. /\ \A c \in Browser \ {b} : buf'[c] = buf[c] /\ view'[c] = view[c]
      /\ \A i \in DOMAIN buf'[b] : \E j \in DOMAIN buf[b] : buf'[b][i] = buf[b][j]
      /\ \A h \in Hook : view'[b][h] # Absent => Backed(h, view'[b][h])
  <2>1. CASE \E f, n : Count(b, f, n)
    <3>1. buf' = [buf EXCEPT ![b] = <<>>] /\ view' = [view EXCEPT ![b] = [h \in Hook |-> Absent]]
      BY <2>1 DEF Count
    <3>2. buf'[b] = <<>> /\ \A h \in Hook : view'[b][h] = Absent
      BY <3>1 DEF TypeOK
    <3> QED
      BY <3>1, <3>2 DEF TypeOK
  <2>2. CASE Select(b)
    <3>1. /\ UNCHANGED buf
          /\ \A h \in Hook : view'[b][h] = Absent \/ view'[b][h] = row[h]
          /\ \A c \in Browser \ {b} : view'[c] = view[c]
      BY <2>2 DEF Select, TypeOK, live
    <3>2. ASSUME NEW h \in Hook, view'[b][h] # Absent PROVE Backed(h, view'[b][h])
      BY <1>0, <3>1, <3>2, StatusNotPending DEF RowInv, Backed
    <3> QED
      BY <3>1, <3>2
  <2>3. CASE LoadFails(b) \/ Subscribe(b)
    BY <1>0, <2>3 DEF LoadFails, Subscribe, TabInv, live
  <2>4. CASE StreamLost(b)
    <3>1. UNCHANGED view /\ buf' = [c \in Browser |-> IF c = b THEN <<>> ELSE buf[c]]
      BY <2>4 DEF StreamLost, Drop
    <3>2. buf'[b] = <<>>
      BY <3>1
    <3> QED
      BY <1>0, <3>1, <3>2 DEF TabInv
  <2>5. CASE ReceiveEvent(b)
    <3> DEFINE e == Head(buf[b])
    <3>1. buf[b] \in Seq(Event) /\ buf[b] # <<>>
      BY <2>5 DEF ReceiveEvent, TypeOK
    <3>2. e \in Event /\ e = buf[b][1] /\ 1 \in DOMAIN buf[b]
      BY <3>1
    <3>3. /\ view' = [view EXCEPT ![b] = UpsertRow(view[b], e)]
          /\ buf' = [buf EXCEPT ![b] = Tail(buf[b])]
      BY <2>5 DEF ReceiveEvent
    <3>4. buf'[b] = Tail(buf[b])
      BY <3>3 DEF TypeOK
    <3>5. \A i \in DOMAIN buf'[b] : i + 1 \in DOMAIN buf[b] /\ buf'[b][i] = buf[b][i + 1]
      BY <3>1, <3>4
    <3>6. e.id \in Hook /\ Backed(e.id, e.st)
      <4>1. e.id \in Hook
        BY <3>2 DEF Event
      <4>2. Backed(buf[b][1].id, buf[b][1].st)
        BY <1>0, <3>2 DEF TabInv
      <4> QED
        BY <3>2, <4>1, <4>2
    <3> HIDE DEF e
    <3>7. \A h \in Hook : view'[b][h] = IF h = e.id THEN e.st ELSE view[b][h]
      <4>1. view[b] \in [Hook -> Cell] /\ view'[b] = UpsertRow(view[b], e)
        BY <3>3 DEF TypeOK, Cell
      <4> QED
        BY <4>1 DEF UpsertRow
    <3>8. \A h \in Hook : view'[b][h] # Absent => Backed(h, view'[b][h])
      BY <1>0, <3>6, <3>7 DEF TabInv
    <3>9. \A c \in Browser \ {b} : buf'[c] = buf[c] /\ view'[c] = view[c]
      BY <3>3 DEF TypeOK
    <3> QED
      BY <3>5, <3>8, <3>9
  <2> QED
    BY <2>1, <2>2, <2>3, <2>4, <2>5 DEF TabNext, Open, Follow
<1>5. TabInv'
  <2> SUFFICES ASSUME NEW c \in Browser
               PROVE  /\ \A i \in DOMAIN buf'[c] : Backed(buf'[c][i].id, buf'[c][i].st)
                      /\ \A h \in Hook : view'[c][h] # Absent => Backed(h, view'[c][h])
    BY <1>3 DEF TabInv, Backed, Saved
  <2>1. CASE c = b
    BY <1>0, <1>4, <2>1 DEF TabInv
  <2>2. CASE c # b
    <3>1. buf'[c] = buf[c] /\ view'[c] = view[c]
      BY <1>4, <2>2
    <3> QED
      BY <1>0, <3>1 DEF TabInv
  <2> QED
    BY <2>1, <2>2
<1> QED
  BY <1>2, <1>5 DEF BackInv

----------------------------------------------------------------------------
(* The theorems on types and on what is shown as delivered. *)

\* The types hold initially, and no event is ahead.
LEMMA InitType == Init => TypeInv /\ BackInv
<1> SUFFICES ASSUME Init PROVE TypeInv /\ BackInv
  OBVIOUS
<1>1. Cardinality(Old) \in Nat /\ Old \subseteq Hook
  BY CountNat, DashboardAssumption
<1>2. /\ row \in [Hook -> Cell] /\ \A h \in Hook : h \in Old <=> row[h] # Absent
      /\ recv \in [Hook -> 0..Cardinality(Old)] /\ \A h \in Hook : h \in Old <=> recv[h] # 0
  BY DEF Init, Cell
<1>3. recv \in [Hook -> Nat] /\ RecvInv
  BY <1>1, <1>2 DEF RecvInv
<1>4. task \in [Writer -> Task] /\ \A w \in Writer : task[w].phase = "none"
  BY DEF Init, Task, NoTask
<1>5. /\ buf \in [Browser -> Seq(Event)] /\ \A b \in Browser : buf[b] = <<>>
  <2>1. <<>> \in Seq(Event)
    OBVIOUS
  <2> QED
    BY <2>1 DEF Init
<1>6. "all" \in Filter
  BY DashboardAssumption
<1>7. TypeOK
  <2>1. /\ pc \in [Browser -> {"closed", "counted", "shown"}] /\ filter \in [Browser -> Filter]
        /\ page \in [Browser -> Nat \ {0}] /\ total \in [Browser -> Nat]
    <3>1. /\ pc = [b \in Browser |-> "closed"] /\ filter = [b \in Browser |-> "all"]
          /\ page = [b \in Browser |-> 1] /\ total = [b \in Browser |-> 0]
      BY DEF Init
    <3> QED
      BY <1>6, <3>1
  <2>2. /\ view \in [Browser -> [Hook -> {Absent, Pending} \cup Status]]
        /\ stream \in [Browser -> BOOLEAN]
        /\ unseen \in [Browser -> SUBSET Hook] /\ slip \in [Browser -> Nat]
        /\ stale \in [Browser -> SUBSET Hook]
    BY DEF Init
  <2> QED
    BY <1>2, <1>3, <1>4, <1>5, <2>1, <2>2 DEF TypeOK, Cell
<1>8. TaskInv
  BY <1>4 DEF TaskInv
<1>9. TabInv
  <2>1. \A b \in Browser, h \in Hook : view[b][h] = Absent
    BY DEF Init
  <2>2. \A b \in Browser : DOMAIN buf[b] = {}
    BY <1>5
  <2> QED
    BY <2>1, <2>2 DEF TabInv
<1>10. RowInv
  BY <1>2, <1>4 DEF RowInv, Saved, Writer
<1> QED
  BY <1>3, <1>7, <1>8, <1>9, <1>10 DEF TypeInv, BackInv

\* Every step keeps them.
LEMMA NextType == TypeInv /\ [Next]_vars => TypeInv'
<1> SUFFICES ASSUME TypeInv, [Next]_vars PROVE TypeInv'
  OBVIOUS
<1>1. CASE UNCHANGED vars
  BY <1>1 DEF TypeInv, TypeOK, RecvInv, vars, table, listing, live, walk
<1> QED
  BY <1>1, WriterType, TabType DEF Next

LEMMA NextBack == TypeInv /\ BackInv /\ [Next]_vars => BackInv'
<1> SUFFICES ASSUME TypeInv, BackInv, [Next]_vars PROVE BackInv'
  OBVIOUS
<1>1. CASE UNCHANGED vars
  BY <1>1 DEF BackInv, TaskInv, TabInv, RowInv, Backed, Saved, vars, table, live
<1>2. TypeOK
  BY DEF TypeInv
<1> QED
  BY <1>1, <1>2, WriterBack, TabBack DEF Next

\* The types and the order of commits and events hold in every reachable state.
THEOREM Invariance == Spec => [](TypeInv /\ BackInv)
<1>1. TypeInv /\ BackInv /\ [Next]_vars => TypeInv' /\ BackInv'
  BY NextType, NextBack
<1> QED
  BY <1>1, InitType, PTL DEF Spec

\* Every variable keeps its type, whatever the writers, the sweep, the broker and the
\* tabs do.
THEOREM TypeCorrect == Spec => []TypeOK
<1>1. TypeInv => TypeOK
  BY DEF TypeInv
<1> QED
  BY <1>1, Invariance, PTL

\* No page shows a webhook as delivered before MarkDelivered has committed: events
\* are published after the commit, and no later write makes the row pending again.
THEOREM NeverAhead == Spec => []ShownDeliveredIsDelivered
<1>1. BackInv => ShownDeliveredIsDelivered
  BY StatusNotPending DEF BackInv, TabInv, Backed, ShownDeliveredIsDelivered
<1> QED
  BY <1>1, Invariance, PTL

----------------------------------------------------------------------------
(* A live page catches up: the steps. *)

\* A step that does not concern row h on its way to tab b.
LEMMA CurrentFrame ==
  ASSUME NEW b \in Browser, NEW h \in Hook, Current(b, h),
         Live(b)' => Live(b), row'[h] # Absent => row'[h] = row[h],
         h \notin stale'[b] => h \notin stale[b],
         Unpublished(h)' = Unpublished(h), \A w \in Unpublished(h) : task'[w].st = task[w].st,
         buf'[b] = buf[b], view'[b][h] = view[b][h], unseen'[b] = unseen[b]
  PROVE  Current(b, h)'
<1> SUFFICES ASSUME Live(b)', row'[h] # Absent, h \notin stale'[b]
             PROVE  /\ \A w \in Unpublished(h)' : task'[w].st = row'[h]
                    /\ Unpublished(h)' = {} =>
                         \A i \in DOMAIN buf'[b] : Last(b, h, i)' => buf'[b][i].st = row'[h]
                    /\ Settled(b, h)' => \/ view'[b][h] = row'[h]
                                         \/ view'[b][h] = Absent /\ h \in unseen'[b]
  BY DEF Current
<1>1. \A i : Last(b, h, i)' <=> Last(b, h, i)
  BY DEF Last
<1>2. Settled(b, h)' <=> Settled(b, h)
  BY DEF Settled
<1>3. row'[h] = row[h] /\ Live(b) /\ row[h] # Absent /\ h \notin stale[b]
  OBVIOUS
<1> QED
  BY <1>1, <1>2, <1>3 DEF Current

\* The channel of b is gone, with what was in it; events still to be published are
\* as they were, or there were none.
LEMMA CurrentDrop ==
  ASSUME NEW b \in Browser, NEW h \in Hook, Current(b, h),
         Live(b)' => Live(b), row'[h] = row[h],
         Live(b) /\ h \notin stale'[b] =>
           h \notin stale[b] /\ \A i \in DOMAIN buf[b] : buf[b][i].id # h,
         \/ Unpublished(h)' = Unpublished(h) /\ \A w \in Unpublished(h) : task'[w].st = task[w].st
         \/ Unpublished(h)' = {} /\ (Live(b) /\ h \notin stale'[b] => Unpublished(h) = {}),
         buf'[b] = <<>>, view'[b][h] = view[b][h], unseen'[b] = unseen[b]
  PROVE  Current(b, h)'
<1> SUFFICES ASSUME Live(b)', row'[h] # Absent, h \notin stale'[b]
             PROVE  /\ \A w \in Unpublished(h)' : task'[w].st = row'[h]
                    /\ Unpublished(h)' = {} =>
                         \A i \in DOMAIN buf'[b] : Last(b, h, i)' => buf'[b][i].st = row'[h]
                    /\ Settled(b, h)' => \/ view'[b][h] = row'[h]
                                         \/ view'[b][h] = Absent /\ h \in unseen'[b]
  BY DEF Current
<1>1. Live(b) /\ row[h] # Absent /\ h \notin stale[b]
  OBVIOUS
<1>2. DOMAIN buf'[b] = {}
  OBVIOUS
<1>3. Settled(b, h)' => Settled(b, h)
  BY DEF Settled
<1> QED
  BY <1>1, <1>2, <1>3 DEF Current

\* Who has still to publish, after a step of one writer.
LEMMA UnpublishedStep ==
  ASSUME TypeOK, NEW w \in Writer, NEW x, task' = [task EXCEPT ![w] = x],
         task[w].phase # "publish"
  PROVE  \A h \in Hook :
           /\ Unpublished(h)' = IF x.phase = "publish" /\ x.id = h
                                THEN Unpublished(h) \cup {w} ELSE Unpublished(h)
           /\ \A v \in Unpublished(h) : task'[v] = task[v]
<1>1. \A v \in Writer : task'[v] = IF v = w THEN x ELSE task[v]
  BY DEF TypeOK
<1> QED
  BY <1>1 DEF Unpublished

\* A step that leaves the tabs alone, and publishes and commits nothing.
LEMMA QuietStep ==
  ASSUME CurrentInv, UNCHANGED <<listing, view, live, unseen, stale>>,
         \A h \in Hook : row'[h] = Absent \/ row'[h] = row[h],
         \A h \in Hook : /\ Unpublished(h)' = Unpublished(h)
                         /\ \A v \in Unpublished(h) : task'[v] = task[v]
  PROVE  StreamInv' /\ \A b \in Browser, h \in Hook : Current(b, h)'
<1>1. StreamInv'
  BY DEF CurrentInv, StreamInv, Live, LiveEnabled, listing, live
<1>2. ASSUME NEW b \in Browser, NEW h \in Hook PROVE Current(b, h)'
  <2>1. Live(b)' <=> Live(b)
    BY DEF Live, LiveEnabled, listing
  <2>2. Current(b, h)
    BY DEF CurrentInv
  <2> QED
    BY <2>1, <2>2, CurrentFrame DEF live
<1> QED
  BY <1>1, <1>2

\* A commit is the only change of its row that has still to be published, or the row
\* is stale.
LEMMA CommitCurrent ==
  ASSUME TypeOK, CurrentInv, NEW w \in Writer, NEW h \in Hook, NEW st, NEW t,
         Commit(w, h, st, t), task[w].phase \notin {"none", "publish"},
         \A g \in Hook : g # h => t[g] = row[g], t[h] \in {Absent, st}
  PROVE  StreamInv' /\ \A b \in Browser, g \in Hook : Current(b, g)'
<1> DEFINE x == [phase |-> "publish", id |-> h, st |-> st]
<1>0. /\ row' = t /\ task' = [task EXCEPT ![w] = x]
      /\ UNCHANGED <<listing, view, stream, buf, unseen>>
  BY DEF Commit, live
<1>1. x.phase = "publish" /\ x.id = h /\ x.st = st
  OBVIOUS
<1>2. task'[w] = x
  BY <1>0 DEF TypeOK
<1> HIDE DEF x
<1>3. \A g \in Hook : /\ Unpublished(g)' = IF g = h THEN Unpublished(g) \cup {w} ELSE Unpublished(g)
                      /\ \A v \in Unpublished(g) : task'[v] = task[v]
  <2>1. task[w].phase # "publish"
    OBVIOUS
  <2>2. \A g \in Hook : /\ Unpublished(g)' = IF x.phase = "publish" /\ x.id = g
                                            THEN Unpublished(g) \cup {w} ELSE Unpublished(g)
                        /\ \A v \in Unpublished(g) : task'[v] = task[v]
    BY <1>0, <2>1, UnpublishedStep, Zenon
  <2> QED
    BY <1>1, <2>2
<1>4. \A b \in Browser : Live(b)' <=> Live(b)
  BY <1>0 DEF Live, LiveEnabled, listing
<1>5. StreamInv'
  BY <1>0, <1>4 DEF CurrentInv, StreamInv
<1>6. ASSUME NEW b \in Browser, NEW g \in Hook PROVE Current(b, g)'
  <2>1. Current(b, g)
    BY DEF CurrentInv
  <2>2. stale'[b] = IF Live(b) /\ Unpublished(h) # {} THEN stale[b] \cup {h} ELSE stale[b] \ {h}
    BY DEF Commit
  <2>3. CASE g # h
    BY <1>0, <1>3, <1>4, <2>1, <2>2, <2>3, CurrentFrame
  <2>4. CASE g = h
    <3> SUFFICES ASSUME Live(b)', row'[h] # Absent, h \notin stale'[b]
                 PROVE  /\ \A v \in Unpublished(h)' : task'[v].st = row'[h]
                        /\ Unpublished(h)' # {}
      BY <2>4 DEF Current, Settled
    <3>1. Unpublished(h) = {}
      BY <1>4, <2>2
    <3>2. Unpublished(h)' = {w}
      BY <1>3, <3>1
    <3> QED
      BY <1>0, <1>1, <1>2, <3>2
  <2> QED
    BY <2>3, <2>4
<1> QED
  BY <1>5, <1>6

\* What Publish does to the way of a row to a tab: the event joins the channel, or
\* the row is stale.
LEMMA PublishCurrent ==
  ASSUME TypeOK, CurrentInv, NEW w \in Writer, Publish(w)
  PROVE  StreamInv' /\ \A b \in Browser, g \in Hook : Current(b, g)'
<1>0. PICK h \in Hook, st \in {Pending} \cup Status : task[w].id = h /\ task[w].st = st
  BY TaskFields DEF Publish
<1> DEFINE e == [id |-> h, st |-> st]
<1>1. e \in Event /\ e.id = h /\ e.st = st
  BY DEF Event
<1>2. /\ buf' = [b \in Browser |-> IF stream[b] THEN Offer(b, e) ELSE buf[b]]
      /\ \A b \in Browser : stale'[b] = IF Live(b) /\ ~(stream[b] /\ Len(buf[b]) < Buffer)
                                        THEN stale[b] \cup {h} ELSE stale[b]
      /\ UNCHANGED <<row, listing, view, stream, unseen>>
  BY <1>0 DEF Publish, table, walk
<1> HIDE DEF e
<1>3. w \in Unpublished(h)
  BY <1>0 DEF Unpublished, Publish
<1>4. \A g \in Hook : /\ Unpublished(g)' = IF g = h THEN Unpublished(g) \ {w} ELSE Unpublished(g)
                      /\ \A v \in Unpublished(g)' : task'[v] = task[v]
  <2>1. \A v \in Writer : v # w => task'[v] = task[v]
    BY DEF Publish, TypeOK
  <2>2. task'[w].phase # "publish"
    <3>1. task'[w] = IF w \in Hook /\ task[w].st = Pending
                     THEN [task[w] EXCEPT !.phase = "job"] ELSE NoTask
      BY DEF Publish, TypeOK
    <3>2. [task[w] EXCEPT !.phase = "job"].phase # "publish"
      BY TaskFields DEF Publish
    <3> QED
      BY <3>1, <3>2 DEF NoTask
  <2> QED
    BY <1>0, <2>1, <2>2 DEF Unpublished
<1>5. \A b \in Browser : Live(b)' <=> Live(b)
  BY <1>2 DEF Live, LiveEnabled, listing
<1>6. StreamInv'
  BY <1>2, <1>5 DEF CurrentInv, StreamInv
<1>7. ASSUME NEW b \in Browser, NEW g \in Hook PROVE Current(b, g)'
  <2>0. buf[b] \in Seq(Event) /\ Current(b, g)
    BY DEF TypeOK, CurrentInv
  <2>1. CASE ~(stream[b] /\ Len(buf[b]) < Buffer)
    <3>1. buf'[b] = buf[b]
      BY <1>2, <2>1 DEF Offer
    <3>2. CASE g = h
      <4>1. Live(b)' => h \in stale'[b]
        BY <1>2, <1>5, <2>1
      <4> QED
        BY <3>2, <4>1 DEF Current
    <3>3. CASE g # h
      BY <1>2, <1>4, <1>5, <2>0, <3>1, <3>3, CurrentFrame
    <3> QED
      BY <3>2, <3>3
  <2>2. CASE stream[b] /\ Len(buf[b]) < Buffer
    <3> DEFINE n == Len(buf[b]) + 1
    <3>1. buf'[b] = Append(buf[b], e)
      BY <1>2, <2>2 DEF Offer
    <3>2. /\ DOMAIN buf'[b] = 1..n /\ buf'[b][n] = e /\ n \in 1..n
          /\ DOMAIN buf[b] = 1..n - 1
          /\ \A i \in 1..n - 1 : i \in 1..n /\ i < n /\ buf'[b][i] = buf[b][i]
          /\ \A i \in 1..n : i = n \/ i \in 1..n - 1
      BY <1>1, <2>0, <3>1
    <3> HIDE DEF n
    <3> SUFFICES ASSUME Live(b)', row'[g] # Absent, g \notin stale'[b]
                 PROVE  /\ \A v \in Unpublished(g)' : task'[v].st = row'[g]
                        /\ Unpublished(g)' = {} =>
                             \A i \in DOMAIN buf'[b] : Last(b, g, i)' => buf'[b][i].st = row'[g]
                        /\ Settled(b, g)' => \/ view'[b][g] = row'[g]
                                             \/ view'[b][g] = Absent /\ g \in unseen'[b]
      BY DEF Current
    <3>3. Live(b) /\ row[g] # Absent /\ g \notin stale[b] /\ row'[g] = row[g]
      BY <1>2, <1>5, <2>2
    <3>4. /\ \A v \in Unpublished(g) : task[v].st = row[g]
          /\ Unpublished(g) = {} => \A i \in DOMAIN buf[b] : Last(b, g, i) => buf[b][i].st = row[g]
          /\ Settled(b, g) => view[b][g] = row[g] \/ (view[b][g] = Absent /\ g \in unseen[b])
      BY <2>0, <3>3 DEF Current
    <3>5. \A v \in Unpublished(g)' : task'[v].st = row'[g]
      BY <1>4, <3>3, <3>4
    <3>6. CASE g = h
      <4>1. st = row[g]
        BY <1>0, <1>3, <3>4, <3>6
      <4>2. ASSUME NEW i \in DOMAIN buf'[b], Last(b, g, i)' PROVE i = n
        BY <1>1, <3>2, <3>6, <4>2 DEF Last
      <4>3. ~Settled(b, g)'
        BY <1>1, <3>2, <3>6 DEF Settled
      <4> QED
        BY <1>1, <3>2, <3>3, <3>5, <4>1, <4>2, <4>3
    <3>7. CASE g # h
      <4>1. ASSUME NEW i \in DOMAIN buf'[b], Last(b, g, i)'
            PROVE  i \in DOMAIN buf[b] /\ Last(b, g, i) /\ buf'[b][i] = buf[b][i]
        BY <1>1, <3>2, <3>7, <4>1 DEF Last
      <4>2. Settled(b, g)' => Settled(b, g)
        BY <1>4, <3>2, <3>7 DEF Settled
      <4>3. Unpublished(g)' = Unpublished(g)
        BY <1>4, <3>7
      <4>4. UNCHANGED <<view, unseen>>
        BY <1>2
      <4> QED
        BY <3>3, <3>4, <3>5, <4>1, <4>2, <4>3, <4>4
    <3> QED
      BY <3>6, <3>7
  <2> QED
    BY <2>1, <2>2
<1> QED
  BY <1>6, <1>7

\* Every step of the writers keeps CurrentInv.
LEMMA WriterCurrent ==
  ASSUME TypeInv, CurrentInv, WriterNext
  PROVE  CurrentInv'
<1>0. TypeOK /\ BusyInv
  BY DEF TypeInv, CurrentInv
<1>a. Hook \subseteq Writer
  BY DEF Writer
<1>b. ASSUME NEW w \in Writer, NEW x, task' = [task EXCEPT ![w] = x],
             \A h \in Hook : recv[h] # 0 => recv'[h] # 0,
             x.phase # "none" /\ w \in Hook => task[w].phase # "none" \/ recv'[w] # 0
      PROVE  BusyInv'
  BY <1>0, <1>a, <1>b DEF BusyInv, TypeOK
<1>1. ASSUME NEW h \in Hook, Receive(h) PROVE CurrentInv'
  <2> DEFINE x == [phase |-> "save", id |-> h, st |-> Pending]
  <2>1. /\ recv[h] = 0 /\ task' = [task EXCEPT ![h] = x]
        /\ UNCHANGED <<row, listing, view, live, unseen, stale>>
    BY <1>1 DEF Receive, walk
  <2>2. recv'[h] # 0 /\ \A g \in Hook : recv[g] # 0 => recv'[g] # 0
    BY <1>1, ReceiveRecv
  <2>3. task[h].phase = "none" /\ x.phase = "save"
    BY <1>0, <2>1 DEF BusyInv
  <2> HIDE DEF x
  <2>4. BusyInv'
    BY <1>a, <1>b, <2>1, <2>2
  <2>5. \A g \in Hook : /\ Unpublished(g)' = Unpublished(g)
                        /\ \A v \in Unpublished(g) : task'[v] = task[v]
    BY <1>0, <1>a, <2>1, <2>3, UnpublishedStep
  <2> QED
    BY <2>1, <2>4, <2>5, QuietStep DEF CurrentInv
<1>2. ASSUME NEW h \in Hook, SaveWebhook(h) PROVE CurrentInv'
  <2> DEFINE t == [row EXCEPT ![h] = Pending]
             x == [phase |-> "publish", id |-> h, st |-> Pending]
  <2>1. task[h].phase = "save" /\ Commit(h, h, Pending, t)
    BY <1>2 DEF SaveWebhook
  <2>2. t[h] = Pending /\ \A g \in Hook : g # h => t[g] = row[g]
    BY <1>0 DEF TypeOK
  <2>3. task' = [task EXCEPT ![h] = x] /\ UNCHANGED recv
    BY <2>1 DEF Commit
  <2> HIDE DEF t, x
  <2>4. BusyInv'
    BY <1>a, <1>b, <2>1, <2>3
  <2> QED
    BY <1>0, <1>a, <2>1, <2>2, <2>4, CommitCurrent DEF CurrentInv
<1>3. ASSUME NEW d \in Deliverer, NEW h \in Hook, GetWebhook(d, h) PROVE CurrentInv'
  <2> DEFINE x == [phase |-> "job", id |-> h, st |-> Pending]
  <2>0. d \in Writer /\ d \notin Hook
    BY DashboardAssumption DEF Writer
  <2>1. /\ task[d].phase = "none" /\ task' = [task EXCEPT ![d] = x]
        /\ UNCHANGED <<row, recv, listing, view, live, unseen, stale>>
    BY <1>3 DEF GetWebhook, walk, table
  <2>2. x.phase = "job"
    OBVIOUS
  <2> HIDE DEF x
  <2>3. BusyInv'
    BY <1>b, <2>0, <2>1
  <2>4. \A g \in Hook : /\ Unpublished(g)' = Unpublished(g)
                        /\ \A v \in Unpublished(g) : task'[v] = task[v]
    BY <1>0, <2>0, <2>1, <2>2, UnpublishedStep
  <2> QED
    BY <2>1, <2>3, <2>4, QuietStep DEF CurrentInv
<1>4. ASSUME NEW w \in Writer, NEW st \in Status, MarkDelivered(w, st) PROVE CurrentInv'
  <2>0. PICK h \in Hook : task[w].id = h
    BY <1>0, <1>4, TaskFields DEF MarkDelivered
  <2> DEFINE t == [row EXCEPT ![h] = IF @ = Absent THEN Absent ELSE st]
             x == [phase |-> "publish", id |-> h, st |-> st]
  <2>1. task[w].phase = "job" /\ Commit(w, h, st, t)
    BY <1>4, <2>0 DEF MarkDelivered
  <2>2. t[h] \in {Absent, st} /\ \A g \in Hook : g # h => t[g] = row[g]
    BY <1>0 DEF TypeOK
  <2>3. task' = [task EXCEPT ![w] = x] /\ UNCHANGED recv
    BY <2>1 DEF Commit
  <2> HIDE DEF t, x
  <2>4. BusyInv'
    BY <1>b, <2>1, <2>3
  <2> QED
    BY <1>0, <2>1, <2>2, <2>4, CommitCurrent DEF CurrentInv
<1>5. ASSUME NEW w \in Writer, GiveUp(w) PROVE CurrentInv'
  <2>1. /\ task[w].phase \in {"save", "job"} /\ task' = [task EXCEPT ![w] = NoTask]
        /\ UNCHANGED <<row, recv, listing, view, live, unseen, stale>>
    BY <1>5 DEF GiveUp, walk, table
  <2>2. NoTask.phase = "none"
    BY DEF NoTask
  <2>3. BusyInv'
    BY <1>b, <2>1, <2>2
  <2>4. \A g \in Hook : /\ Unpublished(g)' = Unpublished(g)
                        /\ \A v \in Unpublished(g) : task'[v] = task[v]
    BY <1>0, <2>1, <2>2, UnpublishedStep
  <2> QED
    BY <2>1, <2>3, <2>4, QuietStep DEF CurrentInv
<1>6. ASSUME NEW w \in Writer, Publish(w) PROVE CurrentInv'
  <2>1. BusyInv'
    <3>1. /\ task[w].phase = "publish" /\ UNCHANGED recv
          /\ \A v \in Writer : v # w => task'[v] = task[v]
      BY <1>0, <1>6 DEF Publish, table, TypeOK
    <3> QED
      BY <1>0, <1>a, <3>1 DEF BusyInv
  <2> QED
    BY <1>0, <1>6, <2>1, PublishCurrent DEF CurrentInv
<1>7. ASSUME NEW cutoff, Sweep(cutoff) PROVE CurrentInv'
  <2>1. /\ UNCHANGED <<task, recv, listing, view, live, unseen, stale>>
        /\ \A h \in Hook : row'[h] = Absent \/ row'[h] = row[h]
    BY <1>7 DEF Sweep
  <2>2. BusyInv'
    BY <1>0, <2>1 DEF BusyInv
  <2>3. \A g \in Hook : /\ Unpublished(g)' = Unpublished(g)
                        /\ \A v \in Unpublished(g) : task'[v] = task[v]
    BY <2>1 DEF Unpublished
  <2> QED
    BY <2>1, <2>2, <2>3, QuietStep DEF CurrentInv
<1>8. CASE Restart
  <2>1. /\ \A w \in Writer : task'[w] = NoTask
        /\ \A b \in Browser : buf'[b] = <<>> /\ ~stream'[b]
        /\ \A b \in Browser : pc'[b] = IF pc[b] = "counted" THEN "closed" ELSE pc[b]
        /\ \A b \in Browser : Live(b) =>
             stale'[b] = stale[b] \cup {h \in Hook : Unpublished(h) # {}}
                           \cup {buf[b][i].id : i \in DOMAIN buf[b]}
        /\ UNCHANGED <<row, filter, page, view, unseen>>
    BY <1>8 DEF Restart, Drop, table, walk
  <2>2. NoTask.phase = "none"
    BY DEF NoTask
  <2>3. BusyInv'
    BY <1>a, <2>1, <2>2 DEF BusyInv
  <2>4. StreamInv'
    BY <2>1 DEF StreamInv
  <2>5. \A b \in Browser : Live(b)' => Live(b)
    BY <2>1 DEF Live, LiveEnabled
  <2>6. \A h \in Hook : Unpublished(h)' = {}
    BY <2>1, <2>2 DEF Unpublished
  <2>7. ASSUME NEW b \in Browser, NEW h \in Hook PROVE Current(b, h)'
    <3>1. Current(b, h)
      BY DEF CurrentInv
    <3>2. Live(b) /\ h \notin stale'[b] =>
            /\ h \notin stale[b] /\ \A i \in DOMAIN buf[b] : buf[b][i].id # h
            /\ Unpublished(h) = {}
      BY <2>1
    <3> QED
      BY <2>1, <2>5, <2>6, <3>1, <3>2, CurrentDrop
  <2> QED
    BY <2>3, <2>4, <2>7 DEF CurrentInv
<1> QED
  BY <1>1, <1>2, <1>3, <1>4, <1>5, <1>6, <1>7, <1>8 DEF WriterNext

\* The page that Select brings is current, or the row is stale.
LEMMA SelectCurrent ==
  ASSUME TypeOK, CurrentInv, NEW b \in Browser, Select(b), NEW h \in Hook
  PROVE  Current(b, h)'
<1> DEFINE listed == Listed(row, filter[b])
           shown  == Slice(listed, Offset(page[b]))
<1>1. /\ pc[b] = "counted" /\ UNCHANGED <<row, task, filter, page, buf>>
      /\ view'[b][h] = IF h \in shown THEN row[h] ELSE Absent
      /\ unseen'[b] = (IF page[b] = 1 THEN listed ELSE unseen[b]) \ shown
      /\ stale'[b] = {g \in Hook : LiveEnabled(b) /\ \E w \in Unpublished(g) : task[w].st # row[g]}
  BY DEF Select, TypeOK, table, live
<1> HIDE DEF shown
<1>2. buf'[b] = <<>>
  BY <1>1 DEF CurrentInv, StreamInv, Live
<1> SUFFICES ASSUME Live(b)', row'[h] # Absent, h \notin stale'[b]
             PROVE  /\ \A w \in Unpublished(h)' : task'[w].st = row'[h]
                    /\ Unpublished(h)' = {} =>
                         \A i \in DOMAIN buf'[b] : Last(b, h, i)' => buf'[b][i].st = row'[h]
                    /\ Settled(b, h)' => \/ view'[b][h] = row'[h]
                                         \/ view'[b][h] = Absent /\ h \in unseen'[b]
  BY DEF Current
<1>3. page[b] = 1 /\ filter[b] = "all" /\ LiveEnabled(b)
  BY <1>1 DEF Live, LiveEnabled
<1>4. h \in listed
  BY <1>1, <1>3 DEF Listed, Matches
<1>5. Unpublished(h)' = Unpublished(h)
  BY <1>1 DEF Unpublished
<1>6. \A w \in Unpublished(h)' : task'[w].st = row'[h]
  BY <1>1, <1>3, <1>5
<1>7. DOMAIN buf'[b] = {}
  BY <1>2
<1>8. view'[b][h] = row'[h] \/ (view'[b][h] = Absent /\ h \in unseen'[b])
  <2> HIDE DEF listed
  <2> QED
    BY <1>1, <1>3, <1>4
<1> QED
  BY <1>6, <1>7, <1>8

\* The event that b receives brings its row up to date, if it is the last one.
LEMMA ReceiveCurrent ==
  ASSUME TypeOK, CurrentInv, NEW b \in Browser, ReceiveEvent(b), NEW h \in Hook
  PROVE  Current(b, h)'
<1> DEFINE q == buf[b]
           e == Head(q)
           n == Len(q)
<1>1. q \in Seq(Event) /\ q # <<>>
  BY DEF ReceiveEvent, TypeOK
<1>2. /\ buf'[b] = Tail(q) /\ UNCHANGED <<row, task, listing, unseen, stale>>
      /\ view'[b] = UpsertRow(view[b], e)
  BY DEF ReceiveEvent, TypeOK, table, walk
<1>3. /\ e = q[1] /\ DOMAIN q = 1..n /\ DOMAIN buf'[b] = 1..n - 1 /\ n \in Nat \ {0}
      /\ \A i \in 1..n - 1 : buf'[b][i] = q[i + 1]
  BY <1>1, <1>2
<1>4. view'[b][h] = IF h = e.id THEN e.st ELSE view[b][h]
  <2>1. view[b] \in [Hook -> Cell]
    BY DEF TypeOK, Cell
  <2> HIDE DEF e
  <2> QED
    BY <1>2, <2>1 DEF UpsertRow
<1> SUFFICES ASSUME Live(b)', row'[h] # Absent, h \notin stale'[b]
             PROVE  /\ \A w \in Unpublished(h)' : task'[w].st = row'[h]
                    /\ Unpublished(h)' = {} =>
                         \A i \in DOMAIN buf'[b] : Last(b, h, i)' => buf'[b][i].st = row'[h]
                    /\ Settled(b, h)' => \/ view'[b][h] = row'[h]
                                         \/ view'[b][h] = Absent /\ h \in unseen'[b]
  BY DEF Current
<1>5. Live(b)
  BY <1>2 DEF Live, LiveEnabled, listing
<1>6. /\ \A w \in Unpublished(h) : task[w].st = row[h]
      /\ Unpublished(h) = {} => \A i \in DOMAIN buf[b] : Last(b, h, i) => buf[b][i].st = row[h]
      /\ Settled(b, h) => view[b][h] = row[h] \/ (view[b][h] = Absent /\ h \in unseen[b])
  BY <1>2, <1>5 DEF CurrentInv, Current
<1>7. Unpublished(h)' = Unpublished(h)
  BY <1>2 DEF Unpublished
<1> HIDE DEF q, e, n
<1>8. ASSUME NEW i \in DOMAIN buf'[b], Last(b, h, i)'
      PROVE  i + 1 \in DOMAIN buf[b] /\ Last(b, h, i + 1) /\ buf'[b][i] = buf[b][i + 1]
  <2>1. i \in 1..n - 1 /\ i + 1 \in 1..n /\ buf'[b][i] = q[i + 1]
    BY <1>3
  <2>2. ASSUME NEW j \in 1..n, j > i + 1 PROVE q[j].id # h
    <3>1. j - 1 \in 1..n - 1 /\ j - 1 > i /\ buf'[b][j - 1] = q[j]
      BY <1>3, <2>1, <2>2
    <3> QED
      BY <1>3, <1>8, <3>1 DEF Last
  <2> QED
    BY <1>3, <1>8, <2>1, <2>2 DEF Last, q
<1>9. Settled(b, h)' => \A i \in 2..n : q[i].id # h
  <2> SUFFICES ASSUME Settled(b, h)', NEW i \in 2..n PROVE q[i].id # h
    OBVIOUS
  <2>1. i - 1 \in 1..n - 1 /\ buf'[b][i - 1] = q[i]
    BY <1>3
  <2> QED
    BY <1>3, <2>1 DEF Settled
<1>10. ASSUME Settled(b, h)'
       PROVE  view'[b][h] = row'[h] \/ (view'[b][h] = Absent /\ h \in unseen'[b])
  <2>0. Unpublished(h) = {}
    BY <1>7, <1>10 DEF Settled
  <2>1. CASE e.id = h
    <3>1. 1 \in DOMAIN buf[b] /\ Last(b, h, 1)
      BY <1>3, <1>9, <1>10, <2>1 DEF Last, q
    <3>2. buf[b][1].st = row[h]
      BY <1>6, <2>0, <3>1
    <3> QED
      BY <1>2, <1>3, <1>4, <2>1, <3>2 DEF q
  <2>2. CASE e.id # h
    <3>1. \A i \in 1..n : q[i].id # h
      <4>1. \A i \in 1..n : i = 1 \/ i \in 2..n
        BY <1>3
      <4> QED
        BY <1>3, <1>9, <1>10, <2>2, <4>1
    <3>2. Settled(b, h)
      BY <1>3, <2>0, <3>1 DEF Settled, q
    <3> QED
      BY <1>2, <1>4, <1>6, <2>2, <3>2
  <2> QED
    BY <2>1, <2>2
<1> QED
  BY <1>2, <1>6, <1>7, <1>8, <1>10

\* Every step of a tab keeps CurrentInv.
LEMMA TabCurrent ==
  ASSUME TypeOK, CurrentInv, NEW b \in Browser, TabNext(b)
  PROVE  CurrentInv'
<1>0. StreamInv /\ BusyInv /\ \A c \in Browser, h \in Hook : Current(c, h)
  BY DEF CurrentInv
<1>1. UNCHANGED <<row, recv, task>>
  BY DEF TabNext, Open, Follow, Count, Select, LoadFails, Subscribe, StreamLost, ReceiveEvent, table
<1>2. BusyInv'
  BY <1>0, <1>1 DEF BusyInv
<1>3. \A h \in Hook : /\ Unpublished(h)' = Unpublished(h)
                      /\ \A w \in Unpublished(h) : task'[w].st = task[w].st
  BY <1>1 DEF Unpublished
<1>4. \A c \in Browser \ {b} :
        /\ pc'[c] = pc[c] /\ filter'[c] = filter[c] /\ page'[c] = page[c] /\ view'[c] = view[c]
        /\ stream'[c] = stream[c] /\ buf'[c] = buf[c] /\ unseen'[c] = unseen[c] /\ stale'[c] = stale[c]
  <2>1. CASE \E f, n : Count(b, f, n)
    BY <2>1 DEF Count, TypeOK
  <2>2. CASE Select(b)
    BY <2>2 DEF Select, TypeOK, live
  <2>3. CASE LoadFails(b) \/ Subscribe(b)
    BY <2>3 DEF LoadFails, Subscribe, TypeOK, listing, live, walk
  <2>4. CASE StreamLost(b)
    BY <2>4 DEF StreamLost, Drop, TypeOK, listing, walk
  <2>5. CASE ReceiveEvent(b)
    BY <2>5 DEF ReceiveEvent, TypeOK, listing, walk
  <2> QED
    BY <2>1, <2>2, <2>3, <2>4, <2>5 DEF TabNext, Open, Follow
<1>5. ASSUME NEW c \in Browser \ {b}
      PROVE  (stream'[c] => Live(c)') /\ (~stream'[c] => buf'[c] = <<>>)
             /\ \A h \in Hook : Current(c, h)'
  <2>1. Live(c)' <=> Live(c)
    BY <1>4 DEF Live, LiveEnabled
  <2> QED
    BY <1>0, <1>1, <1>3, <1>4, <2>1, CurrentFrame DEF StreamInv
<1>6. (stream'[b] => Live(b)') /\ (~stream'[b] => buf'[b] = <<>>)
      /\ \A h \in Hook : Current(b, h)'
  <2>1. CASE \E f, n : Count(b, f, n)
    <3>1. pc'[b] = "counted" /\ ~stream'[b] /\ buf'[b] = <<>>
      BY <2>1 DEF Count, TypeOK
    <3> QED
      BY <3>1 DEF Current, Live
  <2>2. CASE Select(b)
    <3>1. pc[b] = "counted" /\ UNCHANGED <<stream, buf>>
      BY <2>2 DEF Select, live
    <3>2. ~stream[b] /\ buf[b] = <<>>
      BY <1>0, <3>1 DEF StreamInv, Live
    <3> QED
      BY <2>2, <3>1, <3>2, SelectCurrent
  <2>3. CASE LoadFails(b)
    <3>1. pc[b] = "counted" /\ pc'[b] = "closed" /\ UNCHANGED <<stream, buf>>
      BY <2>3 DEF LoadFails, TypeOK, live
    <3>2. ~stream[b] /\ buf[b] = <<>>
      BY <1>0, <3>1 DEF StreamInv, Live
    <3> QED
      BY <3>1, <3>2 DEF Current, Live
  <2>4. CASE Subscribe(b)
    <3>1. /\ Live(b) /\ ~stream[b] /\ stream'[b]
          /\ UNCHANGED <<listing, view, buf, unseen, stale>>
      BY <2>4 DEF Subscribe, TypeOK, walk
    <3>2. Live(b)'
      BY <3>1 DEF Live, LiveEnabled, listing
    <3> QED
      BY <1>0, <1>1, <1>3, <3>1, <3>2, CurrentFrame
  <2>5. CASE StreamLost(b)
    <3>1. /\ ~stream'[b] /\ buf'[b] = <<>> /\ UNCHANGED <<listing, view, unseen>>
          /\ Live(b) => stale'[b] = stale[b] \cup {buf[b][i].id : i \in DOMAIN buf[b]}
      BY <2>5 DEF StreamLost, Drop, walk
    <3>2. Live(b)' <=> Live(b)
      BY <3>1 DEF Live, LiveEnabled, listing
    <3>3. ASSUME NEW h \in Hook PROVE Current(b, h)'
      <4>1. Live(b) /\ h \notin stale'[b] =>
              h \notin stale[b] /\ \A i \in DOMAIN buf[b] : buf[b][i].id # h
        BY <3>1
      <4> QED
        BY <1>0, <1>1, <1>3, <3>1, <3>2, <4>1, CurrentDrop
    <3> QED
      BY <3>1, <3>3
  <2>6. CASE ReceiveEvent(b)
    <3>1. stream[b] /\ UNCHANGED <<stream, listing>>
      BY <2>6 DEF ReceiveEvent
    <3>2. stream'[b] /\ Live(b)'
      BY <1>0, <3>1 DEF StreamInv, Live, LiveEnabled, listing
    <3> QED
      BY <2>6, <3>2, ReceiveCurrent
  <2> QED
    BY <2>1, <2>2, <2>3, <2>4, <2>5, <2>6 DEF TabNext, Open, Follow
<1>7. StreamInv'
  BY <1>5, <1>6 DEF StreamInv
<1>8. \A c \in Browser, h \in Hook : Current(c, h)'
  BY <1>5, <1>6
<1> QED
  BY <1>2, <1>7, <1>8 DEF CurrentInv

\* CurrentInv holds initially, as no page is shown, and every step keeps it.
LEMMA InitCurrent == Init => CurrentInv
<1> SUFFICES ASSUME Init PROVE CurrentInv
  OBVIOUS
<1>1. \A b \in Browser : pc[b] = "closed" /\ ~stream[b] /\ buf[b] = <<>>
  BY DEF Init
<1>2. StreamInv /\ \A b \in Browser, h \in Hook : Current(b, h)
  BY <1>1 DEF StreamInv, Current, Live
<1>3. BusyInv
  BY DEF Init, BusyInv, NoTask, Writer
<1> QED
  BY <1>2, <1>3 DEF CurrentInv

LEMMA NextCurrent == TypeInv /\ CurrentInv /\ [Next]_vars => CurrentInv'
<1> SUFFICES ASSUME TypeInv, CurrentInv, [Next]_vars PROVE CurrentInv'
  OBVIOUS
<1>1. CASE UNCHANGED vars
  <2>1. UNCHANGED <<row, recv, task, listing, view, live, unseen, stale>>
    BY <1>1 DEF vars, table, walk
  <2>2. \A h \in Hook : Unpublished(h)' = Unpublished(h)
    BY <2>1 DEF Unpublished
  <2>3. BusyInv'
    BY <2>1 DEF CurrentInv, BusyInv
  <2> QED
    BY <2>1, <2>2, <2>3, QuietStep DEF CurrentInv
<1>2. TypeOK
  BY DEF TypeInv
<1> QED
  BY <1>1, <1>2, WriterCurrent, TabCurrent DEF Next

\* A live page keeps up with the table, except for the rows in stale, whose last
\* event the broker or the stream has lost, or delivered out of order.
THEOREM LivePageKeepsUp == Spec => []LivePageIsCurrent
<1>1. Init => TypeInv
  BY InitType
<1>2. CurrentInv => LivePageIsCurrent
  BY DEF CurrentInv, Current, LivePageIsCurrent
<1> QED
  BY <1>1, <1>2, InitCurrent, NextType, NextCurrent, PTL DEF Spec

----------------------------------------------------------------------------
(* A reader who pages to the end. *)

\* How many rows of S are above h in a listing by the times r.
Rank(r, S, h) == Cardinality({g \in S : r[g] > r[h]})

\* No two rows of S have the same time.
Ordered(r, S) == \A g, h \in S : r[g] = r[h] => g = h

\* The rows of P that a reader at row n of the listing S does not meet below: they are
\* above, or not listed.
Missed(r, S, P, n) == {h \in P : h \in S => Rank(r, S, h) < n}

\* The rows from row n on.
Below(r, S, n) == {h \in S : Rank(r, S, h) >= n}

\* The listing the reader pages through, and the rows in the table not shown yet.
List(b)   == Listed(row, filter[b])
Unseen(b) == {h \in unseen[b] : row[h] # Absent}

\* Rows are ordered by received_at, and only rows of the table are in unseen.
RecvDistinct == \A g, h \in Hook : recv[g] = recv[h] /\ recv[g] # 0 => g = h
UnseenInv    == \A b \in Browser : \A h \in unseen[b] : Saved(h)

\* Before the SELECT of a page no more rows are missed than have slipped, and those
\* the COUNT did not see are among the slips, too (of which there are never more than
\* requests).
CountedInv(b) ==
  LET missed == Cardinality(Missed(recv, List(b), Unseen(b), Offset(page[b])))
  IN  /\ missed <= slip[b]
      /\ slip[b] >= Cardinality(Hook) \/ missed + Cardinality(List(b)) <= total[b] + slip[b]

\* After it the page has been passed, and if it is the last, nothing is below it.
ShownInv(b) ==
  /\ Cardinality(Missed(recv, List(b), Unseen(b), Offset(page[b]) + PageSize)) <= slip[b]
  /\ ~HasNext(b) => Cardinality(Unseen(b)) <= slip[b]

PageInv == \A b \in Browser : /\ pc[b] = "counted" => CountedInv(b)
                              /\ pc[b] = "shown" => ShownInv(b)

WalkInv == RecvDistinct /\ UnseenInv /\ PageInv

----------------------------------------------------------------------------
(* Counting rows. *)

\* Sets of rows are finite, and a subset has no more elements.
LEMMA CountRows ==
  ASSUME NEW T \in SUBSET Hook, NEW S \in SUBSET T
  PROVE  /\ IsFiniteSet(S) /\ IsFiniteSet(T)
         /\ Cardinality(S) \in Nat /\ Cardinality(T) \in Nat
         /\ Cardinality(S) <= Cardinality(T)
<1>1. IsFiniteSet(T)
  BY DashboardAssumption, FS_Subset
<1>2. IsFiniteSet(S) /\ Cardinality(S) <= Cardinality(T)
  BY <1>1, FS_Subset
<1> QED
  BY <1>1, <1>2, FS_CardinalityType

\* One row more or less.
LEMMA CountOne ==
  ASSUME NEW T \in SUBSET Hook, NEW x \in T
  PROVE  Cardinality(T) = Cardinality(T \ {x}) + 1
<1>1. IsFiniteSet(T) /\ Cardinality(T) \in Nat
  BY CountRows
<1>2. Cardinality(T \ {x}) = Cardinality(T) - 1
  BY <1>1, FS_RemoveElement
<1> QED
  BY <1>1, <1>2

\* Adding one row adds one at most.
LEMMA CountAdd ==
  ASSUME NEW T \in SUBSET Hook, NEW z, NEW S \in SUBSET (T \cup {z})
  PROVE  Cardinality(S) <= Cardinality(T) + 1
<1>1. IsFiniteSet(T) /\ Cardinality(T) \in Nat
  BY CountRows
<1>2. /\ IsFiniteSet(T \cup {z}) /\ Cardinality(T \cup {z}) <= Cardinality(T) + 1
      /\ Cardinality(T \cup {z}) \in Nat
  BY <1>1, FS_AddElement
<1>3. Cardinality(S) <= Cardinality(T \cup {z}) /\ Cardinality(S) \in Nat
  BY <1>2, FS_Subset, FS_CardinalityType
<1> QED
  BY <1>1, <1>2, <1>3

\* Ranks are numbers below the length of the listing, in the order of the times.
LEMMA RankSafe ==
  ASSUME NEW r \in [Hook -> Nat], NEW S \in SUBSET Hook
  PROVE  /\ Cardinality(S) \in Nat
         /\ \A h \in S : Rank(r, S, h) \in Nat /\ Rank(r, S, h) < Cardinality(S)
         /\ \A g, h \in S : r[g] > r[h] => Rank(r, S, g) < Rank(r, S, h)
<1>1. Cardinality(S) \in Nat
  BY CountRows
<1>2. ASSUME NEW h \in S PROVE Rank(r, S, h) \in Nat /\ Rank(r, S, h) < Cardinality(S)
  <2>1. {g \in S : r[g] > r[h]} \in SUBSET (S \ {h}) /\ S \ {h} \in SUBSET Hook
    OBVIOUS
  <2>2. /\ Cardinality({g \in S : r[g] > r[h]}) \in Nat
        /\ Cardinality(S \ {h}) \in Nat
        /\ Cardinality({g \in S : r[g] > r[h]}) <= Cardinality(S \ {h})
    BY <2>1, CountRows
  <2>3. Cardinality(S) = Cardinality(S \ {h}) + 1
    BY CountOne
  <2> QED
    BY <1>1, <2>2, <2>3 DEF Rank
<1>3. ASSUME NEW g \in S, NEW h \in S, r[g] > r[h] PROVE Rank(r, S, g) < Rank(r, S, h)
  <2> DEFINE A == {f \in S : r[f] > r[g]}
             B == {f \in S : r[f] > r[h]}
  <2>1. A \in SUBSET (B \ {g}) /\ B \in SUBSET Hook /\ g \in B
    BY <1>3
  <2>2. Rank(r, S, g) = Cardinality(A) /\ Rank(r, S, h) = Cardinality(B)
    BY DEF Rank
  <2> HIDE DEF A, B
  <2>3. Cardinality(B) = Cardinality(B \ {g}) + 1
    BY <2>1, CountOne
  <2>4. /\ Cardinality(A) \in Nat /\ Cardinality(B \ {g}) \in Nat
        /\ Cardinality(A) <= Cardinality(B \ {g})
    BY <2>1, CountRows
  <2> QED
    BY <2>2, <2>3, <2>4
<1> QED
  BY <1>1, <1>2, <1>3

\* No two rows have the same rank.
LEMMA RankDistinct ==
  ASSUME NEW r \in [Hook -> Nat], NEW S \in SUBSET Hook, Ordered(r, S),
         NEW g \in S, NEW h \in S, Rank(r, S, g) = Rank(r, S, h)
  PROVE  g = h
<1>1. r[g] \in Nat /\ r[h] \in Nat /\ Rank(r, S, g) \in Nat
  BY RankSafe
<1>2. ~(r[g] > r[h]) /\ ~(r[h] > r[g])
  BY <1>1, RankSafe
<1> QED
  BY <1>1, <1>2 DEF Ordered

\* Of m rows, at most m - n are from row n on.
LEMMA BelowBound ==
  ASSUME NEW r \in [Hook -> Nat], NEW S \in SUBSET Hook, Ordered(r, S), NEW n \in Nat
  PROVE  \/ Cardinality(Below(r, S, n)) = 0
         \/ Cardinality(Below(r, S, n)) + n <= Cardinality(S)
<1> DEFINE f == [h \in Below(r, S, n) |-> Rank(r, S, h)]
           m == Cardinality(S)
<1>1. m \in Nat
  BY RankSafe
<1>2. f \in [Below(r, S, n) -> n..m - 1]
  <2> SUFFICES ASSUME NEW h \in Below(r, S, n) PROVE Rank(r, S, h) \in n..m - 1
    OBVIOUS
  <2>1. Rank(r, S, h) \in Nat /\ Rank(r, S, h) < m /\ Rank(r, S, h) >= n
    BY RankSafe DEF Below
  <2> QED
    BY <1>1, <2>1
<1>3. \A g, h \in Below(r, S, n) : f[g] = f[h] => g = h
  BY RankDistinct DEF Below
<1>4. f \in Injection(Below(r, S, n), n..m - 1)
  BY <1>2, <1>3 DEF Injection, IsInjective
<1>5. /\ IsFiniteSet(n..m - 1)
      /\ Cardinality(n..m - 1) = IF n > m - 1 THEN 0 ELSE (m - 1) - n + 1
  <2>1. m - 1 \in Int /\ n \in Int
    BY <1>1
  <2> QED
    BY <2>1, FS_Interval
<1> HIDE DEF f
<1>6. /\ IsFiniteSet(Below(r, S, n))
      /\ Cardinality(Below(r, S, n)) <= Cardinality(n..m - 1)
  BY <1>4, <1>5, FS_Injection
<1>7. Cardinality(Below(r, S, n)) \in Nat
  BY <1>6, FS_CardinalityType
<1> QED
  BY <1>1, <1>5, <1>6, <1>7

\* A row leaves the listing: those below it move up by one.
LEMMA RankLeave ==
  ASSUME NEW r \in [Hook -> Nat], NEW S \in SUBSET Hook, NEW x \in S, NEW h \in S \ {x}
  PROVE  Rank(r, S, h) = Rank(r, S \ {x}, h) + (IF r[x] > r[h] THEN 1 ELSE 0)
<1> DEFINE A == {g \in S : r[g] > r[h]}
           B == {g \in S \ {x} : r[g] > r[h]}
<1>1. A \in SUBSET Hook /\ B = A \ {x} /\ (x \in A <=> r[x] > r[h])
  OBVIOUS
<1>2. Rank(r, S, h) = Cardinality(A) /\ Rank(r, S \ {x}, h) = Cardinality(B)
  BY DEF Rank
<1> HIDE DEF A, B
<1>3. Cardinality(A) \in Nat
  BY <1>1, CountRows
<1>4. CASE x \in A
  BY <1>1, <1>2, <1>3, <1>4, CountOne
<1>5. CASE x \notin A
  BY <1>1, <1>2, <1>3, <1>5
<1> QED
  BY <1>4, <1>5

\* One that leaves makes the reader miss at most one more: itself, or the one that
\* moves up to the reader.
LEMMA LeaveMissed ==
  ASSUME NEW r \in [Hook -> Nat], NEW S \in SUBSET Hook, Ordered(r, S), NEW x \in S,
         NEW P \in SUBSET Hook, NEW n \in Nat
  PROVE  \E z : Missed(r, S \ {x}, P, n) \subseteq Missed(r, S, P, n) \cup {z}
<1>1. ASSUME NEW h \in S \ {x}
      PROVE  /\ Rank(r, S, h) \in Nat /\ Rank(r, S \ {x}, h) \in Nat /\ Rank(r, S, x) \in Nat
             /\ Rank(r, S, h) = Rank(r, S \ {x}, h) + (IF r[x] > r[h] THEN 1 ELSE 0)
             /\ r[x] > r[h] => Rank(r, S, x) < Rank(r, S, h)
  <2>1. /\ Rank(r, S, h) \in Nat /\ Rank(r, S, x) \in Nat
        /\ r[x] > r[h] => Rank(r, S, x) < Rank(r, S, h)
    BY RankSafe
  <2>2. Rank(r, S \ {x}, h) \in Nat
    <3>1. S \ {x} \in SUBSET Hook
      OBVIOUS
    <3> QED
      BY <3>1, RankSafe
  <2>3. Rank(r, S, h) = Rank(r, S \ {x}, h) + (IF r[x] > r[h] THEN 1 ELSE 0)
    BY RankLeave
  <2> QED
    BY <2>1, <2>2, <2>3
<1>2. CASE Rank(r, S, x) >= n
  <2>1. ASSUME NEW h \in Missed(r, S \ {x}, P, n), h # x PROVE h \in Missed(r, S, P, n)
    <3>1. CASE h \in S
      <4>1. Rank(r, S \ {x}, h) < n /\ h \in P /\ h \in S \ {x}
        BY <2>1, <3>1 DEF Missed
      <4>2. Rank(r, S, h) < n
        BY <1>1, <1>2, <4>1
      <4> QED
        BY <4>1, <4>2 DEF Missed
    <3>2. CASE h \notin S
      BY <3>2 DEF Missed
    <3> QED
      BY <3>1, <3>2
  <2> QED
    BY <2>1
<1>3. CASE ~(Rank(r, S, x) >= n)
  <2>0. Rank(r, S, x) \in Nat
    BY RankSafe
  <2>1. ASSUME NEW h \in Missed(r, S \ {x}, P, n), h \notin Missed(r, S, P, n)
        PROVE  h \in S /\ Rank(r, S, h) = n
    <3>1. h \in P /\ h \in S /\ ~(Rank(r, S, h) < n)
      BY <2>1 DEF Missed
    <3>2. h # x
      BY <1>3, <2>0, <3>1
    <3>3. Rank(r, S \ {x}, h) < n
      BY <3>1, <3>2 DEF Missed
    <3> QED
      BY <1>1, <3>1, <3>2, <3>3
  <2>2. \A g, h \in Missed(r, S \ {x}, P, n) :
          g \notin Missed(r, S, P, n) /\ h \notin Missed(r, S, P, n) => g = h
    BY <2>1, RankDistinct
  <2>3. PICK z : (\E h \in Missed(r, S \ {x}, P, n) : h \notin Missed(r, S, P, n)) =>
                    z \in Missed(r, S \ {x}, P, n) /\ z \notin Missed(r, S, P, n)
    OBVIOUS
  <2> QED
    BY <2>2, <2>3
<1> QED
  BY <1>2, <1>3

\* One that enters makes the reader miss nothing more: it pushes others down.
LEMMA EnterMissed ==
  ASSUME NEW r \in [Hook -> Nat], NEW S \in SUBSET Hook, NEW x \in Hook \ S,
         NEW P \in SUBSET Hook, NEW n \in Nat
  PROVE  Missed(r, S \cup {x}, P, n) \subseteq Missed(r, S, P, n)
<1>0. S \cup {x} \in SUBSET Hook /\ (S \cup {x}) \ {x} = S
  OBVIOUS
<1> SUFFICES ASSUME NEW h \in Missed(r, S \cup {x}, P, n), h \in S PROVE Rank(r, S, h) < n
  BY DEF Missed
<1>1. Rank(r, S \cup {x}, h) < n
  BY DEF Missed
<1>2. h \in (S \cup {x}) \ {x}
  OBVIOUS
<1>3. Rank(r, S \cup {x}, h) = Rank(r, S, h) + (IF r[x] > r[h] THEN 1 ELSE 0)
  BY <1>0, <1>2, RankLeave
<1>4. Rank(r, S, h) \in Nat
  BY RankSafe
<1> QED
  BY <1>1, <1>3, <1>4

\* The oldest rows are below all others: nobody misses more when they go.
LEMMA SweepMissed ==
  ASSUME NEW r \in [Hook -> Nat], NEW S \in SUBSET Hook, NEW P \in SUBSET Hook, NEW n \in Nat,
         NEW cutoff \in Int
  PROVE  Missed(r, {h \in S : r[h] >= cutoff}, {h \in P : r[h] >= cutoff}, n)
           \subseteq Missed(r, S, P, n)
<1> DEFINE T == {h \in S : r[h] >= cutoff}
<1> SUFFICES ASSUME NEW h \in Missed(r, T, {g \in P : r[g] >= cutoff}, n)
             PROVE  h \in Missed(r, S, P, n)
  OBVIOUS
<1>1. h \in P /\ r[h] >= cutoff
  BY DEF Missed
<1>2. ASSUME h \in S PROVE Rank(r, S, h) < n
  <2>1. h \in T /\ Rank(r, T, h) < n
    BY <1>1, <1>2 DEF Missed
  <2>2. {g \in T : r[g] > r[h]} = {g \in S : r[g] > r[h]}
    BY <1>1
  <2> QED
    BY <2>1, <2>2 DEF Rank
<1> QED
  BY <1>1, <1>2 DEF Missed

\* One row enters or leaves the listing, or none: what is missed, and the length of
\* the listing.
LEMMA ChangeMissed ==
  ASSUME NEW r \in [Hook -> Nat], NEW S \in SUBSET Hook, NEW T \in SUBSET Hook, Ordered(r, S),
         NEW x \in Hook, S \ {x} = T \ {x}, NEW P \in SUBSET Hook, NEW n \in Nat
  PROVE  /\ Cardinality(Missed(r, T, P, n)) <= Cardinality(Missed(r, S, P, n)) + Cardinality(S \ T)
         /\ Cardinality(Missed(r, T, P, n)) + Cardinality(T)
              <= Cardinality(Missed(r, S, P, n)) + Cardinality(S) + Cardinality(S \ T)
                 + Cardinality(T \ S)
<1>0. Missed(r, S, P, n) \in SUBSET Hook /\ Missed(r, T, P, n) \in SUBSET Hook
  BY DEF Missed
<1>1. /\ Cardinality(Missed(r, S, P, n)) \in Nat /\ Cardinality(Missed(r, T, P, n)) \in Nat
      /\ Cardinality(S) \in Nat /\ Cardinality(T) \in Nat
      /\ Cardinality(S \ T) \in Nat /\ Cardinality(T \ S) \in Nat
  <2>1. S \ T \in SUBSET Hook /\ T \ S \in SUBSET Hook
    OBVIOUS
  <2> QED
    BY <1>0, <2>1, CountNat
<1>2. Cardinality({x}) = 1
  BY FS_Singleton
<1>3. CASE x \in S /\ x \notin T
  <2>1. T = S \ {x} /\ S \ T = {x} /\ x \in S
    BY <1>3
  <2>2. Cardinality(S) = Cardinality(T) + 1
    BY <2>1, CountOne
  <2>3. PICK z : Missed(r, T, P, n) \subseteq Missed(r, S, P, n) \cup {z}
    BY <2>1, LeaveMissed
  <2>4. Cardinality(Missed(r, T, P, n)) <= Cardinality(Missed(r, S, P, n)) + 1
    BY <1>0, <2>3, CountAdd
  <2>5. Cardinality(S \ T) = 1
    BY <1>2, <2>1
  <2> QED
    BY <1>1, <2>2, <2>4, <2>5
<1>4. CASE x \notin S /\ x \in T
  <2>1. T = S \cup {x} /\ T \ S = {x} /\ S = T \ {x} /\ x \in Hook \ S
    BY <1>4
  <2>2. Cardinality(T) = Cardinality(S) + 1
    BY <1>4, <2>1, CountOne
  <2>3. Missed(r, T, P, n) \subseteq Missed(r, S, P, n)
    BY <2>1, EnterMissed
  <2>4. Cardinality(Missed(r, T, P, n)) <= Cardinality(Missed(r, S, P, n))
    BY <1>0, <2>3, CountRows
  <2>5. Cardinality(T \ S) = 1
    BY <1>2, <2>1
  <2> QED
    BY <1>1, <2>2, <2>4, <2>5
<1>5. CASE x \in S <=> x \in T
  <2>1. T = S
    BY <1>5
  <2> QED
    BY <1>1, <2>1
<1> QED
  BY <1>3, <1>4, <1>5

----------------------------------------------------------------------------
(* Steps of the table. *)

\* The smaller of two naturals.
LEMMA MinTwo ==
  ASSUME NEW x \in Nat, NEW y \in Nat
  PROVE  /\ Min({x, y}) \in {x, y}
         /\ Min({x, y}) <= x /\ Min({x, y}) <= y
<1>1. \E u \in {x, y} : \A v \in {x, y} : u <= v
  <2>1. CASE x <= y
    BY <2>1
  <2>2. CASE y <= x
    BY <2>2
  <2> QED
    BY <2>1, <2>2
<1>2. Min({x, y}) \in {x, y} /\ \A v \in {x, y} : Min({x, y}) <= v
  BY <1>1 DEF Min
<1> QED
  BY <1>2

\* What Slips counts for tab b when the table becomes t.
Left(b, t) == Cardinality({h \in List(b) \ Listed(t, filter[b]) : t[h] # Absent})
Came(b, t) == Cardinality(Listed(t, filter[b]) \ List(b))

\* Slips adds these to the slips, up to the number of requests.
LEMMA SlipsSafe ==
  ASSUME TypeOK, NEW t, Slips(t), NEW b \in Browser, pc[b] # "closed"
  PROVE  /\ Left(b, t) \in Nat /\ Came(b, t) \in Nat
         /\ Cardinality(Hook) \in Nat /\ slip'[b] \in Nat
         /\ \/ slip'[b] = slip[b] + Left(b, t) + (IF pc[b] = "counted" THEN Came(b, t) ELSE 0)
            \/ slip'[b] >= Cardinality(Hook)
<1> DEFINE came == IF pc[b] = "counted" THEN Came(b, t) ELSE 0
           sum  == slip[b] + Left(b, t) + came
<1>1. Left(b, t) \in Nat /\ Came(b, t) \in Nat /\ Cardinality(Hook) \in Nat
  <2>1. /\ {h \in List(b) \ Listed(t, filter[b]) : t[h] # Absent} \in SUBSET Hook
        /\ Listed(t, filter[b]) \ List(b) \in SUBSET Hook
    BY DEF List, Listed
  <2> QED
    BY <2>1, CountNat DEF Left, Came
<1>2. slip'[b] = Min({sum, Cardinality(Hook)})
  BY DEF Slips, Left, Came, List
<1>3. slip[b] \in Nat
  BY DEF TypeOK
<1>4. sum \in Nat
  BY <1>1, <1>3
<1> HIDE DEF sum
<1>5. slip'[b] \in {sum, Cardinality(Hook)}
  BY <1>1, <1>2, <1>4, MinTwo
<1> QED
  BY <1>1, <1>4, <1>5 DEF sum

\* A step that changes the table to t, counts the slips, and lets the reader miss no
\* more than those.
LEMMA TableStep ==
  ASSUME TypeOK, PageInv, NEW t, row' = t, Slips(t), UNCHANGED <<recv, listing, unseen>>,
         NEW b \in Browser,
         {h \in unseen[b] : t[h] # Absent} \subseteq Unseen(b),
         \A n \in Nat :
           LET now  == Cardinality(Missed(recv, List(b), Unseen(b), n))
               then == Cardinality(Missed(recv, Listed(t, filter[b]),
                                          {h \in unseen[b] : t[h] # Absent}, n))
           IN  /\ then <= now + Left(b, t)
               /\ then + Cardinality(Listed(t, filter[b]))
                    <= now + Cardinality(List(b)) + Left(b, t) + Came(b, t)
  PROVE  (pc'[b] = "counted" => CountedInv(b)') /\ (pc'[b] = "shown" => ShownInv(b)')
<1>1. PICK L : L = Listed(t, filter[b])
  OBVIOUS
<1>2. PICK U : U = {h \in unseen[b] : t[h] # Absent}
  OBVIOUS
<1>3. List(b)' = L /\ Unseen(b)' = U
  BY <1>1, <1>2 DEF List, Unseen, listing
<1>4. L \in SUBSET Hook /\ U \in SUBSET Hook /\ U \in SUBSET Unseen(b) /\ Unseen(b) \in SUBSET Hook
      /\ List(b) \in SUBSET Hook
  BY <1>1, <1>2 DEF TypeOK, Unseen, List, Listed
<1>5. /\ slip[b] \in Nat /\ total[b] \in Nat /\ page[b] \in Nat /\ page[b] >= 1
      /\ Cardinality(L) \in Nat /\ Cardinality(U) \in Nat /\ Cardinality(List(b)) \in Nat
      /\ Cardinality(Unseen(b)) \in Nat
      /\ Cardinality(U) <= Cardinality(Unseen(b)) /\ Cardinality(U) <= Cardinality(Hook)
      /\ Cardinality(Hook) \in Nat
  <2>1. slip[b] \in Nat /\ total[b] \in Nat /\ page[b] \in Nat /\ page[b] >= 1
    BY DEF TypeOK
  <2>2. /\ Cardinality(L) \in Nat /\ Cardinality(U) \in Nat /\ Cardinality(List(b)) \in Nat
        /\ Cardinality(Unseen(b)) \in Nat /\ Cardinality(Hook) \in Nat
    BY <1>4, CountNat
  <2>3. Cardinality(U) <= Cardinality(Unseen(b)) /\ Cardinality(U) <= Cardinality(Hook)
    BY <1>4, CountRows
  <2> QED
    BY <2>1, <2>2, <2>3
<1>6. ASSUME NEW n \in Nat
      PROVE  /\ Cardinality(Missed(recv, L, U, n)) \in Nat
             /\ Cardinality(Missed(recv, L, U, n)) <= Cardinality(Hook)
             /\ Cardinality(Missed(recv, List(b), Unseen(b), n)) \in Nat
             /\ Cardinality(Missed(recv, L, U, n))
                  <= Cardinality(Missed(recv, List(b), Unseen(b), n)) + Left(b, t)
             /\ Cardinality(Missed(recv, L, U, n)) + Cardinality(L)
                  <= Cardinality(Missed(recv, List(b), Unseen(b), n)) + Cardinality(List(b))
                     + Left(b, t) + Came(b, t)
  <2>1. Missed(recv, L, U, n) \in SUBSET Hook /\ Missed(recv, List(b), Unseen(b), n) \in SUBSET Hook
    BY <1>4 DEF Missed
  <2>2. /\ Cardinality(Missed(recv, L, U, n)) \in Nat
        /\ Cardinality(Missed(recv, L, U, n)) <= Cardinality(Hook)
        /\ Cardinality(Missed(recv, List(b), Unseen(b), n)) \in Nat
    BY <2>1, CountRows
  <2> QED
    BY <1>1, <1>2, <2>2
<1>7. pc'[b] = pc[b] /\ page'[b] = page[b] /\ total'[b] = total[b] /\ recv' = recv
  BY DEF listing
<1>8. CASE pc[b] = "counted"
  <2> DEFINE n == Offset(page[b])
  <2>1. n \in Nat
    BY <1>5, DashboardAssumption DEF Offset
  <2>2. /\ Cardinality(Missed(recv, List(b), Unseen(b), n)) <= slip[b]
        /\ \/ slip[b] >= Cardinality(Hook)
           \/ Cardinality(Missed(recv, List(b), Unseen(b), n)) + Cardinality(List(b))
                <= total[b] + slip[b]
    BY <1>8 DEF PageInv, CountedInv
  <2> HIDE DEF n
  <2>3. /\ Left(b, t) \in Nat /\ Came(b, t) \in Nat /\ slip'[b] \in Nat
        /\ slip'[b] = slip[b] + Left(b, t) + Came(b, t) \/ slip'[b] >= Cardinality(Hook)
    BY <1>8, SlipsSafe
  <2>4. /\ Cardinality(Missed(recv, L, U, n)) <= slip'[b]
        /\ slip'[b] >= Cardinality(Hook)
             \/ Cardinality(Missed(recv, L, U, n)) + Cardinality(L) <= total[b] + slip'[b]
    BY <1>5, <1>6, <2>1, <2>2, <2>3
  <2>5. CountedInv(b)'
    BY <1>3, <1>7, <2>4 DEF CountedInv, n, Offset
  <2> QED
    BY <1>7, <1>8, <2>5
<1>9. CASE pc[b] = "shown"
  <2> DEFINE n == Offset(page[b]) + PageSize
  <2>1. n \in Nat
    BY <1>5, DashboardAssumption DEF Offset
  <2>2. /\ Cardinality(Missed(recv, List(b), Unseen(b), n)) <= slip[b]
        /\ ~HasNext(b) => Cardinality(Unseen(b)) <= slip[b]
    BY <1>9 DEF PageInv, ShownInv
  <2> HIDE DEF n
  <2>3. /\ Left(b, t) \in Nat /\ Came(b, t) \in Nat /\ slip'[b] \in Nat
        /\ slip'[b] = slip[b] + Left(b, t) + 0 \/ slip'[b] >= Cardinality(Hook)
    BY <1>9, SlipsSafe
  <2>4. /\ Cardinality(Missed(recv, L, U, n)) <= slip'[b]
        /\ ~HasNext(b) => Cardinality(U) <= slip'[b]
    BY <1>5, <1>6, <2>1, <2>2, <2>3
  <2>5. HasNext(b)' <=> HasNext(b)
    BY <1>7 DEF HasNext, Offset
  <2>6. ShownInv(b)'
    BY <1>3, <1>7, <2>4, <2>5 DEF ShownInv, n, Offset
  <2> QED
    BY <1>7, <1>9, <2>6
<1> QED
  BY <1>7, <1>8, <1>9 DEF TypeOK

\* The listing of a tab is a set of rows of the table, which have distinct times.
LEMMA ListSafe ==
  ASSUME TypeOK, RowInv, RecvDistinct, NEW b \in Browser
  PROVE  /\ recv \in [Hook -> Nat] /\ List(b) \in SUBSET Hook /\ Ordered(recv, List(b))
         /\ \A h \in List(b) : row[h] # Absent /\ recv[h] # 0
         /\ Unseen(b) \in SUBSET Hook
<1>1. List(b) \in SUBSET Hook /\ \A h \in List(b) : row[h] # Absent
  BY DEF List, Listed
<1>2. \A h \in List(b) : recv[h] # 0
  BY <1>1 DEF RowInv, Saved
<1>3. Ordered(recv, List(b))
  BY <1>1, <1>2 DEF Ordered, RecvDistinct
<1>4. Unseen(b) \in SUBSET Hook
  BY DEF TypeOK, Unseen
<1> QED
  BY <1>1, <1>2, <1>3, <1>4 DEF TypeOK

\* A commit on row h.
LEMMA CommitWalk ==
  ASSUME TypeOK, RowInv, WalkInv, NEW w, NEW h \in Hook, NEW st, NEW t, Commit(w, h, st, t),
         \A g \in Hook : g # h => t[g] = row[g],
         row[h] # Absent => t[h] # Absent,
         Saved(h) /\ t[h] # Absent => row[h] # Absent
  PROVE  PageInv'
<1>1. row' = t /\ Slips(t) /\ UNCHANGED <<recv, listing, unseen>>
  BY DEF Commit
<1> SUFFICES ASSUME NEW b \in Browser
             PROVE  (pc'[b] = "counted" => CountedInv(b)') /\ (pc'[b] = "shown" => ShownInv(b)')
  BY DEF PageInv
<1>2. PICK S, T : S = List(b) /\ T = Listed(t, filter[b])
  OBVIOUS
<1>3. /\ recv \in [Hook -> Nat] /\ S \in SUBSET Hook /\ Ordered(recv, S) /\ Unseen(b) \in SUBSET Hook
      /\ T \in SUBSET Hook
  BY <1>2, ListSafe DEF WalkInv, Listed
<1>4. S \ {h} = T \ {h}
  BY <1>2 DEF List, Listed
<1>5. {g \in unseen[b] : t[g] # Absent} = Unseen(b)
  <2>1. \A g \in unseen[b] : g \in Hook /\ Saved(g)
    BY DEF TypeOK, WalkInv, UnseenInv
  <2> QED
    BY <2>1 DEF Unseen
<1>6. Left(b, t) = Cardinality(S \ T) /\ Came(b, t) = Cardinality(T \ S)
  <2>1. {g \in S \ T : t[g] # Absent} = S \ T
    <3>1. \A g \in S : row[g] # Absent
      BY <1>2 DEF List, Listed
    <3> QED
      BY <1>3, <3>1
  <2> QED
    BY <1>2, <2>1 DEF Left, Came
<1>7. ASSUME NEW n \in Nat
      PROVE  /\ Cardinality(Missed(recv, T, Unseen(b), n))
                  <= Cardinality(Missed(recv, S, Unseen(b), n)) + Cardinality(S \ T)
             /\ Cardinality(Missed(recv, T, Unseen(b), n)) + Cardinality(T)
                  <= Cardinality(Missed(recv, S, Unseen(b), n)) + Cardinality(S) + Cardinality(S \ T)
                     + Cardinality(T \ S)
  BY <1>3, <1>4, ChangeMissed
<1> QED
  BY <1>1, <1>2, <1>5, <1>6, <1>7, TableStep DEF WalkInv

\* The sweep.
LEMMA SweepWalk ==
  ASSUME TypeOK, RowInv, WalkInv, NEW cutoff \in Int, Sweep(cutoff)
  PROVE  PageInv'
<1>1. PICK t : t = [h \in Hook |-> IF recv[h] < cutoff THEN Absent ELSE row[h]]
  OBVIOUS
<1>2. row' = t /\ Slips(t) /\ UNCHANGED <<recv, listing, unseen>>
  BY <1>1 DEF Sweep
<1> SUFFICES ASSUME NEW b \in Browser
             PROVE  (pc'[b] = "counted" => CountedInv(b)') /\ (pc'[b] = "shown" => ShownInv(b)')
  BY DEF PageInv
<1>3. PICK S, T, U : S = List(b) /\ T = Listed(t, filter[b]) /\ U = {h \in unseen[b] : t[h] # Absent}
  OBVIOUS
<1>4. /\ recv \in [Hook -> Nat] /\ S \in SUBSET Hook /\ Unseen(b) \in SUBSET Hook
      /\ T \in SUBSET Hook
  BY <1>3, ListSafe DEF WalkInv, Listed
<1>5. T = {h \in S : recv[h] >= cutoff} /\ U = {h \in Unseen(b) : recv[h] >= cutoff}
  <2>1. \A h \in Hook : recv[h] \in Nat /\ (recv[h] >= cutoff <=> ~(recv[h] < cutoff))
    BY <1>4
  <2>2. \A h \in Hook : t[h] = IF recv[h] >= cutoff THEN row[h] ELSE Absent
    BY <1>1, <2>1
  <2>3. unseen[b] \subseteq Hook
    BY DEF TypeOK
  <2> QED
    BY <1>3, <2>2, <2>3 DEF List, Listed, Unseen
<1>6. Left(b, t) \in Nat /\ Came(b, t) \in Nat
  <2>1. /\ {h \in List(b) \ Listed(t, filter[b]) : t[h] # Absent} \in SUBSET Hook
        /\ Listed(t, filter[b]) \ List(b) \in SUBSET Hook
    BY <1>3, <1>4
  <2> QED
    BY <2>1, CountNat DEF Left, Came
<1>7. ASSUME NEW n \in Nat
      PROVE  /\ Cardinality(Missed(recv, T, U, n))
                  <= Cardinality(Missed(recv, S, Unseen(b), n)) + Left(b, t)
             /\ Cardinality(Missed(recv, T, U, n)) + Cardinality(T)
                  <= Cardinality(Missed(recv, S, Unseen(b), n)) + Cardinality(S) + Left(b, t)
                     + Came(b, t)
  <2>1. Missed(recv, T, U, n) \subseteq Missed(recv, S, Unseen(b), n)
    BY <1>4, <1>5, SweepMissed
  <2>2. Missed(recv, S, Unseen(b), n) \in SUBSET Hook /\ T \in SUBSET S
    BY <1>4, <1>5 DEF Missed
  <2>3. /\ Cardinality(Missed(recv, T, U, n)) <= Cardinality(Missed(recv, S, Unseen(b), n))
        /\ Cardinality(Missed(recv, T, U, n)) \in Nat
        /\ Cardinality(Missed(recv, S, Unseen(b), n)) \in Nat
    BY <2>1, <2>2, CountRows
  <2>4. Cardinality(T) \in Nat /\ Cardinality(S) \in Nat /\ Cardinality(T) <= Cardinality(S)
    BY <1>4, <2>2, CountRows
  <2> QED
    BY <1>6, <2>3, <2>4
<1>8. U \subseteq Unseen(b)
  BY <1>5
<1> QED
  BY <1>2, <1>3, <1>7, <1>8, TableStep DEF WalkInv

\* A step that leaves the table and the page of tab b alone, or takes the page away.
LEMMA PageFrame ==
  ASSUME TypeOK, RowInv, WalkInv, NEW b \in Browser, row' = row,
         \A h \in Hook : recv[h] # 0 => recv'[h] = recv[h],
         pc'[b] \in {pc[b], "closed"},
         filter'[b] = filter[b], page'[b] = page[b], total'[b] = total[b],
         unseen'[b] = unseen[b], slip'[b] = slip[b]
  PROVE  (pc'[b] = "counted" => CountedInv(b)') /\ (pc'[b] = "shown" => ShownInv(b)')
<1>1. List(b)' = List(b) /\ Unseen(b)' = Unseen(b)
  BY DEF List, Unseen
<1>2. \A h \in List(b) : h \in Hook /\ recv'[h] = recv[h]
  BY ListSafe DEF WalkInv
<1>3. \A h \in List(b) : {g \in List(b) : recv'[g] > recv'[h]} = {g \in List(b) : recv[g] > recv[h]}
  BY <1>2
<1>4. \A h \in List(b) : Rank(recv', List(b), h) = Rank(recv, List(b), h)
  BY <1>3 DEF Rank
<1>5. \A n : Missed(recv', List(b), Unseen(b), n) = Missed(recv, List(b), Unseen(b), n)
  BY <1>4 DEF Missed
<1>6. pc[b] = "counted" => CountedInv(b)
  BY DEF WalkInv, PageInv
<1>7. pc[b] = "shown" => ShownInv(b)
  BY DEF WalkInv, PageInv
<1>8. CASE pc'[b] = "counted"
  <2>1. CountedInv(b)
    BY <1>6, <1>8
  <2>2. CountedInv(b)'
    BY <1>1, <1>5, <2>1 DEF CountedInv, Offset
  <2> QED
    BY <1>8, <2>2
<1>9. CASE pc'[b] = "shown"
  <2>1. ShownInv(b)
    BY <1>7, <1>9
  <2>2. ShownInv(b)'
    BY <1>1, <1>5, <2>1 DEF ShownInv, HasNext, Offset
  <2> QED
    BY <1>9, <2>2
<1> QED
  BY <1>8, <1>9

----------------------------------------------------------------------------
(* Steps of the reader. *)

\* The pages follow each other.
LEMMA OffsetStep ==
  ASSUME NEW n \in Nat, n >= 1
  PROVE  /\ Offset(n) \in Nat /\ Offset(n + 1) = Offset(n) + PageSize
         /\ Offset(1) = 0 /\ PageSize \in Nat /\ PageSize >= 1
<1>1. PageSize \in Nat /\ PageSize >= 1
  BY DashboardAssumption
<1>2. ASSUME NEW m \in Nat PROVE m * PageSize \in Nat /\ (m + 1) * PageSize = m * PageSize + PageSize
  BY <1>1
<1>3. n - 1 \in Nat /\ (n + 1) - 1 = (n - 1) + 1 /\ (1 - 1) * PageSize = 0
  BY <1>1
<1> QED
  BY <1>1, <1>2, <1>3 DEF Offset

\* Who stands higher up misses no more.
LEMMA MissedGrows ==
  ASSUME NEW r \in [Hook -> Nat], NEW S \in SUBSET Hook, NEW P \in SUBSET Hook,
         NEW m \in Nat, NEW n \in Nat, m <= n
  PROVE  Cardinality(Missed(r, S, P, m)) <= Cardinality(Missed(r, S, P, n))
<1>1. \A h \in S : Rank(r, S, h) \in Nat
  BY RankSafe
<1>2. Missed(r, S, P, m) \in SUBSET Missed(r, S, P, n) /\ Missed(r, S, P, n) \in SUBSET Hook
  BY <1>1 DEF Missed
<1> QED
  BY <1>2, CountRows

\* The COUNT of page n, which is the first page or next to the one that is shown.
LEMMA CountWalk ==
  ASSUME TypeOK, RowInv, WalkInv, NEW b \in Browser, NEW f, NEW n \in Nat, n >= 1, Count(b, f, n),
         n = 1 \/ (pc[b] = "shown" /\ f = filter[b]
                   /\ Offset(n) <= Offset(page[b]) + PageSize)
  PROVE  pc'[b] = "counted" /\ CountedInv(b)'
<1>1. /\ pc'[b] = "counted" /\ filter'[b] = f /\ page'[b] = n
      /\ total'[b] = Cardinality(Listed(row, f))
      /\ unseen'[b] = IF n = 1 THEN {} ELSE unseen[b]
      /\ slip'[b] = IF n = 1 THEN 0 ELSE slip[b]
      /\ recv' = recv /\ row' = row
  BY DEF Count, TypeOK, table
<1>2. PICK L, U : L = Listed(row, f) /\ U = {h \in unseen'[b] : row[h] # Absent}
  OBVIOUS
<1>3. List(b)' = L /\ Unseen(b)' = U
  BY <1>1, <1>2 DEF List, Unseen
<1>4. L \in SUBSET Hook /\ U \in SUBSET Hook /\ recv \in [Hook -> Nat]
  BY <1>1, <1>2 DEF TypeOK, Listed
<1>5. Cardinality(L) \in Nat /\ Cardinality(Missed(recv, L, U, Offset(n))) \in Nat
      /\ slip'[b] \in Nat
  <2>1. Missed(recv, L, U, Offset(n)) \in SUBSET Hook
    BY <1>4 DEF Missed
  <2> QED
    BY <1>1, <1>4, <2>1, CountNat DEF TypeOK
<1>6. Cardinality(Missed(recv, L, U, Offset(n))) <= slip'[b]
  <2>1. CASE n = 1
    <3>1. Missed(recv, L, U, Offset(n)) = {}
      BY <1>1, <1>2, <2>1 DEF Missed
    <3> QED
      BY <1>1, <2>1, <3>1, FS_EmptySet
  <2>2. CASE n # 1
    <3> DEFINE m == Offset(page[b]) + PageSize
    <3>1. pc[b] = "shown" /\ f = filter[b] /\ Offset(n) <= m
      BY <2>2
    <3>2. Offset(n) \in Nat /\ m \in Nat
      <4>1. page[b] \in Nat /\ page[b] >= 1
        BY DEF TypeOK
      <4> QED
        BY <4>1, OffsetStep
    <3>3. L = List(b) /\ U = Unseen(b) /\ slip'[b] = slip[b]
      BY <1>1, <1>2, <2>2, <3>1 DEF List, Unseen
    <3>4. Cardinality(Missed(recv, L, U, m)) <= slip[b]
      BY <3>1, <3>3 DEF WalkInv, PageInv, ShownInv
    <3>5. Missed(recv, L, U, m) \in SUBSET Hook
      BY <1>4 DEF Missed
    <3> HIDE DEF m
    <3>6. Cardinality(Missed(recv, L, U, Offset(n))) <= Cardinality(Missed(recv, L, U, m))
      BY <1>4, <3>1, <3>2, MissedGrows
    <3>7. Cardinality(Missed(recv, L, U, m)) \in Nat /\ slip[b] \in Nat
      BY <3>5, CountNat DEF TypeOK
    <3> QED
      BY <1>5, <3>3, <3>4, <3>6, <3>7
  <2> QED
    BY <2>1, <2>2
<1>7. total'[b] = Cardinality(L)
  BY <1>1, <1>2
<1>8. Cardinality(Missed(recv, L, U, Offset(n))) + Cardinality(L) <= total'[b] + slip'[b]
  BY <1>5, <1>6, <1>7
<1>9. CountedInv(b)'
  BY <1>1, <1>3, <1>6, <1>8 DEF CountedInv, Offset
<1> QED
  BY <1>1, <1>9

\* The SELECT of a page: what is above it was missed before, what is on it is shown,
\* and what is below it, if it is the last page, was not there for the COUNT.
LEMMA SelectWalk ==
  ASSUME TypeOK, RowInv, WalkInv, NEW b \in Browser, Select(b)
  PROVE  pc'[b] = "shown" /\ ShownInv(b)'
<1>1. PICK L, U, n, m : /\ L = List(b) /\ U = Unseen(b)
                        /\ n = Offset(page[b]) /\ m = Offset(page[b]) + PageSize
  OBVIOUS
<1>2. /\ recv \in [Hook -> Nat] /\ L \in SUBSET Hook /\ Ordered(recv, L) /\ U \in SUBSET Hook
      /\ \A h \in L : row[h] # Absent
  BY <1>1, ListSafe DEF WalkInv
<1>3. /\ n \in Nat /\ m \in Nat /\ m = n + PageSize /\ PageSize \in Nat /\ PageSize >= 1
      /\ page[b] = 1 => n = 0
  <2>1. page[b] \in Nat /\ page[b] >= 1
    BY DEF TypeOK
  <2> QED
    BY <1>1, <2>1, OffsetStep
<1>4. /\ pc[b] = "counted" /\ pc'[b] = "shown"
      /\ unseen'[b] = (IF page[b] = 1 THEN L ELSE unseen[b]) \ Slice(L, n)
      /\ row' = row /\ recv' = recv /\ filter' = filter /\ page' = page /\ total' = total
      /\ slip' = slip
  BY <1>1 DEF Select, TypeOK, List, table
<1>5. PICK V : V = {h \in unseen'[b] : row[h] # Absent}
  OBVIOUS
<1>6. List(b)' = L /\ Unseen(b)' = V
  BY <1>1, <1>4, <1>5 DEF List, Unseen
<1>7. V \in SUBSET Hook /\ \A h \in V : h \in L \/ h \in U
  BY <1>1, <1>2, <1>4, <1>5 DEF Unseen, TypeOK
<1>8. ASSUME NEW h \in V
      PROVE  /\ h \in L => Rank(recv, L, h) \in Nat
             /\ h \in L => Rank(recv, L, h) < n \/ Rank(recv, L, h) >= m
             /\ h \notin L \/ Rank(recv, L, h) < n => h \in U
  <2>1. h \notin Slice(L, n)
    BY <1>4, <1>5
  <2>2. h \in L => Rank(recv, L, h) \in Nat
    BY <1>2, RankSafe
  <2>3. h \in L => ~(Rank(recv, L, h) \in n..n + PageSize - 1)
    BY <2>1 DEF Slice, Rank
  <2>4. h \in L => Rank(recv, L, h) < n \/ Rank(recv, L, h) >= m
    BY <1>3, <2>2, <2>3
  <2>5. page[b] # 1 => h \in U
    BY <1>1, <1>4, <1>5 DEF Unseen
  <2>6. page[b] = 1 => h \in L /\ n = 0
    BY <1>3, <1>4, <1>5
  <2> QED
    BY <2>2, <2>4, <2>5, <2>6
<1>9. Missed(recv, L, V, m) \subseteq Missed(recv, L, U, n)
  <2> SUFFICES ASSUME NEW h \in Missed(recv, L, V, m) PROVE h \in Missed(recv, L, U, n)
    OBVIOUS
  <2>1. h \in V /\ (h \in L => Rank(recv, L, h) < m)
    BY DEF Missed
  <2>2. h \in L => Rank(recv, L, h) < n
    BY <1>3, <1>8, <2>1
  <2> QED
    BY <1>8, <2>1, <2>2 DEF Missed
<1>10. V \subseteq Missed(recv, L, U, n) \cup Below(recv, L, m)
  BY <1>8 DEF Missed, Below
<1>11. /\ Missed(recv, L, U, n) \in SUBSET Hook /\ Below(recv, L, m) \in SUBSET Hook
       /\ Cardinality(Missed(recv, L, U, n)) \in Nat /\ Cardinality(Below(recv, L, m)) \in Nat
       /\ Cardinality(L) \in Nat /\ Cardinality(V) \in Nat /\ Cardinality(Hook) \in Nat
       /\ slip[b] \in Nat /\ total[b] \in Nat
  <2>1. Missed(recv, L, U, n) \in SUBSET Hook /\ Below(recv, L, m) \in SUBSET Hook
    BY <1>2 DEF Missed, Below
  <2> QED
    BY <1>2, <1>7, <2>1, CountNat DEF TypeOK
<1>12. /\ Cardinality(Missed(recv, L, U, n)) <= slip[b]
       /\ slip[b] >= Cardinality(Hook)
            \/ Cardinality(Missed(recv, L, U, n)) + Cardinality(L) <= total[b] + slip[b]
  BY <1>1, <1>4 DEF WalkInv, PageInv, CountedInv
<1>13. Cardinality(Missed(recv, L, V, m)) <= slip[b]
  <2>1. /\ Cardinality(Missed(recv, L, V, m)) <= Cardinality(Missed(recv, L, U, n))
        /\ Cardinality(Missed(recv, L, V, m)) \in Nat
    BY <1>9, <1>11, CountRows
  <2> QED
    BY <1>11, <1>12, <2>1
<1>14. ASSUME m >= total[b] PROVE Cardinality(V) <= slip[b]
  <2>1. Cardinality(V) <= Cardinality(Hook)
    BY <1>7, CountRows
  <2>2. Cardinality(V) <= Cardinality(Missed(recv, L, U, n)) + Cardinality(Below(recv, L, m))
    <3>1. IsFiniteSet(Missed(recv, L, U, n)) /\ IsFiniteSet(Below(recv, L, m))
      BY <1>11, CountRows
    <3>2. /\ IsFiniteSet(Missed(recv, L, U, n) \cup Below(recv, L, m))
          /\ Cardinality(Missed(recv, L, U, n) \cup Below(recv, L, m))
               = Cardinality(Missed(recv, L, U, n)) + Cardinality(Below(recv, L, m))
                 - Cardinality(Missed(recv, L, U, n) \cap Below(recv, L, m))
      BY <3>1, FS_Union
    <3>3. Cardinality(Missed(recv, L, U, n) \cap Below(recv, L, m)) \in Nat
      <4>1. Missed(recv, L, U, n) \cap Below(recv, L, m) \in SUBSET Hook
        BY <1>11
      <4> QED
        BY <4>1, CountNat
    <3>4. Cardinality(V) <= Cardinality(Missed(recv, L, U, n) \cup Below(recv, L, m))
      BY <1>10, <3>2, FS_Subset
    <3> QED
      BY <1>11, <3>2, <3>3, <3>4
  <2>3. \/ Cardinality(Below(recv, L, m)) = 0
        \/ Cardinality(Below(recv, L, m)) + m <= Cardinality(L)
    BY <1>2, <1>3, BelowBound
  <2> QED
    BY <1>3, <1>11, <1>12, <1>14, <2>1, <2>2, <2>3
<1>15. HasNext(b)' <=> m < total[b]
  BY <1>1, <1>4 DEF HasNext, Offset
<1>16. ShownInv(b)'
  <2>1. ~HasNext(b)' => Cardinality(V) <= slip[b]
    BY <1>3, <1>11, <1>14, <1>15
  <2> QED
    BY <1>1, <1>4, <1>6, <1>13, <2>1 DEF ShownInv, Offset
<1> QED
  BY <1>4, <1>16

----------------------------------------------------------------------------
(* The reader's invariant. *)

\* What has been inserted is never to be inserted again.
LEMMA SavedStays ==
  ASSUME TypeInv, Next
  PROVE  \A h \in Hook : Saved(h) => Saved(h)'
<1>0. TypeOK /\ NoTask.phase = "none" /\ Hook \subseteq Writer
  BY DEF TypeInv, NoTask, Writer
<1>1. ASSUME NEW g \in Hook, Receive(g) PROVE \A h \in Hook : Saved(h) => Saved(h)'
  <2>1. recv[g] = 0 /\ \A h \in Hook : h # g => recv'[h] = recv[h]
    BY <1>1, ReceiveRecv
  <2>2. \A h \in Hook : h # g => task'[h] = task[h]
    BY <1>0, <1>1 DEF Receive, TypeOK
  <2> QED
    BY <2>1, <2>2 DEF Saved
<1>2. ASSUME NEW w \in Writer, NEW x, task' = [task EXCEPT ![w] = x], recv' = recv, x.phase # "save"
      PROVE  \A h \in Hook : Saved(h) => Saved(h)'
  <2>1. \A h \in Hook : task'[h] = IF h = w THEN x ELSE task[h]
    BY <1>0, <1>2 DEF TypeOK
  <2> QED
    BY <1>2, <2>1 DEF Saved
<1>3. ASSUME NEW w \in Writer, NEW h \in Hook, NEW st, NEW t, Commit(w, h, st, t)
      PROVE  \A g \in Hook : Saved(g) => Saved(g)'
  <2> DEFINE x == [phase |-> "publish", id |-> h, st |-> st]
  <2>1. task' = [task EXCEPT ![w] = x] /\ recv' = recv /\ x.phase # "save"
    BY <1>3 DEF Commit
  <2> HIDE DEF x
  <2> QED
    BY <1>2, <2>1
<1>4. ASSUME NEW h \in Hook, SaveWebhook(h) PROVE \A g \in Hook : Saved(g) => Saved(g)'
  BY <1>0, <1>3, <1>4 DEF SaveWebhook
<1>5. ASSUME NEW w \in Writer, NEW h \in Hook, GetWebhook(w, h)
      PROVE  \A g \in Hook : Saved(g) => Saved(g)'
  <2> DEFINE x == [phase |-> "job", id |-> h, st |-> Pending]
  <2>1. task' = [task EXCEPT ![w] = x] /\ recv' = recv /\ x.phase # "save"
    BY <1>5 DEF GetWebhook, table
  <2> HIDE DEF x
  <2> QED
    BY <1>2, <2>1
<1>6. ASSUME NEW w \in Writer, NEW st, MarkDelivered(w, st)
      PROVE  \A g \in Hook : Saved(g) => Saved(g)'
  <2>1. task[w].phase = "job"
    BY <1>6 DEF MarkDelivered
  <2>2. task[w].id \in Hook
    BY <1>0, <2>1, TaskFields
  <2> QED
    BY <1>3, <1>6, <2>2 DEF MarkDelivered
<1>7. ASSUME NEW w \in Writer, GiveUp(w) PROVE \A g \in Hook : Saved(g) => Saved(g)'
  <2>1. task' = [task EXCEPT ![w] = NoTask] /\ recv' = recv
    BY <1>7 DEF GiveUp, table
  <2> QED
    BY <1>0, <1>2, <2>1
<1>8. ASSUME NEW w \in Writer, Publish(w) PROVE \A g \in Hook : Saved(g) => Saved(g)'
  <2>1. PICK x : x = IF w \in Hook /\ task[w].st = Pending
                     THEN [task[w] EXCEPT !.phase = "job"] ELSE NoTask
    OBVIOUS
  <2>2. task' = [task EXCEPT ![w] = x] /\ recv' = recv
    BY <1>8, <2>1 DEF Publish, table
  <2>3. task[w].phase = "publish"
    BY <1>8 DEF Publish
  <2>4. x.phase # "save"
    BY <1>0, <2>1, <2>3, TaskFields
  <2> QED
    BY <1>2, <2>2, <2>4
<1>9. ASSUME UNCHANGED <<recv, task>> PROVE \A g \in Hook : Saved(g) => Saved(g)'
  BY <1>9 DEF Saved
<1>10. ASSUME NEW cutoff, Sweep(cutoff) PROVE UNCHANGED <<recv, task>>
  BY <1>10 DEF Sweep
<1>11. CASE Restart
  <2>1. \A h \in Hook : task'[h] = NoTask /\ recv' = recv
    BY <1>0, <1>11 DEF Restart, table
  <2> QED
    BY <1>0, <2>1 DEF Saved
<1>12. ASSUME NEW b \in Browser, TabNext(b) PROVE UNCHANGED <<recv, task>>
  BY <1>12 DEF TabNext, Open, Follow, Count, Select, LoadFails, Subscribe, StreamLost, ReceiveEvent, table
<1> QED
  BY <1>0, <1>1, <1>4, <1>5, <1>6, <1>7, <1>8, <1>9, <1>10, <1>11, <1>12
     DEF Next, WriterNext, Writer

\* received_at stays distinct: the next one is later than all.
LEMMA DistinctStays ==
  ASSUME TypeInv, RecvDistinct, Next
  PROVE  RecvDistinct' /\ \A h \in Hook : recv[h] # 0 => recv'[h] = recv[h]
<1>1. ASSUME NEW h \in Hook, Receive(h)
      PROVE  RecvDistinct' /\ \A g \in Hook : recv[g] # 0 => recv'[g] = recv[g]
  <2> DEFINE m == Max({recv[g] : g \in Hook})
  <2>1. recv[h] = 0 /\ recv' = [recv EXCEPT ![h] = 1 + m]
    BY <1>1 DEF Receive
  <2>2. m \in Nat /\ \A g \in Hook : recv[g] <= m
    BY LatestRecv
  <2>3. recv \in [Hook -> Nat]
    BY DEF TypeInv, TypeOK
  <2> HIDE DEF m
  <2>4. \A g \in Hook : recv'[g] = IF g = h THEN 1 + m ELSE recv[g]
    BY <2>1, <2>3
  <2>5. \A g \in Hook : recv[g] \in Nat /\ recv[g] # 1 + m
    BY <2>2, <2>3
  <2> QED
    BY <2>1, <2>4, <2>5 DEF RecvDistinct
<1>2. CASE recv' = recv
  BY <1>2 DEF RecvDistinct
<1>3. CASE ~\E h \in Hook : Receive(h)
  <2>1. recv' = recv
    BY <1>3 DEF Next, WriterNext, SaveWebhook, GetWebhook, Publish, GiveUp, MarkDelivered, Commit,
                Sweep, Restart, TabNext, Open, Follow, Count, Select, LoadFails, Subscribe,
                StreamLost, ReceiveEvent, table
  <2> QED
    BY <1>2, <2>1
<1> QED
  BY <1>1, <1>3

\* unseen has only rows of the table.
LEMMA UnseenStays ==
  ASSUME TypeInv, RowInv, UnseenInv, Next
  PROVE  UnseenInv'
<1>0. TypeOK
  BY DEF TypeInv
<1>1. ASSUME NEW b \in Browser, NEW h \in unseen'[b] PROVE h \in Hook /\ Saved(h)
  <2>1. CASE unseen'[b] \subseteq unseen[b]
    BY <1>0, <2>1 DEF UnseenInv, TypeOK
  <2>2. CASE ~(unseen'[b] \subseteq unseen[b])
    <3>1. ASSUME WriterNext PROVE FALSE
      <4>1. unseen' = unseen
        BY <3>1 DEF WriterNext, Receive, SaveWebhook, GetWebhook, Publish, GiveUp, MarkDelivered,
                    Commit, Sweep, Restart, walk
      <4> QED
        BY <2>2, <4>1
    <3>2. ASSUME NEW c \in Browser, TabNext(c) PROVE Select(b)
      <4>1. ASSUME NEW f, NEW n, Count(c, f, n) PROVE FALSE
        BY <1>0, <2>2, <4>1 DEF Count, TypeOK
      <4>2. CASE Select(c)
        <5>1. c = b
          BY <1>0, <2>2, <4>2 DEF Select, TypeOK
        <5> QED
          BY <4>2, <5>1
      <4>3. CASE LoadFails(c) \/ Subscribe(c) \/ StreamLost(c) \/ ReceiveEvent(c)
        BY <2>2, <4>3 DEF LoadFails, Subscribe, StreamLost, ReceiveEvent, walk
      <4> QED
        BY <3>2, <4>1, <4>2, <4>3 DEF TabNext, Open, Follow
    <3>3. Select(b)
      BY <3>1, <3>2 DEF Next
    <3>4. unseen'[b] \subseteq unseen[b] \cup List(b)
      BY <1>0, <3>3 DEF Select, List, TypeOK
    <3>5. h \in unseen[b] \/ h \in List(b)
      BY <3>4
    <3> QED
      BY <1>0, <3>5 DEF UnseenInv, TypeOK, RowInv, List, Listed
  <2> QED
    BY <2>1, <2>2
<1> QED
  BY <1>1, SavedStays DEF UnseenInv

\* Every step of the writers keeps PageInv.
LEMMA WriterWalk ==
  ASSUME TypeInv, BackInv, WalkInv, WriterNext
  PROVE  PageInv'
<1>0. TypeOK /\ TaskInv /\ RowInv /\ RecvDistinct /\ Hook \subseteq Writer
  BY DEF TypeInv, BackInv, WalkInv, Writer
<1>1. ASSUME row' = row, UNCHANGED <<filter, page, total, walk>>,
             \A b \in Browser : pc'[b] \in {pc[b], "closed"}
      PROVE  PageInv'
  <2>1. \A h \in Hook : recv[h] # 0 => recv'[h] = recv[h]
    BY <1>0, DistinctStays DEF Next
  <2> SUFFICES ASSUME NEW b \in Browser
               PROVE  (pc'[b] = "counted" => CountedInv(b)') /\ (pc'[b] = "shown" => ShownInv(b)')
    BY DEF PageInv
  <2> QED
    BY <1>0, <1>1, <2>1, PageFrame DEF walk
<1>2. ASSUME NEW h \in Hook, Receive(h) PROVE PageInv'
  BY <1>1, <1>2 DEF Receive, listing
<1>3. ASSUME NEW h \in Hook, SaveWebhook(h) PROVE PageInv'
  <2>1. PICK t : t = [row EXCEPT ![h] = Pending]
    OBVIOUS
  <2>2. task[h].phase = "save" /\ Commit(h, h, Pending, t)
    BY <1>3, <2>1 DEF SaveWebhook
  <2>3. t[h] = Pending /\ \A g \in Hook : g # h => t[g] = row[g]
    BY <1>0, <2>1 DEF TypeOK
  <2>4. ~Saved(h) /\ t[h] # Absent
    BY <2>2, <2>3, StatusNotPending DEF Saved
  <2> QED
    BY <1>0, <2>2, <2>3, <2>4, CommitWalk
<1>4. ASSUME NEW w \in Writer, NEW h \in Hook, GetWebhook(w, h) PROVE PageInv'
  BY <1>1, <1>4 DEF GetWebhook, table, listing
<1>5. ASSUME NEW w \in Writer, NEW st \in Status, MarkDelivered(w, st) PROVE PageInv'
  <2>1. PICK h, t : /\ h = task[w].id
                    /\ t = [row EXCEPT ![h] = IF @ = Absent THEN Absent ELSE st]
    OBVIOUS
  <2>2. task[w].phase = "job" /\ Commit(w, h, st, t)
    BY <1>5, <2>1 DEF MarkDelivered
  <2>3. h \in Hook
    BY <1>0, <2>1, <2>2, TaskFields
  <2>4. /\ \A g \in Hook : g # h => t[g] = row[g]
        /\ t[h] = IF row[h] = Absent THEN Absent ELSE st
    BY <1>0, <2>1, <2>3 DEF TypeOK
  <2>5. st # Absent
    BY StatusNotPending
  <2> QED
    BY <1>0, <2>2, <2>3, <2>4, <2>5, CommitWalk
<1>6. ASSUME NEW w \in Writer, GiveUp(w) PROVE PageInv'
  BY <1>1, <1>6 DEF GiveUp, table, listing
<1>7. ASSUME NEW w \in Writer, Publish(w) PROVE PageInv'
  BY <1>1, <1>7 DEF Publish, table, listing
<1>8. ASSUME NEW cutoff \in 2..Cardinality(Hook) + 1, Sweep(cutoff) PROVE PageInv'
  BY <1>0, <1>8, SweepWalk
<1>9. CASE Restart
  BY <1>1, <1>9 DEF Restart, table
<1> QED
  BY <1>2, <1>3, <1>4, <1>5, <1>6, <1>7, <1>8, <1>9 DEF WriterNext, Writer

\* Every step of a tab keeps PageInv.
LEMMA TabWalk ==
  ASSUME TypeInv, BackInv, WalkInv, NEW b \in Browser, TabNext(b)
  PROVE  PageInv'
<1>0. TypeOK /\ RowInv
  BY DEF TypeInv, BackInv
<1>1. row' = row /\ recv' = recv
  BY DEF TabNext, Open, Follow, Count, Select, LoadFails, Subscribe, StreamLost, ReceiveEvent, table
<1>2. ASSUME NEW c \in Browser, pc'[c] \in {pc[c], "closed"}, filter'[c] = filter[c],
             page'[c] = page[c], total'[c] = total[c], unseen'[c] = unseen[c], slip'[c] = slip[c]
      PROVE  (pc'[c] = "counted" => CountedInv(c)') /\ (pc'[c] = "shown" => ShownInv(c)')
  BY <1>0, <1>1, <1>2, PageFrame
<1>3. ASSUME NEW c \in Browser \ {b}
      PROVE  (pc'[c] = "counted" => CountedInv(c)') /\ (pc'[c] = "shown" => ShownInv(c)')
  <2> DEFINE same == /\ pc'[c] = pc[c] /\ filter'[c] = filter[c] /\ page'[c] = page[c]
                     /\ total'[c] = total[c] /\ unseen'[c] = unseen[c] /\ slip'[c] = slip[c]
  <2>1. same
    <3>1. ASSUME NEW f, NEW n, Count(b, f, n) PROVE same
      BY <1>0, <3>1 DEF Count, TypeOK
    <3>2. CASE Select(b)
      BY <1>0, <3>2 DEF Select, TypeOK
    <3>3. CASE LoadFails(b) \/ Subscribe(b) \/ StreamLost(b) \/ ReceiveEvent(b)
      BY <1>0, <3>3 DEF LoadFails, Subscribe, StreamLost, ReceiveEvent, TypeOK, walk, listing
    <3> QED
      BY <3>1, <3>2, <3>3 DEF TabNext, Open, Follow
  <2> QED
    BY <1>2, <2>1
<1>4. (pc'[b] = "counted" => CountedInv(b)') /\ (pc'[b] = "shown" => ShownInv(b)')
  <2>1. ASSUME NEW f, Open(b, f) PROVE pc'[b] = "counted" /\ CountedInv(b)'
    <3>1. Count(b, f, 1) /\ 1 \in Nat /\ 1 >= 1
      BY <2>1 DEF Open
    <3> QED
      BY <1>0, <3>1, CountWalk
  <2>2. CASE Follow(b)
    <3>1. pc[b] = "shown" /\ page[b] \in Nat /\ page[b] >= 1
      BY <1>0, <2>2 DEF Follow, TypeOK
    <3>2. PICK p : p = page[b]
      OBVIOUS
    <3>3. CASE Count(b, filter[b], page[b] + 1)
      <4>1. p + 1 \in Nat /\ p + 1 >= 1 /\ Count(b, filter[b], p + 1)
        BY <3>1, <3>2, <3>3
      <4>2. Offset(p + 1) <= Offset(p) + PageSize
        <5>1. Offset(p + 1) = Offset(p) + PageSize /\ Offset(p) \in Nat /\ PageSize \in Nat
          BY <3>1, <3>2, OffsetStep
        <5> QED
          BY <5>1
      <4>3. pc'[b] = "counted" /\ CountedInv(b)'
        BY <1>0, <3>1, <3>2, <4>1, <4>2, CountWalk
      <4> QED
        BY <4>3
    <3>4. CASE HasPrev(b) /\ Count(b, filter[b], page[b] - 1)
      <4>1. p - 1 \in Nat /\ p - 1 >= 1 /\ Count(b, filter[b], p - 1)
        BY <3>1, <3>2, <3>4 DEF HasPrev
      <4>2. Offset(p - 1) <= Offset(p) + PageSize
        <5>1. /\ Offset(p - 1) \in Nat /\ PageSize \in Nat
              /\ Offset((p - 1) + 1) = Offset(p - 1) + PageSize
          BY <4>1, OffsetStep
        <5>2. (p - 1) + 1 = p
          BY <3>1, <3>2
        <5> QED
          BY <5>1, <5>2
      <4>3. pc'[b] = "counted" /\ CountedInv(b)'
        BY <1>0, <3>1, <3>2, <4>1, <4>2, CountWalk
      <4> QED
        BY <4>3
    <3> QED
      BY <2>2, <3>3, <3>4 DEF Follow
  <2>3. CASE Select(b)
    BY <1>0, <2>3, SelectWalk
  <2>4. CASE LoadFails(b)
    BY <1>0, <1>2, <2>4 DEF LoadFails, TypeOK, walk
  <2>5. CASE Subscribe(b) \/ StreamLost(b) \/ ReceiveEvent(b)
    BY <1>2, <2>5 DEF Subscribe, StreamLost, ReceiveEvent, walk, listing
  <2> QED
    BY <2>1, <2>2, <2>3, <2>4, <2>5 DEF TabNext
<1> QED
  BY <1>3, <1>4 DEF PageInv

\* It holds initially, and every step preserves it.
LEMMA InitWalk == Init => WalkInv
<1> SUFFICES ASSUME Init PROVE WalkInv
  OBVIOUS
<1>1. RecvDistinct
  BY DEF Init, RecvDistinct
<1>2. UnseenInv
  BY DEF Init, UnseenInv
<1>3. PageInv
  BY DEF Init, PageInv
<1> QED
  BY <1>1, <1>2, <1>3 DEF WalkInv

LEMMA NextWalk == TypeInv /\ BackInv /\ WalkInv /\ [Next]_vars => WalkInv'
<1> SUFFICES ASSUME TypeInv, BackInv, WalkInv, [Next]_vars PROVE WalkInv'
  OBVIOUS
<1>0. TypeOK /\ RowInv /\ RecvDistinct /\ UnseenInv
  BY DEF TypeInv, BackInv, WalkInv
<1>1. CASE Next
  <2>1. RecvDistinct'
    BY <1>0, <1>1, DistinctStays
  <2>2. UnseenInv'
    BY <1>0, <1>1, UnseenStays
  <2>3. PageInv'
    BY <1>1, WriterWalk, TabWalk DEF Next
  <2> QED
    BY <2>1, <2>2, <2>3 DEF WalkInv
<1>2. CASE UNCHANGED vars
  <2>1. UNCHANGED <<row, recv, task, pc, filter, page, total, unseen, slip>>
    BY <1>2 DEF vars, table, listing, walk
  <2>2. RecvDistinct' /\ UnseenInv'
    BY <1>0, <2>1 DEF RecvDistinct, UnseenInv, Saved
  <2>3. PageInv'
    <3> SUFFICES ASSUME NEW b \in Browser
                 PROVE  (pc'[b] = "counted" => CountedInv(b)') /\ (pc'[b] = "shown" => ShownInv(b)')
      BY DEF PageInv
    <3> QED
      BY <1>0, <2>1, PageFrame
  <2> QED
    BY <2>2, <2>3 DEF WalkInv
<1> QED
  BY <1>1, <1>2

\* Paging to the end (ListWebhooks, newPagination) skips no row that stays listed,
\* except for one at most for every row that left the listing on the way, or came
\* between a COUNT and its SELECT.
THEOREM WalkSkipsFew == Spec => []WalkSkipsAtMostSlips
<1>1. TypeInv /\ WalkInv => WalkSkipsAtMostSlips
  <2> SUFFICES ASSUME TypeOK, WalkInv, NEW b \in Browser, pc[b] = "shown", ~HasNext(b)
               PROVE  Cardinality(unseen[b] \cap Listed(row, filter[b])) <= slip[b]
    BY DEF TypeInv, WalkSkipsAtMostSlips
  <2>1. Cardinality(Unseen(b)) <= slip[b]
    BY DEF WalkInv, PageInv, ShownInv
  <2>2. /\ unseen[b] \cap Listed(row, filter[b]) \in SUBSET Unseen(b)
        /\ Unseen(b) \in SUBSET Hook
    BY DEF TypeOK, Unseen, Listed
  <2>3. /\ Cardinality(unseen[b] \cap Listed(row, filter[b])) <= Cardinality(Unseen(b))
        /\ Cardinality(unseen[b] \cap Listed(row, filter[b])) \in Nat
        /\ Cardinality(Unseen(b)) \in Nat
    BY <2>2, CountRows
  <2>4. slip[b] \in Nat
    BY DEF TypeOK
  <2> QED
    BY <2>1, <2>3, <2>4
<1> QED
  BY <1>1, InitType, InitWalk, NextType, NextBack, NextWalk, PTL DEF Spec

=============================================================================
