---------------------------- MODULE WebhookQueue ----------------------------
(***************************************************************************)
(* What the relay promises about webhooks, with no word about tunnels,     *)
(* workers, handlers or failures: a durable queue with at-least-once       *)
(* delivery.  A webhook is put into the queue once; only what is or was in *)
(* the queue is handed to the local app, any number of times; it is settled*)
(* with an answer of the local app; retention may drop it, for good; and   *)
(* its provider is told at most one thing: to try again, an answer of the  *)
(* local app, or that the webhook, or the one it repeats, is queued, which *)
(* is true unless retention has dropped it in the meantime.                *)
(***************************************************************************)
EXTENDS Integers

CONSTANTS
  Hook,    \* webhooks
  Status,  \* answers of the local app
  Twin     \* for each webhook the ones it may repeat, itself included

Dropped == -2   \* item: deleted by retention
New     == -1   \* item: not in the queue yet
Pending == 0    \* item: not settled; otherwise the answer it is settled with

Refused  == -2  \* told: an error, and to try again
Nothing  == -1  \* told: nothing (yet)
Accepted == 0   \* told: it is queued; otherwise an answer

VARIABLES
  item,    \* the state of each webhook
  handed,  \* the <<webhook, answer>> pairs of the local app
  told     \* what each provider knows

vars == <<item, handed, told>>

Init ==
  /\ item = [h \in Hook |-> New]
  /\ handed = {}
  /\ told = [h \in Hook |-> Nothing]

\* The webhook is in the queue, or was until retention dropped it.
Queued(h) == item[h] # New

Put(h) ==
  /\ item[h] = New
  /\ item' = [item EXCEPT ![h] = Pending]
  /\ UNCHANGED <<handed, told>>

Hand(h, st) ==
  /\ Queued(h)
  /\ handed' = handed \cup {<<h, st>>}
  /\ UNCHANGED <<item, told>>

\* A webhook that has been dropped stays dropped.
SettledItem(h, st) == [item EXCEPT ![h] = IF @ = Dropped THEN @ ELSE st]

Settle(h, st) ==
  /\ Queued(h) /\ <<h, st>> \in handed
  /\ item' = SettledItem(h, st)
  /\ UNCHANGED <<handed, told>>

Drop(S) ==
  /\ \A h \in S : Queued(h)
  /\ item' = [h \in Hook |-> IF h \in S THEN Dropped ELSE item[h]]
  /\ UNCHANGED <<handed, told>>

Say(h, what) == told[h] = Nothing /\ told' = [told EXCEPT ![h] = what]

\* The provider must try again, and may have to even if the webhook is safe.
Refuse(h) == Say(h, Refused) /\ UNCHANGED <<item, handed>>

Accept(h) ==
  /\ \E g \in Twin[h] : Queued(g) /\ item[g] # Dropped
  /\ Say(h, Accepted)
  /\ UNCHANGED <<item, handed>>

\* Retention is faster than the answer: the webhook, or the one it repeats, has been
\* dropped when its provider is told that it is queued.
AcceptInVain(h) ==
  /\ \E g \in Twin[h] : item[g] = Dropped
  /\ Say(h, Accepted)
  /\ UNCHANGED <<item, handed>>

\* The answer of the local app to the webhook, which is settled with it, or to the
\* one it repeats.
Pass(h, st) ==
  /\ Say(h, st)
  /\ \/ Queued(h) /\ <<h, st>> \in handed /\ item' = SettledItem(h, st)
     \/ (\E g \in Twin[h] : item[g] = st) /\ UNCHANGED item
  /\ UNCHANGED handed

Next ==
  \/ \E h \in Hook : Put(h) \/ Refuse(h) \/ Accept(h) \/ AcceptInVain(h)
  \/ \E h \in Hook, st \in Status : Hand(h, st) \/ Settle(h, st) \/ Pass(h, st)
  \/ \E S \in SUBSET Hook : Drop(S)

Spec == Init /\ [][Next]_vars

=============================================================================
