---------------------------- MODULE ReplayProofs ----------------------------
(***************************************************************************)
(* What drainOnConnect replays, for any limit and any table: the query     *)
(* fetches as many rows more than the limit as the worker has delivered,   *)
(* drops those, and keeps the newest of the rest.  The argument counts, so *)
(* the table has to be finite, which is an invariant.                      *)
(***************************************************************************)
EXTENDS RelayProofs, FiniteSetTheorems

\* The table and what a worker has delivered are finite.
FiniteInv == IsFiniteSet(Rows) /\ \A c \in Conn : IsFiniteSet(sent[c])

----------------------------------------------------------------------------
(* Counting. *)

\* Of two finite sets the included one has no more elements.
LEMMA CountSubset ==
  ASSUME NEW T, IsFiniteSet(T), NEW S \in SUBSET T
  PROVE  IsFiniteSet(S) /\ Cardinality(S) \in Nat /\ Cardinality(T) \in Nat
         /\ Cardinality(S) <= Cardinality(T)
BY FS_Subset, FS_CardinalityType

\* Taking away X takes away no more than the elements of X.
LEMMA CountMinus ==
  ASSUME NEW S, IsFiniteSet(S), NEW X, IsFiniteSet(X)
  PROVE  Cardinality(S) <= Cardinality(S \ X) + Cardinality(X)
<1>1. IsFiniteSet(S \ X) /\ Cardinality(S \ X) \in Nat
  BY CountSubset
<1>2. /\ IsFiniteSet((S \ X) \cup X)
      /\ Cardinality((S \ X) \cup X) = Cardinality(S \ X) + Cardinality(X)
                                       - Cardinality((S \ X) \cap X)
  BY <1>1, FS_Union
<1>3. Cardinality((S \ X) \cap X) = 0
  <2>1. (S \ X) \cap X = {}
    OBVIOUS
  <2> QED
    BY <2>1, FS_EmptySet
<1>4. S \in SUBSET ((S \ X) \cup X)
  OBVIOUS
<1>5. Cardinality(S) <= Cardinality((S \ X) \cup X)
  BY <1>2, <1>4, CountSubset
<1>6. Cardinality(X) \in Nat
  BY FS_CardinalityType
<1> QED
  BY <1>1, <1>2, <1>3, <1>5, <1>6

\* The rows of S received after h.
After(S, h) == {g \in S : recv[g] > recv[h]}

\* Fetching n rows more than are wanted, where n rows are to be dropped, and dropping
\* them afterwards gives the same rows as dropping them first.
LEMMA FetchThenDrop ==
  ASSUME recv \in [Hook -> Nat], NEW S \in SUBSET Hook, IsFiniteSet(S),
         NEW X, IsFiniteSet(X), NEW k \in Nat
  PROVE  Newest(Newest(S, k + Cardinality(X)) \ X, k) = Newest(S \ X, k)
<1> DEFINE n == k + Cardinality(X)
           T == Newest(S, n)
<1>0. Cardinality(X) \in Nat /\ n \in Nat
  BY FS_CardinalityType
<1>1. \A R, h : Cardinality(After(R, h)) = Cardinality({g \in R : recv[g] > recv[h]})
  BY DEF After
<1>2. /\ T = {h \in S : Cardinality(After(S, h)) < n}
      /\ Newest(T \ X, k) = {h \in T \ X : Cardinality(After(T \ X, h)) < k}
      /\ Newest(S \ X, k) = {h \in S \ X : Cardinality(After(S \ X, h)) < k}
  BY DEF Newest, After
<1> HIDE DEF n, T
<1>3. \A h \in Hook : After(S, h) \in SUBSET S
  BY DEF After
<1>4. ASSUME NEW h \in T, NEW g \in S, recv[g] > recv[h] PROVE g \in T
  <2>1. h \in S /\ g \in Hook /\ h \in Hook
    BY <1>2
  <2>2. After(S, g) \in SUBSET After(S, h)
    <3>1. \A f \in S : recv[f] \in Nat
      OBVIOUS
    <3> QED
      BY <1>4, <2>1, <3>1 DEF After
  <2>3. IsFiniteSet(After(S, h))
    BY <1>3, <2>1, CountSubset
  <2>4. /\ Cardinality(After(S, g)) <= Cardinality(After(S, h))
        /\ Cardinality(After(S, g)) \in Nat /\ Cardinality(After(S, h)) \in Nat
    BY <2>2, <2>3, CountSubset
  <2>5. Cardinality(After(S, h)) < n
    BY <1>2
  <2>6. Cardinality(After(S, g)) < n
    BY <1>0, <2>4, <2>5
  <2> QED
    BY <1>2, <2>6
<1>5. ASSUME NEW h \in T \ X PROVE After(T \ X, h) = After(S \ X, h)
  BY <1>2, <1>4 DEF After
<1>6. ASSUME NEW h \in S \ X, Cardinality(After(S \ X, h)) < k PROVE h \in T
  <2>1. After(S, h) \ X = After(S \ X, h)
    BY DEF After
  <2>2. IsFiniteSet(After(S, h)) /\ Cardinality(After(S, h)) \in Nat
    BY <1>3, CountSubset
  <2>3. Cardinality(After(S, h)) <= Cardinality(After(S \ X, h)) + Cardinality(X)
    BY <2>1, <2>2, CountMinus
  <2>4. Cardinality(After(S \ X, h)) \in Nat
    <3>1. After(S, h) \ X \in SUBSET After(S, h)
      OBVIOUS
    <3> QED
      BY <2>1, <2>2, <3>1, CountSubset
  <2>5. Cardinality(After(S, h)) < n
    BY <1>0, <1>6, <2>2, <2>3, <2>4 DEF n
  <2> QED
    BY <1>2, <2>5
<1>7. Newest(T \ X, k) = Newest(S \ X, k)
  BY <1>2, <1>5, <1>6
<1> QED
  BY <1>7 DEF n, T

----------------------------------------------------------------------------
(* The table stays finite. *)

\* A step adds one row to the table at most.
LEMMA RowsGrow ==
  ASSUME TypeOK, [Next]_vars
  PROVE  \E x : Rows' \subseteq Rows \cup {x}
<1> USE DEF store, hub, workers, provider
<1>1. CASE UNCHANGED row
  BY <1>1 DEF Rows
<1>2. ASSUME NEW g, NEW st, MarkDelivered(g, st) PROVE Rows' \subseteq Rows
  <2>1. \A h \in Hook : row[h] = Absent => row'[h] = Absent
    BY <1>2 DEF MarkDelivered, TypeOK
  <2> QED
    BY <2>1 DEF Rows
<1>3. ASSUME NEW h \in Hook, HookNext(h) PROVE \E x : Rows' \subseteq Rows \cup {x}
  <2>1. CASE HookSave(h)
    <3>1. CASE SaveWebhook(h)
      BY <3>1 DEF SaveWebhook, Rows, TypeOK
    <3> QED
      BY <1>1, <2>1, <3>1 DEF HookSave
  <2>2. CASE HookMark(h)
    BY <1>1, <1>2, <2>2 DEF HookMark
  <2>3. CASE ~HookSave(h) /\ ~HookMark(h)
    BY <1>1, <1>3, <2>3 DEF HookNext, HookReject, HookReceive, RespondDuplicate, HookConnected,
                            HookForward, HookSendFails, HookSendReturns
  <2> QED
    BY <2>1, <2>2, <2>3
<1>4. ASSUME NEW c \in Conn, ConnNext(c) \/ DrainNext(c) PROVE \E x : Rows' \subseteq Rows \cup {x}
  <2>1. CASE DrainMark(c)
    BY <1>1, <1>2, <2>1 DEF DrainMark
  <2>2. CASE ~DrainMark(c)
    BY <1>1, <1>4, <2>2 DEF ConnNext, Register, CloseOld, ConnLost, Unregister, DrainNext,
         DrainOnConnect, DrainSend, DrainSendFails, DrainSendReturns, DrainDone, DrainStop, DrainTick
  <2> QED
    BY <2>1, <2>2
<1>5. ASSUME NEW p \in Replayer, ReplayNext(p) PROVE \E x : Rows' \subseteq Rows \cup {x}
  <2>1. CASE ReplayMark(p)
    BY <1>1, <1>2, <2>1 DEF ReplayMark
  <2>2. CASE ~ReplayMark(p)
    BY <1>1, <1>5, <2>2 DEF ReplayNext, ReplayGet, ReplayForward, ReplaySendFails, ReplaySendReturns
  <2> QED
    BY <2>1, <2>2
<1>6. CASE \E s \in Caller : LocalAnswer(s) \/ AnswerTooLong(s)
  BY <1>1, <1>6 DEF LocalAnswer, AnswerTooLong
<1>7. CASE SweepByAge \/ SweepByCount
  <2>1. PICK S : DeleteRows(S)
    BY <1>7 DEF SweepByAge, SweepByCount, DeleteWebhooksOlderThan, DeleteWebhooksOverCount
  <2>2. \A h \in Hook : row'[h] = Absent \/ row'[h] = row[h]
    BY <2>1 DEF DeleteRows
  <2> QED
    BY <2>2 DEF Rows
<1>8. CASE Crash
  BY <1>1, <1>8 DEF Crash
<1>9. CASE UNCHANGED vars
  BY <1>1, <1>9 DEF vars
<1> QED
  BY <1>3, <1>4, <1>5, <1>6, <1>7, <1>8, <1>9 DEF Next

\* A step adds one webhook at most to those a worker has delivered.
LEMMA SentGrows ==
  ASSUME TypeOK, [Next]_vars, NEW c \in Conn
  PROVE  \E x : sent'[c] \subseteq sent[c] \cup {x}
<1> USE DEF store, hub, workers, provider
<1>1. CASE UNCHANGED sent
  BY <1>1
<1>2. ASSUME NEW d \in Conn, DrainNext(d) PROVE \E x : sent'[c] \subseteq sent[c] \cup {x}
  <2>1. CASE DrainOnConnect(d)
    BY <2>1 DEF DrainOnConnect, TypeOK
  <2>2. CASE DrainMark(d)
    <3>1. CASE sent' = [sent EXCEPT ![d] = @ \cup {call[d].hook}]
      BY <3>1 DEF TypeOK
    <3> QED
      BY <1>1, <2>2, <3>1 DEF DrainMark
  <2>3. CASE ~DrainOnConnect(d) /\ ~DrainMark(d)
    BY <1>1, <1>2, <2>3 DEF DrainNext, DrainSend, DrainSendFails, DrainSendReturns, DrainDone,
                            DrainStop, DrainTick
  <2> QED
    BY <2>1, <2>2, <2>3
<1>3. CASE \E d \in Conn : ConnNext(d)
  BY <1>1, <1>3 DEF ConnNext, Register, CloseOld, ConnLost, Unregister
<1>4. CASE \E h \in Hook : HookNext(h)
  BY <1>1, <1>4 DEF HookNext, HookReject, HookReceive, HookSave, RespondDuplicate, HookConnected,
                    HookForward, HookSendFails, HookSendReturns, HookMark
<1>5. CASE \E p \in Replayer : ReplayNext(p)
  BY <1>1, <1>5 DEF ReplayNext, ReplayGet, ReplayForward, ReplaySendFails, ReplaySendReturns,
                    ReplayMark
<1>6. CASE \E s \in Caller : LocalAnswer(s) \/ AnswerTooLong(s)
  BY <1>1, <1>6 DEF LocalAnswer, AnswerTooLong
<1>7. CASE SweepByAge \/ SweepByCount
  BY <1>1, <1>7 DEF SweepByAge, SweepByCount, DeleteWebhooksOlderThan, DeleteWebhooksOverCount,
                    DeleteRows
<1>8. CASE Crash
  BY <1>8 DEF Crash
<1>9. CASE UNCHANGED vars
  BY <1>1, <1>9 DEF vars
<1> QED
  BY <1>2, <1>3, <1>4, <1>5, <1>6, <1>7, <1>8, <1>9 DEF Next

\* A set that grows by one element at most stays finite.
LEMMA GrowsByOne ==
  ASSUME NEW S, IsFiniteSet(S), NEW T, \E x : T \subseteq S \cup {x}
  PROVE  IsFiniteSet(T)
<1>1. PICK x : T \subseteq S \cup {x}
  OBVIOUS
<1>2. IsFiniteSet(S \cup {x})
  BY FS_AddElement
<1> QED
  BY <1>1, <1>2, FS_Subset

\* In every reachable state the table, and what each worker has delivered, is finite.
LEMMA FiniteInvariance == Spec => []FiniteInv
<1>1. Init => FiniteInv
  <2> SUFFICES ASSUME Init PROVE FiniteInv
    OBVIOUS
  <2>1. Rows = {} /\ \A c \in Conn : sent[c] = {}
    BY DEF Init, Rows
  <2> QED
    BY <2>1, FS_EmptySet DEF FiniteInv
<1>2. TypeOK /\ FiniteInv /\ [Next]_vars => FiniteInv'
  <2> SUFFICES ASSUME TypeOK, FiniteInv, [Next]_vars PROVE FiniteInv'
    OBVIOUS
  <2>1. IsFiniteSet(Rows')
    BY RowsGrow, GrowsByOne DEF FiniteInv
  <2>2. \A c \in Conn : IsFiniteSet(sent'[c])
    BY SentGrows, GrowsByOne DEF FiniteInv
  <2> QED
    BY <2>1, <2>2 DEF FiniteInv
<1> QED
  BY <1>1, <1>2, TypeCorrect, PTL DEF Spec

\* A connecting worker replays the newest ReplayLimit rows among those that it has
\* not just delivered, however many these were (LastWebhooksForTokenExcluding).
THEOREM ReplayIsExact == Spec => []ReplayPicksNewest
<1>1. TypeOK /\ FiniteInv => ReplayPicksNewest
  <2> SUFFICES ASSUME TypeOK, FiniteInv, NEW c \in Conn
               PROVE  LastWebhooksExcluding(ReplayLimit, sent[c]) = Newest(Rows \ sent[c], ReplayLimit)
    BY DEF ReplayPicksNewest
  <2>1. /\ recv \in [Hook -> Nat] /\ Rows \in SUBSET Hook /\ ReplayLimit \in Nat
        /\ IsFiniteSet(Rows) /\ IsFiniteSet(sent[c])
    BY RelayAssumption DEF TypeOK, Rows, FiniteInv
  <2> QED
    BY <2>1, FetchThenDrop DEF LastWebhooksExcluding
<1> QED
  BY <1>1, TypeCorrect, FiniteInvariance, PTL

=============================================================================
