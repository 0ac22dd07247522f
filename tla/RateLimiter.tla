---------------------------- MODULE RateLimiter ----------------------------
(***************************************************************************)
(* The per-token webhook limit (ratelimit.go): a fixed window per key,     *)
(* opened by the first request after the last one has run out.  Allow      *)
(* reads the clock before it takes the mutex, so its callers may enter the *)
(* critical section in another order than their times, and with a time     *)
(* that has passed: at most Delay ticks ago.                               *)
(***************************************************************************)
EXTENDS Integers, FiniteSets

CONSTANTS
  Key,      \* tokens
  Caller,   \* goroutines that call Allow
  Limit,    \* requests per window
  Window,   \* its length, in ticks
  Delay,    \* how long a caller may take from the clock to the mutex
  MaxTime   \* bound: ticks

ASSUME LimiterAssumption ==
  /\ Limit \in Nat \ {0} /\ Window \in Nat \ {0}
  /\ Delay \in Nat /\ 2 * Delay <= Window + 1
  /\ MaxTime \in Nat

Time == 0..MaxTime

VARIABLES
  clock,     \* the time
  entries,   \* the map: the current window of each key, or NoWindow
  ask,       \* the key and the time each caller has in hand, or NoAsk
  admitted   \* history: the requests of each key admitted in the last Window ticks,
             \*   each with the start of its window and its number in it

vars == <<clock, entries, ask, admitted>>

Never    == -1
NoWindow == [start |-> Never, count |-> 0, lastSeen |-> Never]
NoAsk    == <<>>

Init ==
  /\ clock = 0
  /\ entries = [k \in Key |-> NoWindow]
  /\ ask = [c \in Caller |-> NoAsk]
  /\ admitted = [k \in Key |-> {}]

\* Time passes, unless a caller has waited for the mutex as long as it may.
Tick ==
  /\ clock < MaxTime
  /\ \A c \in Caller : ask[c] # NoAsk => clock - ask[c].now < Delay
  /\ clock' = clock + 1
  /\ admitted' = [k \in Key |-> {a \in admitted[k] : a.at > clock' - Window}]
  /\ UNCHANGED <<entries, ask>>

\* Allow, before the lock.
ReadClock(c, k) ==
  /\ ask[c] = NoAsk
  /\ ask' = [ask EXCEPT ![c] = [key |-> k, now |-> clock]]
  /\ UNCHANGED <<clock, entries, admitted>>

\* Mutant: a time before the window's start opens a new window, too.
ExpiredBothWays(e, t) == e = NoWindow \/ t - e.start >= Window \/ t < e.start

\* There is no window, or it has run out.
Expired(e, t) == e = NoWindow \/ t - e.start >= Window

\* The window a request at time t falls into.
WindowAt(e, t) == [(IF Expired(e, t) THEN [NoWindow EXCEPT !.start = t] ELSE e)
                     EXCEPT !.lastSeen = t]

\* Mutant: an entry is forgotten one window after it was last seen.
PruneEarly(t, es) == [k \in Key |-> IF es[k].lastSeen < t - Window THEN NoWindow ELSE es[k]]

\* pruneLocked: the entries not seen for two windows are forgotten.
PruneLocked(t, es) == [k \in Key |-> IF es[k].lastSeen < t - 2 * Window THEN NoWindow ELSE es[k]]

\* Mutant: one request too many.
MayPassOneMore(e) == e.count <= Limit

MayPass(e) == e.count < Limit

\* The request admitted now as number n of the window that began at t; nth tells it
\* from the others of this tick.
Admission(k, t, n) == [start |-> t, no |-> n, at |-> clock,
                       nth |-> Cardinality({a \in admitted[k] : a.at = clock})]

\* Allow, under the lock.
Allow(c) ==
  LET k == ask[c].key
      e == WindowAt(entries[k], ask[c].now)
      passes == MayPass(e)
  IN  /\ ask[c] # NoAsk
      /\ entries' = PruneLocked(ask[c].now, [entries EXCEPT ![k] =
                      IF passes THEN [e EXCEPT !.count = @ + 1] ELSE e])
      /\ admitted' = IF passes
                     THEN [admitted EXCEPT ![k] = @ \cup {Admission(k, e.start, e.count + 1)}]
                     ELSE admitted
      /\ ask' = [ask EXCEPT ![c] = NoAsk]
      /\ UNCHANGED clock

Next ==
  \/ Tick
  \/ \E c \in Caller : Allow(c) \/ \E k \in Key : ReadClock(c, k)

Spec == Init /\ [][Next]_vars

----------------------------------------------------------------------------
(* Properties. *)

\* Every variable has its type, and no window counts more than Limit requests.
TypeOK ==
  /\ clock \in Time
  /\ entries \in [Key -> [start: Time \cup {Never}, count: 0..Limit, lastSeen: Time \cup {Never}]]
  /\ ask \in [Caller -> {NoAsk} \cup [key: Key, now: Time]]
  /\ admitted \in [Key -> SUBSET [start: Time, no: 1..Limit, at: Time, nth: Nat]]

\* Whatever the order in which callers get the mutex, no stretch of one window's
\* length admits as many requests as three windows may: it can hold a whole window,
\* the start of the next, and late callers of the one before, but not the request
\* that opened that one.  The repository's README promises Limit requests a minute,
\* which a fixed window keeps for its own windows only (TypeOK), not for any minute.
BurstBounded == \A k \in Key : Cardinality(admitted[k]) < 3 * Limit

\* Pruning forgets no window that would still have counted for anybody: for every
\* caller on its way to the mutex, and for every later one, it has run out.
PruneForgetsNothing ==
  [][\A k \in Key : entries[k] # NoWindow /\ entries'[k] = NoWindow =>
       /\ Expired(entries[k], clock)
       /\ \A c \in Caller : ask[c] # NoAsk => Expired(entries[k], ask[c].now)]_vars

=============================================================================
