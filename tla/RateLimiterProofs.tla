------------------------- MODULE RateLimiterProofs -------------------------
(***************************************************************************)
(* That pruning forgets nothing and bursts are bounded, for any number of  *)
(* keys and callers and any limit, window and delay.  An entry carries the *)
(* time of its last caller, not of its last opening, and callers come      *)
(* late: the argument is how far these two times, and the clock, can be    *)
(* apart.                                                                  *)
(***************************************************************************)
EXTENDS RateLimiter, FiniteSetTheorems, TLAPS

\* A caller's time has passed, at most Delay ticks ago.
AskInv == \A c \in Caller : ask[c] # NoAsk => ask[c].now <= clock /\ clock <= ask[c].now + Delay

\* No window opens in the future, the last caller of a window was not more than Delay
\* ticks earlier than the caller that opened it, and that one was admitted.
WindowInv ==
  \A k \in Key :
    /\ entries[k].start <= clock
    /\ entries[k].start <= entries[k].lastSeen + Delay
    /\ entries[k] # NoWindow => entries[k].start \in Time /\ entries[k].count >= 1

\* An admitted request a of a key whose entry is e: it is recent, it came in before
\* its window, and Delay, was over, the one that opened the window came within
\* Delay, and its window is that of the entry or was over when that one began.
AdmittedInv(a, e) ==
  /\ clock < a.at + Window /\ a.at <= clock
  /\ a.start <= a.at /\ a.at < a.start + Window + Delay
  /\ a.no = 1 => a.at <= a.start + Delay
  /\ a.at <= e.lastSeen + Delay
  /\ (a.start = e.start /\ a.no <= e.count) \/ a.start + Window <= e.start

\* Two of them are in one window or in windows that do not overlap, and two of one
\* window have different numbers.
ApartInv(a, b) ==
  /\ a.start < b.start => a.start + Window <= b.start
  /\ a.start = b.start /\ a.no = b.no => a = b

LogInv ==
  \A k \in Key :
    /\ IsFiniteSet(admitted[k])
    /\ admitted[k] # {} => entries[k] # NoWindow
    /\ \A a \in admitted[k] : AdmittedInv(a, entries[k])
    /\ \A a, b \in admitted[k] : ApartInv(a, b)

IInv == TypeOK /\ AskInv /\ WindowInv /\ LogInv

RateWindow == [start: Time \cup {Never}, count: 0..Limit, lastSeen: Time \cup {Never}]

----------------------------------------------------------------------------
(* What the steps are made of. *)

\* What LimiterAssumption says of the numbers.
LEMMA Numbers ==
  /\ Limit \in Nat /\ Limit >= 1 /\ Window \in Nat /\ Window >= 1
  /\ Delay \in Nat /\ Delay <= Window /\ 2 * Delay <= Window + 1
  /\ Time \subseteq Nat /\ Never \notin Time /\ Never = -1
BY LimiterAssumption DEF Time, Never

\* The window that a request at time t, handled at time now, falls into: a new one if
\* there is none or it has run out, else the one there is.
LEMMA WindowAtSafe ==
  ASSUME NEW e \in RateWindow, NEW t \in Time, NEW now \in Time, t <= now, e.start <= now,
         e # NoWindow => e.start \in Time /\ e.count >= 1
  PROVE  /\ WindowAt(e, t) \in RateWindow /\ WindowAt(e, t).lastSeen = t
         /\ WindowAt(e, t).start \in Time /\ WindowAt(e, t).start <= now
         /\ \/ /\ e = NoWindow \/ e.start + Window <= t
               /\ WindowAt(e, t).start = t /\ WindowAt(e, t).count = 0
            \/ /\ e # NoWindow /\ t < e.start + Window /\ e.count >= 1
               /\ WindowAt(e, t).start = e.start /\ WindowAt(e, t).count = e.count
<1>0. e.start \in Int /\ e.count \in 0..Limit
  BY LimiterAssumption DEF RateWindow, Time, Never
<1>1. CASE Expired(e, t)
  <2> DEFINE n == [NoWindow EXCEPT !.start = t]
  <2>1. n = [start |-> t, count |-> 0, lastSeen |-> Never]
    BY DEF NoWindow
  <2>2. WindowAt(e, t) = [n EXCEPT !.lastSeen = t]
    BY <1>1 DEF WindowAt
  <2> HIDE DEF n
  <2>3. WindowAt(e, t) = [start |-> t, count |-> 0, lastSeen |-> t]
    BY <2>1, <2>2
  <2>4. e = NoWindow \/ e.start + Window <= t
    BY <1>0, <1>1, Numbers DEF Expired
  <2>5. 0 \in 0..Limit
    BY Numbers
  <2> QED
    BY <2>3, <2>4, <2>5 DEF RateWindow
<1>2. CASE ~Expired(e, t)
  <2>1. WindowAt(e, t) = [e EXCEPT !.lastSeen = t]
    BY <1>2 DEF WindowAt
  <2>2. e # NoWindow /\ t < e.start + Window
    BY <1>0, <1>2, Numbers DEF Expired
  <2> QED
    BY <2>1, <2>2 DEF RateWindow
<1> QED
  BY <1>1, <1>2

\* An admitted request is counted within the limit.
LEMMA CountSafe ==
  ASSUME NEW e \in RateWindow, MayPass(e)
  PROVE  /\ [e EXCEPT !.count = @ + 1] \in RateWindow
         /\ [e EXCEPT !.count = @ + 1].start = e.start
         /\ [e EXCEPT !.count = @ + 1].count = e.count + 1
         /\ [e EXCEPT !.count = @ + 1].lastSeen = e.lastSeen
BY LimiterAssumption DEF RateWindow, MayPass

\* What Allow does, with key k and time t in hand: the request falls into window w,
\* which becomes w2; the other entries stay as they are, or are pruned.
Allowed(c, k, t, w, w2) ==
  /\ k = ask[c].key /\ t = ask[c].now /\ t <= clock /\ clock <= t + Delay
  /\ w.start \in Time /\ w.start <= clock
  /\ \/ /\ entries[k] = NoWindow \/ entries[k].start + Window <= t
        /\ w.start = t /\ w.count = 0
     \/ /\ entries[k] # NoWindow /\ t < w.start + Window /\ w.count >= 1
        /\ w.start = entries[k].start /\ w.count = entries[k].count
  /\ w2.start = w.start /\ w2.lastSeen = t
  /\ \/ /\ w.count < Limit /\ w2.count = w.count + 1
        /\ admitted' = [admitted EXCEPT ![k] = @ \cup {Admission(k, w.start, w.count + 1)}]
     \/ w.count >= Limit /\ w2.count = w.count /\ admitted' = admitted
  /\ entries'[k] = w2
  /\ \A l \in Key \ {k} :
       \/ entries'[l] = entries[l]
       \/ entries'[l] = NoWindow /\ entries[l].lastSeen < t - 2 * Window

LEMMA AllowStep ==
  ASSUME IInv, NEW c \in Caller, Allow(c)
  PROVE  \E k \in Key, t \in Time, w \in RateWindow, w2 \in RateWindow : Allowed(c, k, t, w, w2)
<1>0. ask[c] # NoAsk /\ ask[c].key \in Key /\ ask[c].now \in Time
  BY DEF IInv, TypeOK, Allow, NoAsk
<1>1. PICK k \in Key, t \in Time : k = ask[c].key /\ t = ask[c].now
  BY <1>0
<1>2. clock \in Time /\ t <= clock /\ clock <= t + Delay /\ entries \in [Key -> RateWindow]
  BY <1>0, <1>1 DEF IInv, TypeOK, AskInv, RateWindow
<1>3. PICK w : w = WindowAt(entries[k], t)
  OBVIOUS
<1>4. /\ w \in RateWindow /\ w.lastSeen = t /\ w.start \in Time /\ w.start <= clock
      /\ \/ /\ entries[k] = NoWindow \/ entries[k].start + Window <= t
            /\ w.start = t /\ w.count = 0
         \/ /\ entries[k] # NoWindow /\ t < w.start + Window /\ w.count >= 1
            /\ w.start = entries[k].start /\ w.count = entries[k].count
  <2>1. /\ entries[k] \in RateWindow /\ entries[k].start <= clock
        /\ entries[k] # NoWindow => entries[k].start \in Time /\ entries[k].count >= 1
    BY <1>2 DEF IInv, WindowInv
  <2> QED
    BY <1>2, <1>3, <2>1, WindowAtSafe
<1>5. PICK w2 : w2 = IF MayPass(w) THEN [w EXCEPT !.count = @ + 1] ELSE w
  OBVIOUS
<1>6. /\ w2 \in RateWindow /\ w2.start = w.start /\ w2.lastSeen = t
      /\ \/ MayPass(w) /\ w2.count = w.count + 1
         \/ ~MayPass(w) /\ w2.count = w.count
  BY <1>4, <1>5, CountSafe
<1>7. PICK es : es = [entries EXCEPT ![k] = w2]
  OBVIOUS
<1>8. /\ entries' = PruneLocked(t, es)
      /\ admitted' = IF MayPass(w)
                     THEN [admitted EXCEPT ![k] = @ \cup {Admission(k, w.start, w.count + 1)}]
                     ELSE admitted
  BY <1>1, <1>3, <1>5, <1>7 DEF Allow
<1>9. \A l \in Key : entries'[l] = IF es[l].lastSeen < t - 2 * Window THEN NoWindow ELSE es[l]
  BY <1>8 DEF PruneLocked
<1>10. es[k] = w2 /\ \A l \in Key \ {k} : es[l] = entries[l]
  BY <1>2, <1>7
<1>11. entries'[k] = w2
  <2>1. ~(t < t - 2 * Window)
    BY Numbers
  <2>2. ~(es[k].lastSeen < t - 2 * Window)
    BY <1>6, <1>10, <2>1
  <2> QED
    BY <1>9, <1>10, <2>2
<1>12. ASSUME NEW l \in Key \ {k}
       PROVE  \/ entries'[l] = entries[l]
              \/ entries'[l] = NoWindow /\ entries[l].lastSeen < t - 2 * Window
  BY <1>9, <1>10
<1>13. \/ /\ w.count < Limit /\ w2.count = w.count + 1
          /\ admitted' = [admitted EXCEPT ![k] = @ \cup {Admission(k, w.start, w.count + 1)}]
       \/ w.count >= Limit /\ w2.count = w.count /\ admitted' = admitted
  <2>1. w.count \in Nat /\ Limit \in Nat
    BY <1>4, Numbers DEF RateWindow
  <2> QED
    BY <1>6, <1>8, <2>1 DEF MayPass
<1>14. Allowed(c, k, t, w, w2)
  BY <1>1, <1>2, <1>4, <1>6, <1>11, <1>12, <1>13 DEF Allowed
<1> QED
  BY <1>4, <1>6, <1>14

\* An entry that is pruned by a caller with time t has run out for everybody whose
\* time is not more than Delay ticks earlier.
LEMMA PrunedHasExpired ==
  ASSUME NEW e \in RateWindow, e.start <= e.lastSeen + Delay, NEW t \in Time, NEW u \in Time,
         e.lastSeen < t - 2 * Window, t <= u + Delay
  PROVE  Expired(e, u)
BY LimiterAssumption DEF RateWindow, Time, Never, Expired

----------------------------------------------------------------------------
(* The invariant. *)

Admissions == [start: Time, no: 1..Limit, at: Time, nth: Nat]

\* The invariant holds initially.
LEMMA InitInv == Init => IInv
<1> SUFFICES ASSUME Init PROVE IInv
  OBVIOUS
<1>1. NoWindow \in RateWindow /\ NoWindow.start <= 0 /\ NoWindow.start <= NoWindow.lastSeen + Delay
  BY LimiterAssumption DEF NoWindow, RateWindow, Never
<1>2. TypeOK
  BY <1>1, LimiterAssumption DEF Init, TypeOK, RateWindow, Time
<1>3. AskInv /\ WindowInv
  BY <1>1 DEF Init, AskInv, WindowInv
<1>4. LogInv
  BY FS_EmptySet DEF Init, LogInv
<1> QED
  BY <1>2, <1>3, <1>4 DEF IInv

\* Time passes.
LEMMA TickInv == ASSUME IInv, Tick PROVE IInv'
<1> USE DEF Tick
<1>0. TypeOK /\ AskInv /\ WindowInv /\ LogInv
  BY DEF IInv
<1>1. clock \in Nat /\ clock' = clock + 1 /\ clock' \in Time /\ clock' \in Nat
  BY <1>0, LimiterAssumption DEF TypeOK, Time
<1>2. \A k \in Key : admitted'[k] = {a \in admitted[k] : a.at > clock' - Window}
  OBVIOUS
<1>3. TypeOK'
  <2>1. admitted' \in [Key -> SUBSET Admissions]
    BY <1>0 DEF TypeOK, Admissions
  <2> QED
    BY <1>0, <1>1, <2>1 DEF TypeOK, Admissions
<1>4. AskInv'
  <2> SUFFICES ASSUME NEW c \in Caller, ask[c] # NoAsk
               PROVE  ask[c].now <= clock' /\ clock' <= ask[c].now + Delay
    BY DEF AskInv
  <2>1. ask[c].now \in Nat
    BY <1>0, LimiterAssumption DEF TypeOK, Time
  <2> QED
    BY <1>0, <1>1, <2>1, LimiterAssumption DEF AskInv
<1>5. WindowInv'
  <2> SUFFICES ASSUME NEW k \in Key PROVE entries[k].start <= clock'
    BY <1>0 DEF WindowInv
  <2>1. entries[k].start \in Int
    BY <1>0, LimiterAssumption DEF TypeOK, Time, Never
  <2> QED
    BY <1>0, <1>1, <2>1 DEF WindowInv
<1>6. LogInv'
  <2> SUFFICES ASSUME NEW k \in Key
               PROVE  /\ IsFiniteSet(admitted'[k])
                      /\ admitted'[k] # {} => entries[k] # NoWindow
                      /\ \A a \in admitted'[k] : AdmittedInv(a, entries[k])'
                      /\ \A a, b \in admitted'[k] : ApartInv(a, b)
    BY DEF LogInv, ApartInv, AdmittedInv
  <2>1. admitted'[k] \subseteq admitted[k]
    BY <1>2
  <2>2. IsFiniteSet(admitted'[k])
    BY <1>0, <2>1, FS_Subset DEF LogInv
  <2>3. ASSUME NEW a \in admitted'[k] PROVE AdmittedInv(a, entries[k])'
    <3>1. a \in Admissions /\ AdmittedInv(a, entries[k])
      BY <1>0, <2>1 DEF TypeOK, Admissions, LogInv
    <3>2. a.at \in Nat
      BY <3>1, Numbers DEF Admissions
    <3>3. clock' < a.at + Window /\ a.at <= clock'
      BY <1>1, <1>2, <3>1, <3>2, Numbers DEF AdmittedInv
    <3> QED
      BY <3>1, <3>3 DEF AdmittedInv
  <2> QED
    BY <1>0, <2>1, <2>2, <2>3 DEF LogInv
<1> QED
  BY <1>3, <1>4, <1>5, <1>6 DEF IInv

\* A caller reads the clock.
LEMMA ReadClockInv == ASSUME IInv, NEW c \in Caller, NEW k \in Key, ReadClock(c, k) PROVE IInv'
<1> USE DEF ReadClock
<1>0. TypeOK /\ AskInv /\ WindowInv /\ LogInv
  BY DEF IInv
<1>1. \A d \in Caller : ask'[d] = IF d = c THEN [key |-> k, now |-> clock] ELSE ask[d]
  BY <1>0 DEF TypeOK
<1>2. TypeOK'
  BY <1>0 DEF TypeOK
<1>3. AskInv'
  <2>1. clock <= clock /\ clock <= clock + Delay
    BY <1>0, LimiterAssumption DEF TypeOK, Time
  <2> QED
    BY <1>0, <1>1, <2>1 DEF AskInv
<1>4. WindowInv'
  BY <1>0 DEF WindowInv
<1>5. LogInv'
  BY <1>0 DEF LogInv, AdmittedInv, ApartInv
<1> QED
  BY <1>2, <1>3, <1>4, <1>5 DEF IInv

\* The requests admitted before stay within the invariant when a caller with time t
\* has made w2 of its window w: they are in this window with a lower number, or in
\* one that was over when it began.
LEMMA OldStays ==
  ASSUME IInv, NEW c \in Caller, NEW k \in Key, NEW t \in Time,
         NEW w \in RateWindow, NEW w2 \in RateWindow, Allowed(c, k, t, w, w2),
         NEW a \in admitted[k]
  PROVE  /\ AdmittedInv(a, w2)
         /\ (a.start = w.start /\ a.no <= w.count) \/ a.start + Window <= w.start
<1>1. /\ a \in Admissions /\ AdmittedInv(a, entries[k]) /\ entries[k] # NoWindow
      /\ entries[k] \in RateWindow /\ clock \in Time
  BY DEF IInv, TypeOK, Admissions, LogInv, RateWindow
<1>2. /\ a.start \in Nat /\ a.no \in Nat /\ a.at \in Nat /\ clock \in Nat /\ t \in Nat
      /\ entries[k].start \in Int /\ entries[k].count \in Nat /\ w.start \in Nat
      /\ w.count \in Nat /\ w2.start \in Int /\ w2.count \in Nat
  BY <1>1, LimiterAssumption DEF Admissions, RateWindow, Time, Never, Allowed
<1>3. a.at <= t + Delay
  BY <1>1, <1>2, Numbers DEF AdmittedInv, Allowed
<1>4. (a.start = w.start /\ a.no <= w.count) \/ a.start + Window <= w.start
  <2>1. (a.start = entries[k].start /\ a.no <= entries[k].count)
          \/ a.start + Window <= entries[k].start
    BY <1>1 DEF AdmittedInv
  <2>2. \/ entries[k].start + Window <= w.start
        \/ w.start = entries[k].start /\ w.count = entries[k].count
    BY <1>1 DEF Allowed
  <2> QED
    BY <1>2, <2>1, <2>2, Numbers
<1>5. w2.start = w.start /\ w2.lastSeen = t /\ w.count <= w2.count
  BY <1>2, Numbers DEF Allowed
<1>6. (a.start = w2.start /\ a.no <= w2.count) \/ a.start + Window <= w2.start
  BY <1>2, <1>4, <1>5
<1> QED
  BY <1>1, <1>3, <1>4, <1>5, <1>6 DEF AdmittedInv

\* The request that Allow admits is within the invariant, too, and apart from those
\* that were admitted before.
LEMMA NewIsApart ==
  ASSUME IInv, NEW c \in Caller, NEW k \in Key, NEW t \in Time,
         NEW w \in RateWindow, NEW w2 \in RateWindow, Allowed(c, k, t, w, w2),
         w.count < Limit, w2.count = w.count + 1,
         NEW r, r = Admission(k, w.start, w.count + 1)
  PROVE  /\ r \in Admissions
         /\ AdmittedInv(r, w2)
         /\ \A a \in admitted[k] : ApartInv(a, r) /\ ApartInv(r, a)
<1>1. clock \in Time /\ IsFiniteSet(admitted[k])
  BY DEF IInv, TypeOK, LogInv
<1>2. Cardinality({a \in admitted[k] : a.at = clock}) \in Nat
  BY <1>1, FS_Subset, FS_CardinalityType
<1>3. /\ clock \in Nat /\ t \in Nat /\ w.start \in Nat /\ w.count \in Nat
      /\ w.count + 1 \in 1..Limit
  BY <1>1, LimiterAssumption DEF RateWindow, Time, Never, Allowed
<1>4. r.start = w.start /\ r.no = w.count + 1 /\ r.at = clock
  BY DEF Admission
<1>5. r \in Admissions
  BY <1>1, <1>2, <1>3 DEF Admission, Admissions, Allowed
<1>6. AdmittedInv(r, w2)
  <2>1. /\ w.start <= clock /\ t <= clock /\ clock <= t + Delay /\ t < w.start + Window
        /\ w.count = 0 => w.start = t
        /\ w2.start = w.start /\ w2.lastSeen = t
    BY <1>3, Numbers DEF Allowed
  <2>2. clock < clock + Window /\ clock < w.start + Window + Delay
    BY <1>3, <2>1, Numbers
  <2>3. w.count + 1 = 1 => clock <= w.start + Delay
    BY <1>3, <2>1
  <2>4. w.count + 1 <= w2.count /\ clock <= clock
    BY <1>3
  <2> QED
    BY <1>4, <2>1, <2>2, <2>3, <2>4 DEF AdmittedInv
<1>7. ASSUME NEW a \in admitted[k] PROVE ApartInv(a, r) /\ ApartInv(r, a)
  <2>1. a.start \in Nat /\ a.no \in Nat
    BY LimiterAssumption DEF IInv, TypeOK, Time
  <2>2. (a.start = w.start /\ a.no <= w.count) \/ a.start + Window <= w.start
    BY OldStays
  <2> QED
    BY <1>3, <1>4, <2>1, <2>2, Numbers DEF ApartInv
<1> QED
  BY <1>5, <1>6, <1>7

\* A key whose entry is pruned has admitted nothing in the last window.
LEMMA PrunedIsQuiet ==
  ASSUME IInv, NEW l \in Key, NEW t \in Time, t <= clock,
         entries[l].lastSeen < t - 2 * Window
  PROVE  admitted[l] = {}
<1> SUFFICES ASSUME NEW a \in admitted[l] PROVE FALSE
  OBVIOUS
<1>1. /\ a \in Admissions /\ AdmittedInv(a, entries[l])
      /\ entries[l] \in RateWindow /\ clock \in Time
  BY DEF IInv, TypeOK, Admissions, LogInv, RateWindow
<1>2. a.at \in Nat /\ clock \in Nat /\ t \in Nat /\ entries[l].lastSeen \in Int
  BY <1>1, LimiterAssumption DEF Admissions, RateWindow, Time, Never
<1>3. clock < a.at + Window /\ a.at <= entries[l].lastSeen + Delay
  BY <1>1 DEF AdmittedInv
<1> QED
  BY <1>2, <1>3, Numbers

\* A caller gets the mutex.
LEMMA AllowInv == ASSUME IInv, NEW c \in Caller, Allow(c) PROVE IInv'
<1>0. TypeOK /\ AskInv /\ WindowInv /\ LogInv
  BY DEF IInv
<1>1. PICK k \in Key, t \in Time, w \in RateWindow, w2 \in RateWindow : Allowed(c, k, t, w, w2)
  BY AllowStep
<1>2. clock' = clock /\ clock \in Time /\ t <= clock /\ clock <= t + Delay
  BY <1>0, <1>1 DEF Allow, Allowed, TypeOK
<1>3. \A d \in Caller : ask'[d] = IF d = c THEN NoAsk ELSE ask[d]
  BY <1>0 DEF TypeOK, Allow
<1>4. /\ entries'[k] = w2
      /\ \A l \in Key \ {k} :
           \/ entries'[l] = entries[l]
           \/ entries'[l] = NoWindow /\ entries[l].lastSeen < t - 2 * Window
  BY <1>1 DEF Allowed
<1>5. NoWindow \in RateWindow /\ NoWindow.start <= clock
      /\ NoWindow.start <= NoWindow.lastSeen + Delay
  BY <1>2, LimiterAssumption DEF NoWindow, RateWindow, Never, Time
<1>6. admitted' \in [Key -> SUBSET Admissions] /\ \A l \in Key \ {k} : admitted'[l] = admitted[l]
  <2>1. admitted \in [Key -> SUBSET Admissions]
    BY <1>0 DEF TypeOK, Admissions
  <2>2. CASE admitted' = admitted
    BY <2>1, <2>2
  <2>3. CASE admitted' # admitted
    <3>1. /\ w.count < Limit /\ w2.count = w.count + 1
          /\ admitted' = [admitted EXCEPT ![k] = @ \cup {Admission(k, w.start, w.count + 1)}]
      BY <1>1, <2>3 DEF Allowed
    <3>2. Admission(k, w.start, w.count + 1) \in Admissions
      BY <1>1, <3>1, NewIsApart
    <3> QED
      BY <2>1, <3>1, <3>2
  <2> QED
    BY <2>2, <2>3
<1>7. TypeOK'
  <2>1. entries' = [l \in Key |-> entries'[l]]
    BY DEF Allow, PruneLocked
  <2>2. \A l \in Key : entries'[l] \in RateWindow
    BY <1>0, <1>4, <1>5 DEF TypeOK, RateWindow
  <2>3. entries' \in [Key -> RateWindow]
    BY <2>1, <2>2
  <2>4. ask' \in [Caller -> {NoAsk} \cup [key: Key, now: Time]]
    BY <1>0 DEF TypeOK, Allow
  <2> QED
    BY <1>2, <1>6, <2>3, <2>4 DEF TypeOK, RateWindow, Admissions
<1>8. AskInv'
  BY <1>0, <1>2, <1>3 DEF AskInv
<1>9. WindowInv'
  <2>1. w2.start <= clock /\ w2.start \in Time
    BY <1>1 DEF Allowed
  <2>2. w2.start <= w2.lastSeen + Delay
    BY <1>1, <1>2, Numbers DEF Allowed
  <2>3. w2.count >= 1
    <3>1. w.count \in Nat /\ w2.count \in Nat
      BY LimiterAssumption DEF RateWindow
    <3> QED
      BY <1>1, <3>1, Numbers DEF Allowed
  <2> QED
    BY <1>0, <1>2, <1>4, <1>5, <2>1, <2>2, <2>3 DEF WindowInv
<1>10. LogInv'
  <2> SUFFICES ASSUME NEW l \in Key
               PROVE  /\ IsFiniteSet(admitted'[l])
                      /\ admitted'[l] # {} => entries'[l] # NoWindow
                      /\ \A a \in admitted'[l] : AdmittedInv(a, entries'[l])
                      /\ \A a, b \in admitted'[l] : ApartInv(a, b)
    BY <1>2 DEF LogInv, ApartInv, AdmittedInv
  <2>1. CASE l # k
    <3>1. admitted'[l] = admitted[l]
      BY <1>6, <2>1
    <3>2. CASE entries'[l] = entries[l]
      BY <1>0, <3>1, <3>2 DEF LogInv
    <3>3. CASE entries'[l] # entries[l]
      <4>1. admitted[l] = {}
        BY <1>2, <1>4, <2>1, <3>3, PrunedIsQuiet
      <4> QED
        BY <3>1, <4>1, FS_EmptySet
    <3> QED
      BY <3>2, <3>3
  <2>2. CASE l = k
    <3>1. entries'[k] = w2 /\ w2 # NoWindow
      <4>1. w2.start # Never
        BY <1>1, Numbers DEF Allowed
      <4> QED
        BY <1>4, <4>1 DEF NoWindow
    <3>2. \A a \in admitted[k] : AdmittedInv(a, w2)
      BY <1>1, OldStays
    <3>3. IsFiniteSet(admitted[k]) /\ \A a, b \in admitted[k] : ApartInv(a, b)
      BY <1>0 DEF LogInv
    <3>4. CASE admitted' = admitted
      BY <2>2, <3>1, <3>2, <3>3, <3>4
    <3>5. CASE admitted' # admitted
      <4>1. PICK r : r = Admission(k, w.start, w.count + 1)
        OBVIOUS
      <4>2. /\ w.count < Limit /\ w2.count = w.count + 1
            /\ admitted' = [admitted EXCEPT ![k] = @ \cup {r}]
        BY <1>1, <3>5, <4>1 DEF Allowed
      <4>3. admitted'[k] = admitted[k] \cup {r}
        BY <1>0, <4>2 DEF TypeOK
      <4>4. AdmittedInv(r, w2) /\ \A a \in admitted[k] : ApartInv(a, r) /\ ApartInv(r, a)
        BY <1>1, <4>1, <4>2, NewIsApart
      <4>5. ApartInv(r, r)
        <5>1. r.start \in Int
          BY <4>1, <1>1, Numbers DEF Admission, Allowed
        <5> QED
          BY <5>1 DEF ApartInv
      <4>6. IsFiniteSet(admitted'[k])
        BY <3>3, <4>3, FS_AddElement
      <4>7. \A a \in admitted'[k] : AdmittedInv(a, w2)
        BY <3>2, <4>3, <4>4
      <4>8. \A a, b \in admitted'[k] : ApartInv(a, b)
        BY <3>3, <4>3, <4>4, <4>5
      <4> QED
        BY <2>2, <3>1, <4>6, <4>7, <4>8
    <3> QED
      BY <3>4, <3>5
  <2> QED
    BY <2>1, <2>2
<1> QED
  BY <1>7, <1>8, <1>9, <1>10 DEF IInv

\* Every step preserves the invariant.
LEMMA NextInv == IInv /\ [Next]_vars => IInv'
<1> SUFFICES ASSUME IInv, [Next]_vars PROVE IInv'
  OBVIOUS
<1>1. CASE UNCHANGED vars
  BY <1>1 DEF vars, IInv, TypeOK, AskInv, WindowInv, LogInv, AdmittedInv, ApartInv
<1> QED
  BY <1>1, TickInv, ReadClockInv, AllowInv DEF Next

----------------------------------------------------------------------------
(* The theorems. *)

\* The invariant holds in every reachable state.
THEOREM Invariance == Spec => []IInv
BY InitInv, NextInv, PTL DEF Spec

\* Every variable keeps its type, and no window counts more than Limit requests
\* (Allow).
THEOREM TypeCorrect == Spec => []TypeOK
<1>1. IInv => TypeOK
  BY DEF IInv
<1> QED
  BY <1>1, Invariance, PTL

\* A step forgets only windows that have run out.
LEMMA StepForgets ==
  ASSUME IInv, [Next]_vars, NEW k \in Key, entries[k] # NoWindow, entries'[k] = NoWindow
  PROVE  /\ Expired(entries[k], clock)
         /\ \A c \in Caller : ask[c] # NoAsk => Expired(entries[k], ask[c].now)
<1>1. PICK c \in Caller : Allow(c)
  BY DEF Next, Tick, ReadClock, vars
<1>2. k # ask[c].key /\ entries[k].lastSeen < ask[c].now - 2 * Window
  <2>1. PICK l \in Key, t \in Time, w \in RateWindow, w2 \in RateWindow : Allowed(c, l, t, w, w2)
    BY <1>1, AllowStep
  <2>2. w2 # NoWindow
    BY <2>1, Numbers DEF Allowed, NoWindow
  <2> QED
    BY <2>1, <2>2 DEF Allowed
<1>3. /\ entries[k] \in RateWindow /\ entries[k].start <= entries[k].lastSeen + Delay
      /\ clock \in Time
  BY DEF IInv, TypeOK, WindowInv, RateWindow
<1>4. \A d \in Caller : ask[d] # NoAsk =>
        ask[d].now \in Time /\ ask[d].now <= clock /\ clock <= ask[d].now + Delay
  BY DEF IInv, TypeOK, AskInv
<1>5. ask[c] # NoAsk
  BY <1>1 DEF Allow
<1>6. ask[c].now <= clock + Delay
  BY <1>3, <1>4, <1>5, LimiterAssumption DEF Time
<1>7. Expired(entries[k], clock)
  BY <1>2, <1>3, <1>4, <1>5, <1>6, PrunedHasExpired
<1>8. ASSUME NEW d \in Caller, ask[d] # NoAsk PROVE Expired(entries[k], ask[d].now)
  <2>1. ask[c].now <= ask[d].now + Delay
    BY <1>3, <1>4, <1>5, <1>8, LimiterAssumption DEF Time
  <2> QED
    BY <1>2, <1>3, <1>4, <1>5, <1>8, <2>1, PrunedHasExpired
<1> QED
  BY <1>7, <1>8

\* Pruning under the mutex (pruneLocked) never forgets a window that still counts,
\* for the callers on their way to the mutex and for all later ones.
THEOREM PruneIsSafe == Spec => PruneForgetsNothing
<1>1. IInv /\ [Next]_vars =>
        [\A k \in Key : entries[k] # NoWindow /\ entries'[k] = NoWindow =>
           /\ Expired(entries[k], clock)
           /\ \A c \in Caller : ask[c] # NoAsk => Expired(entries[k], ask[c].now)]_vars
  BY StepForgets
<1> QED
  BY <1>1, Invariance, PTL DEF Spec, PruneForgetsNothing

----------------------------------------------------------------------------
(* Bursts. *)

\* The requests of A that fall into the window that began at s.
InWindow(A, s) == {a \in A : a.start = s}

\* A window has admitted at most as many requests as there are numbers from m on, if
\* none of those in A has a lower one.
LEMMA WindowBound ==
  ASSUME NEW A \in SUBSET Admissions, \A a, b \in A : ApartInv(a, b), NEW s, NEW m \in 1..2,
         \A a \in InWindow(A, s) : a.no >= m
  PROVE  IsFiniteSet(InWindow(A, s)) /\ Cardinality(InWindow(A, s)) <= Limit + 1 - m
<1> DEFINE f == [a \in InWindow(A, s) |-> a.no]
<1>1. f \in [InWindow(A, s) -> m..Limit]
  <2> SUFFICES ASSUME NEW a \in InWindow(A, s) PROVE a.no \in m..Limit
    OBVIOUS
  <2>1. a.no \in 1..Limit /\ a.no >= m
    BY DEF InWindow, Admissions
  <2> QED
    BY <2>1, Numbers
<1>2. \A a, b \in InWindow(A, s) : f[a] = f[b] => a = b
  BY DEF InWindow, ApartInv
<1>3. f \in Injection(InWindow(A, s), m..Limit)
  BY <1>1, <1>2 DEF Injection, IsInjective
<1>4. IsFiniteSet(m..Limit) /\ Cardinality(m..Limit) = Limit + 1 - m
  <2>1. m \in Int /\ Limit \in Int /\ (m > Limit => Limit + 1 - m = 0)
    BY Numbers
  <2>2. IsFiniteSet(m..Limit) /\ Cardinality(m..Limit) = IF m > Limit THEN 0 ELSE Limit - m + 1
    BY <2>1, FS_Interval
  <2> QED
    BY <2>1, <2>2
<1> HIDE DEF f
<1> QED
  BY <1>3, <1>4, FS_Injection

\* Sets cover no more elements than they have together.
LEMMA CoverBound ==
  ASSUME NEW A, NEW B, NEW C, NEW D, IsFiniteSet(B), IsFiniteSet(C), IsFiniteSet(D),
         A \subseteq B \cup C \cup D
  PROVE  /\ Cardinality(A) \in Nat
         /\ Cardinality(A) <= Cardinality(B) + Cardinality(C) + Cardinality(D)
<1>1. /\ IsFiniteSet(B \cup C) /\ IsFiniteSet(B \cap C)
      /\ Cardinality(B \cup C) = Cardinality(B) + Cardinality(C) - Cardinality(B \cap C)
  BY FS_Union, FS_Intersection
<1>2. /\ IsFiniteSet(B \cup C \cup D) /\ IsFiniteSet((B \cup C) \cap D)
      /\ Cardinality(B \cup C \cup D)
           = Cardinality(B \cup C) + Cardinality(D) - Cardinality((B \cup C) \cap D)
  BY <1>1, FS_Union, FS_Intersection
<1>3. IsFiniteSet(A) /\ Cardinality(A) <= Cardinality(B \cup C \cup D)
  BY <1>2, FS_Subset
<1>4. /\ Cardinality(A) \in Nat /\ Cardinality(B) \in Nat /\ Cardinality(C) \in Nat
      /\ Cardinality(D) \in Nat /\ Cardinality(B \cap C) \in Nat
      /\ Cardinality((B \cup C) \cap D) \in Nat
  BY <1>1, <1>2, <1>3, FS_CardinalityType
<1> QED
  BY <1>1, <1>2, <1>3, <1>4

\* Three windows apart: the requests in the first of them came late, and no other
\* window is there.
LEMMA ThreeWindows ==
  ASSUME IInv, NEW k \in Key,
         NEW a \in admitted[k], NEW b \in admitted[k], NEW c \in admitted[k], NEW d \in admitted[k],
         a.start < b.start, b.start < c.start
  PROVE  /\ d.start = a.start \/ d.start = b.start \/ d.start = c.start
         /\ d.start = a.start => d.no >= 2
<1>1. \A x \in admitted[k] :
        x.start \in Nat /\ x.no \in Nat /\ x.no >= 1 /\ x.at \in Nat
  BY LimiterAssumption DEF IInv, TypeOK, Time
<1>2. \A x \in admitted[k] :
        /\ clock < x.at + Window /\ x.at <= clock
        /\ x.start <= x.at /\ x.at < x.start + Window + Delay
        /\ x.no = 1 => x.at <= x.start + Delay
  BY DEF IInv, LogInv, AdmittedInv
<1>3. \A x, y \in admitted[k] : x.start < y.start => x.start + Window <= y.start
  BY DEF IInv, LogInv, ApartInv
<1>4. clock \in Nat
  BY LimiterAssumption DEF IInv, TypeOK, Time
<1>5. \A x, y \in admitted[k] : y.start < x.start + 3 * Window
  <2> SUFFICES ASSUME NEW x \in admitted[k], NEW y \in admitted[k]
               PROVE  y.start < x.start + 3 * Window
    OBVIOUS
  <2>1. clock < x.at + Window /\ x.at < x.start + Window + Delay /\ y.start <= y.at /\ y.at <= clock
    BY <1>2
  <2> QED
    BY <1>1, <1>4, <2>1, Numbers
<1>6. a.start + Window <= b.start /\ b.start + Window <= c.start
  BY <1>3
<1>7. d.start = a.start \/ d.start = b.start \/ d.start = c.start
  <2> SUFFICES ASSUME d.start # a.start, d.start # b.start, d.start # c.start PROVE FALSE
    OBVIOUS
  <2>1. CASE d.start < a.start
    <3>1. d.start + Window <= a.start /\ c.start < d.start + 3 * Window
      BY <1>3, <1>5, <2>1
    <3> QED
      BY <1>1, <1>6, <3>1, Numbers
  <2>2. CASE a.start < d.start /\ d.start < b.start
    <3>1. a.start + Window <= d.start /\ d.start + Window <= b.start /\ c.start < a.start + 3 * Window
      BY <1>3, <1>5, <2>2
    <3> QED
      BY <1>1, <1>6, <3>1, Numbers
  <2>3. CASE b.start < d.start /\ d.start < c.start
    <3>1. b.start + Window <= d.start /\ d.start + Window <= c.start /\ c.start < a.start + 3 * Window
      BY <1>3, <1>5, <2>3
    <3> QED
      BY <1>1, <1>6, <3>1, Numbers
  <2>4. CASE c.start < d.start
    <3>1. c.start + Window <= d.start /\ d.start < a.start + 3 * Window
      BY <1>3, <1>5, <2>4
    <3> QED
      BY <1>1, <1>6, <3>1, Numbers
  <2> QED
    BY <1>1, <2>1, <2>2, <2>3, <2>4
<1>8. ASSUME d.start = a.start PROVE d.no >= 2
  <2> SUFFICES ASSUME d.no = 1 PROVE FALSE
    BY <1>1
  <2>1. clock < d.at + Window /\ d.at <= a.start + Delay /\ c.start <= c.at /\ c.at <= clock
    BY <1>2, <1>8
  <2> QED
    BY <1>1, <1>4, <1>6, <2>1, Numbers
<1> QED
  BY <1>7, <1>8

\* The invariant bounds the requests admitted within one window's length.
LEMMA LogBounds == IInv => BurstBounded
<1> SUFFICES ASSUME IInv, NEW k \in Key PROVE Cardinality(admitted[k]) < 3 * Limit
  BY DEF BurstBounded
<1> DEFINE A == admitted[k]
<1>1. A \in SUBSET Admissions /\ \A x, y \in A : ApartInv(x, y)
  BY DEF IInv, TypeOK, LogInv, Admissions
<1>2. ASSUME NEW s PROVE IsFiniteSet(InWindow(A, s)) /\ Cardinality(InWindow(A, s)) <= Limit
  <2>1. \A a \in InWindow(A, s) : a.no >= 1
    BY <1>1, Numbers DEF InWindow, Admissions
  <2>2. Limit + 1 - 1 = Limit /\ 1 \in 1..2
    BY Numbers
  <2> HIDE DEF A
  <2>3. IsFiniteSet(InWindow(A, s)) /\ Cardinality(InWindow(A, s)) <= Limit + 1 - 1
    BY <1>1, <2>1, <2>2, WindowBound
  <2> QED
    BY <2>2, <2>3
<1>3. \A x \in A : x.start \in Int
  BY <1>1, LimiterAssumption DEF Admissions, Time
<1>4. \A s : Cardinality(InWindow(A, s)) \in Nat
  BY <1>2, FS_CardinalityType
<1>5. CASE \E a, b, c \in A : a.start < b.start /\ b.start < c.start
  <2>1. PICK a \in A, b \in A, c \in A : a.start < b.start /\ b.start < c.start
    BY <1>5
  <2>2. \A d \in A : /\ d.start = a.start \/ d.start = b.start \/ d.start = c.start
                     /\ d.start = a.start => d.no >= 2
    BY <2>1, ThreeWindows
  <2> HIDE DEF A
  <2>3. Cardinality(InWindow(A, a.start)) <= Limit + 1 - 2
    <3>1. 2 \in 1..2 /\ \A d \in InWindow(A, a.start) : d.no >= 2
      BY <2>2 DEF InWindow
    <3> QED
      BY <1>1, <3>1, WindowBound
  <2>4. A \subseteq InWindow(A, a.start) \cup InWindow(A, b.start) \cup InWindow(A, c.start)
    BY <2>2 DEF InWindow
  <2>5. /\ Cardinality(A) \in Nat
        /\ Cardinality(A) <= Cardinality(InWindow(A, a.start)) + Cardinality(InWindow(A, b.start))
                               + Cardinality(InWindow(A, c.start))
    BY <1>2, <2>4, CoverBound
  <2>6. Cardinality(A) < 3 * Limit
    BY <1>2, <1>4, <2>3, <2>5, Numbers
  <2> QED
    BY <2>6 DEF A
<1>6. CASE ~\E a, b, c \in A : a.start < b.start /\ b.start < c.start
  <2>1. \E s, u : \A d \in A : d.start = s \/ d.start = u
    <3>1. CASE \E a, b \in A : a.start < b.start
      <4>1. PICK a \in A, b \in A : a.start < b.start
        BY <3>1
      <4>2. \A d \in A : d.start = a.start \/ d.start = b.start
        BY <1>3, <1>6, <4>1
      <4> QED
        BY <4>2
    <3>2. CASE ~\E a, b \in A : a.start < b.start
      <4>1. \A a, b \in A : a.start = b.start
        BY <1>3, <3>2
      <4> QED
        BY <4>1
    <3> QED
      BY <3>1, <3>2
  <2>2. PICK s, u : \A d \in A : d.start = s \/ d.start = u
    BY <2>1
  <2> HIDE DEF A
  <2>3. A \subseteq InWindow(A, s) \cup InWindow(A, u) \cup {}
    BY <2>2 DEF InWindow
  <2>4. /\ Cardinality(A) \in Nat
        /\ Cardinality(A) <= Cardinality(InWindow(A, s)) + Cardinality(InWindow(A, u))
                               + Cardinality({})
    BY <1>2, <2>3, CoverBound, FS_EmptySet
  <2>5. Cardinality(A) < 3 * Limit
    BY <1>2, <1>4, <2>4, FS_EmptySet, Numbers
  <2> QED
    BY <2>5 DEF A
<1> QED
  BY <1>5, <1>6

\* No stretch of one window's length admits as many requests as three windows may
\* (Allow), whatever the order in which its callers get the mutex.
THEOREM BurstIsBounded == Spec => []BurstBounded
BY LogBounds, Invariance, PTL

=============================================================================
