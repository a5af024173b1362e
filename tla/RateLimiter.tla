----------------------------- MODULE RateLimiter -----------------------------
(***************************************************************************)
(* The attempt limiter of the two auth endpoints (core/rate_limit.py), as  *)
(* it runs: rate_limit_auth is a plain function, so FastAPI calls it on a  *)
(* pool of threads, and all of them share one limiter without a lock.      *)
(*                                                                         *)
(* CPython switches threads only after a call has returned and at a jump   *)
(* back, so the steps of RateLimiter.check are what lies between its       *)
(* calls: reading the clock; one turn of the sweep; len, with the two      *)
(* tests around it; append.  Nothing runs between a test of the deque's    *)
(* head and its removal.                                                   *)
(*                                                                         *)
(*   clock     time.monotonic(), in ticks up to MaxTime                    *)
(*   attempts  per key, the deque of the times it remembers                *)
(*   pc        where each call of check is                                 *)
(*   key, now  the key it was made for, and the time it read               *)
(*   raced     history: keys for which two calls have run at the same time *)
(***************************************************************************)
EXTENDS Naturals, Sequences, FiniteSets

CONSTANTS
    Calls,         \* calls of check, each made once
    Keys,          \* client addresses
    MaxAttempts,   \* attempts allowed inside the window
    Window,        \* how long an attempt is remembered, in ticks
    MaxThreads,    \* bound: calls that run at the same time
    MaxTime        \* bound: the last tick

ASSUME LimiterAssumption ==
    /\ IsFiniteSet(Calls)
    /\ MaxAttempts \in Nat \ {0}
    /\ Window \in Nat
    /\ MaxThreads \in Nat \ {0}
    /\ MaxTime \in Nat

VARIABLES clock, attempts, pc, key, now, raced
vars == <<clock, attempts, pc, key, now, raced>>

Running == {"sweep", "append"}

TypeOK ==
    /\ clock \in 0..MaxTime
    /\ attempts \in [Keys -> Seq(0..MaxTime)]
    /\ pc \in [Calls -> {"idle", "accepted", "refused"} \cup Running]
    /\ key \in [Calls -> Keys]
    /\ now \in [Calls -> 0..MaxTime]
    /\ raced \subseteq Keys

Init ==
    /\ clock = 0
    /\ attempts = [k \in Keys |-> <<>>]
    /\ pc = [c \in Calls |-> "idle"]
    /\ key \in [Calls -> Keys]
    /\ now = [c \in Calls |-> 0]
    /\ raced = {}

Goto(c, label) == pc' = [pc EXCEPT ![c] = label]

Tick ==
    /\ clock < MaxTime
    /\ clock' = clock + 1
    /\ UNCHANGED <<attempts, pc, key, now, raced>>

\* The call reads the clock; the key's deque is made when it is first needed.
ReadClock(c) ==
    /\ pc[c] = "idle"
    /\ Cardinality({d \in Calls : pc[d] \in Running}) < MaxThreads
    /\ now' = [now EXCEPT ![c] = clock]
    /\ Goto(c, "sweep")
    /\ raced' = raced \cup {k \in {key[c]} : \E d \in Calls : pc[d] \in Running /\ key[d] = k}
    /\ UNCHANGED <<clock, attempts, key>>

Recent(c) == attempts[key[c]]

\* Planted mistake: an attempt is forgotten in the last tick of its window.
ExpiredEarly(c) == Recent(c) # <<>> /\ now[c] >= Head(Recent(c)) + Window

\* The deque's head is older than the window. A thread that read the clock
\* before the head was appended sees a negative age.
Expired(c) == Recent(c) # <<>> /\ now[c] > Head(Recent(c)) + Window

Sweep(c) ==
    /\ pc[c] = "sweep"
    /\ Expired(c)
    /\ attempts' = [attempts EXCEPT ![key[c]] = Tail(@)]
    /\ UNCHANGED <<clock, pc, key, now, raced>>

\* Planted mistake: one attempt more than the limit.
MeasureOneMore(c) ==
    /\ pc[c] = "sweep"
    /\ ~Expired(c)
    /\ Goto(c, IF Len(Recent(c)) > MaxAttempts THEN "refused" ELSE "append")
    /\ UNCHANGED <<clock, attempts, key, now, raced>>

\* Planted mistake: a refused attempt is remembered too.
MeasureRemembersAll(c) ==
    /\ pc[c] = "sweep"
    /\ ~Expired(c)
    /\ IF Len(Recent(c)) >= MaxAttempts
         THEN Goto(c, "refused") /\ attempts' = [attempts EXCEPT ![key[c]] = Append(@, now[c])]
         ELSE Goto(c, "append") /\ UNCHANGED attempts
    /\ UNCHANGED <<clock, key, now, raced>>

\* Nothing is left to sweep: the deque's length decides.
Measure(c) ==
    /\ pc[c] = "sweep"
    /\ ~Expired(c)
    /\ Goto(c, IF Len(Recent(c)) >= MaxAttempts THEN "refused" ELSE "append")
    /\ UNCHANGED <<clock, attempts, key, now, raced>>

\* Planted mistake: an accepted attempt is not remembered.
RecordNothing(c) ==
    /\ pc[c] = "append"
    /\ Goto(c, "accepted")
    /\ UNCHANGED <<clock, attempts, key, now, raced>>

Record(c) ==
    /\ pc[c] = "append"
    /\ attempts' = [attempts EXCEPT ![key[c]] = Append(@, now[c])]
    /\ Goto(c, "accepted")
    /\ UNCHANGED <<clock, key, now, raced>>

\* Time has run out and every call that was made is answered.
Quiet ==
    /\ clock = MaxTime
    /\ \A c \in Calls : pc[c] \notin Running
    /\ UNCHANGED vars

Next ==
    \/ Tick
    \/ \E c \in Calls : ReadClock(c) \/ Sweep(c) \/ Measure(c) \/ Record(c)
    \/ Quiet

Spec == Init /\ [][Next]_vars

-----------------------------------------------------------------------------
(* Properties *)

\* The accepted calls of key k in the window that ends at time t.
AcceptedIn(k, t) ==
    {c \in Calls : /\ pc[c] = "accepted" /\ key[c] = k
                  /\ now[c] <= t /\ t <= now[c] + Window}

\* AUTH-040: no window of a key holds more than MaxAttempts accepted attempts,
\* unless two calls for that very key have overlapped, whatever calls for other
\* keys did between its steps.
WindowBound ==
    \A k \in Keys \ raced, t \in 0..MaxTime : Cardinality(AcceptedIn(k, t)) <= MaxAttempts

\* Without such an overlap, a call is refused only when the window that ends
\* with it is full, however old the rest of the deque is (rate_limit.py:
\* attempts are counted inside a sliding window).
RefusedOnlyWhenFull ==
    \A c \in Calls :
       pc[c] = "refused" /\ key[c] \notin raced
         => Cardinality(AcceptedIn(key[c], now[c])) >= MaxAttempts

\* What the races between threads can add: each other thread may append after
\* it measured, and each may measure a deque swept for a later time.
OvershootBounded ==
    \A k \in Keys, t \in 0..MaxTime :
       Cardinality(AcceptedIn(k, t)) <= MaxAttempts + 2 * (MaxThreads - 1)
=============================================================================
